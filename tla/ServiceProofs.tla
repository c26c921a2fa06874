---------------------------- MODULE ServiceProofs ----------------------------
(****************************************************************************)
(* What is proved of what a process of the service keeps beside the         *)
(* conversation: the search index, the caches, the outfits of a turn and    *)
(* the numbers of shown products; of the rails of recommended products; of  *)
(* the sizes advised; of the journeys and the runs of the traffic           *)
(* simulator; and of the pages of a search: each a part of its own, with an *)
(* inductive invariant of its own.                                          *)
(****************************************************************************)
EXTENDS SearchIndex, SearchAnswers, TimedCaches, Outfit, ShownProducts, Rails, SimTraffic, Sizing,
        FiniteSetTheorems, WellFoundedInduction, TLAPS

-----------------------------------------------------------------------------
(* Folds.  The theorems of the library about induction take an operator;    *)
(* these are stated with sets and functions instead, and rest on there      *)
(* being no infinite descent of numbers.                                    *)

\* A set of numbers that has the first and with each the next one has all of them.
LEMMA Induction ==
    ASSUME NEW n \in Nat, NEW S, 0 \in S, \A k \in 1..n : k - 1 \in S => k \in S
    PROVE  0..n \subseteq S
<1> SUFFICES ASSUME NEW j \in 0..n, j \notin S PROVE FALSE
  OBVIOUS
<1> DEFINE T == (0..n) \ S
<1>1. T \in SUBSET Nat /\ T # {}
  OBVIOUS
<1>2. PICK k \in T : \A m \in T : k <= m
  <2>1. PICK k \in T : \A m \in T : <<m, k>> \notin OpToRel(<, Nat)
    BY <1>1, NatLessThanWellFounded, WFMin
  <2>2. \A m \in T : ~(m < k)
    BY <2>1, <1>1 DEF OpToRel
  <2>3. QED
    BY <1>1, <2>2
<1>3. k \in 1..n /\ k - 1 \in 0..n /\ k - 1 \notin T
  BY <1>2
<1>4. QED
  BY <1>2, <1>3

\* A fold: a function on the subsets of a set that is what a step makes of its value
\* without one element.
IsFold(g, D, X, base, ch, step) ==
    /\ g \in [SUBSET D -> X]
    /\ \A u \in SUBSET D : g[u] = IF u = {} THEN base ELSE step[ch[u]][g[u \ {ch[u]}]]

\* There is such a function.
HasFold(D, X, base, ch, step) == \E g : IsFold(g, D, X, base, ch, step)

\* Over a finite set there is one.
LEMMA FoldExists ==
    ASSUME NEW D, IsFiniteSet(D), NEW X, NEW base \in X,
           NEW ch, \A u \in SUBSET D : u # {} => ch[u] \in u,
           NEW step, \A d \in D, x \in X : step[d][x] \in X
    PROVE  HasFold(D, X, base, ch, step)
<1> DEFINE Upto(n) == {u \in SUBSET D : Cardinality(u) <= n}
           Val(g, u) == IF u = {} THEN base ELSE step[ch[u]][g[u \ {ch[u]}]]
           Fold(g, n) == g \in [Upto(n) -> X] /\ \A u \in Upto(n) : g[u] = Val(g, u)
           S == {n \in Nat : \E g : Fold(g, n)}
           N == Cardinality(D)
<1>1. N \in Nat /\ \A u \in SUBSET D : IsFiniteSet(u) /\ Cardinality(u) \in 0..N
  BY FS_Subset, FS_CardinalityType
<1>2. Upto(N) = SUBSET D
  BY <1>1
<1>3. 0 \in S
  <2> DEFINE g == [u \in Upto(0) |-> base]
  <2>1. \A u \in Upto(0) : u = {}
    BY <1>1, FS_EmptySet
  <2>2. Fold(g, 0)
    BY <2>1
  <2>3. QED
    BY <2>2
<1>4. ASSUME NEW k \in 1..N, k - 1 \in S PROVE k \in S
  <2>1. PICK f : Fold(f, k - 1)
    BY <1>4
  <2> HIDE DEF S
  <2> DEFINE g == [u \in Upto(k) |-> Val(f, u)]
  <2>2. ASSUME NEW u \in Upto(k), u # {}
        PROVE  ch[u] \in D /\ u \ {ch[u]} \in Upto(k - 1)
    <3>1. ch[u] \in u /\ u \subseteq D /\ IsFiniteSet(u)
      BY <2>2, <1>1
    <3>2. Cardinality(u \ {ch[u]}) = Cardinality(u) - 1
      BY <3>1, FS_RemoveElement
    <3>3. QED
      BY <3>1, <3>2, <1>1
  <2>3. \A u \in Upto(k - 1) : u \in Upto(k) /\ f[u] \in X
    BY <2>1, <1>1
  <2>4. \A u \in Upto(k) : Val(f, u) \in X
    BY <2>2, <2>3
  <2>5. \A u \in Upto(k - 1) : g[u] = f[u]
    <3>1. \A u \in Upto(k - 1) : f[u] = Val(f, u)
      BY <2>1
    <3>2. QED
      BY <2>3, <3>1
  <2>6. ASSUME NEW u \in Upto(k) PROVE Val(g, u) = Val(f, u)
    <3> HIDE DEF g, Upto
    <3>1. CASE u = {}
      BY <3>1
    <3>2. CASE u # {}
      BY <2>2, <2>5, <3>2
    <3>3. QED
      BY <3>1, <3>2
  <2>7. Fold(g, k)
    <3>1. g \in [Upto(k) -> X]
      BY <2>4
    <3>2. \A u \in Upto(k) : g[u] = Val(f, u)
      OBVIOUS
    <3> HIDE DEF g, Val
    <3>3. \A u \in Upto(k) : g[u] = Val(g, u)
      BY <3>2, <2>6
    <3>4. QED
      BY <3>1, <3>3
  <2>8. k \in Nat
    OBVIOUS
  <2> HIDE DEF Fold, g
  <2>9. QED
    BY <2>7, <2>8 DEF S
<1>5. N \in S
  <2> HIDE DEF S
  <2>1. 0..N \subseteq S
    BY <1>1, <1>3, <1>4, Induction
  <2>2. QED
    BY <2>1, <1>1
<1>6. QED
  BY <1>2, <1>5 DEF HasFold, IsFold

\* The greatest of some numbers up to n, and of all of them.
LEMMA Greatest ==
    ASSUME NEW n \in Nat, NEW u, u \subseteq 1..n, u # {}
    PROVE  Max(u) \in u /\ \A y \in u : y <= Max(u)
<1> DEFINE T == {n - y : y \in u}
<1>1. T \in SUBSET Nat /\ T # {}
  <2>1. \A y \in u : n - y \in Nat
    OBVIOUS
  <2>2. QED
    BY <2>1
<1>2. PICK k \in T : \A m \in T : <<m, k>> \notin OpToRel(<, Nat)
  BY <1>1, NatLessThanWellFounded, WFMin
<1>3. \A m \in T : ~(m < k)
  BY <1>2, <1>1 DEF OpToRel
<1>4. PICK x \in u : k = n - x
  OBVIOUS
<1>5. \A y \in u : x >= y
  <2> SUFFICES ASSUME NEW y \in u PROVE x >= y
    OBVIOUS
  <2>1. n - y \in T
    OBVIOUS
  <2>2. ~(n - y < n - x)
    BY <1>3, <1>4, <2>1
  <2>3. x \in 1..n /\ y \in 1..n
    OBVIOUS
  <2>4. QED
    BY <2>2, <2>3
<1>6. Max(u) \in u /\ \A y \in u : Max(u) >= y
  BY <1>5 DEF Max
<1>7. QED
  BY <1>6

\* Of the first k numbers it is k.
LEMMA GreatestOfFirst ==
    ASSUME NEW n \in Nat, NEW k \in 1..n
    PROVE  /\ 1..k \in SUBSET (1..n) /\ 1..k # {} /\ Max(1..k) = k
           /\ (1..k) \ {Max(1..k)} = 1..(k - 1)
<1>1. 1..k \subseteq 1..n /\ k \in 1..k
  OBVIOUS
<1>2. Max(1..k) \in 1..k /\ k <= Max(1..k)
  BY <1>1, Greatest
<1>3. Max(1..k) = k
  BY <1>2
<1>4. QED
  BY <1>1, <1>3

\* A fold over the first n numbers, from the least to the greatest, which is what
\* FoldLeft is over the places of a list.
NumbersUpto(n) == [u \in SUBSET (1..n) |-> Max(u)]

\* There is one.
LEMMA NumbersFold ==
    ASSUME NEW n \in Nat, NEW X, NEW base \in X,
           NEW step, \A i \in 1..n, x \in X : step[i][x] \in X
    PROVE  HasFold(1..n, X, base, NumbersUpto(n), step)
<1>1. \A u \in SUBSET (1..n) : u # {} => NumbersUpto(n)[u] \in u
  BY Greatest DEF NumbersUpto
<1>2. IsFiniteSet(1..n)
  BY FS_Interval
<1>3. QED
  BY <1>1, <1>2, FoldExists


\* The least of some numbers up to n.
LEMMA Least ==
    ASSUME NEW n \in Nat, NEW u, u \subseteq 1..n, u # {}
    PROVE  Min(u) \in u /\ \A y \in u : Min(u) <= y
<1>1. u \in SUBSET Nat
  OBVIOUS
<1>2. PICK k \in u : \A m \in u : <<m, k>> \notin OpToRel(<, Nat)
  BY <1>1, NatLessThanWellFounded, WFMin
<1>3. \A m \in u : ~(m < k)
  BY <1>2, <1>1 DEF OpToRel
<1>4. \A m \in u : k <= m
  BY <1>1, <1>3
<1>5. QED
  BY <1>4 DEF Min

-----------------------------------------------------------------------------
(* The search index, for any numbers of requests and of seedings: a search  *)
(* after an answered reindex never ranks an older catalog.  The reason is   *)
(* that nothing newer than the index can be owed to anybody while there is  *)
(* one, and that a build keeps resets away until it has stored what it      *)
(* read.                                                                    *)

\* A catalog that is as new as anybody was promised or waits for.
Covers(n) == promised <= n /\ \A w \in Workers : job[w].owed <= n

\* The inductive invariant: an index covers, what is being built will, only the
\* worker in the critical section builds, and only while there is no index.
IndexInv ==
    /\ IndexTypeOK
    /\ Covers(catalog)
    /\ index # NoIndex => Covers(index)
    /\ \A w \in Workers : job[w].pc = "build" =>
          holder = {w} /\ index = NoIndex /\ Covers(job[w].seen)

\* The invariant holds when the process starts.
LEMMA InitIndexInv == InitIndex => IndexInv
  BY IndexAssumption
     DEF InitIndex, IndexInv, IndexTypeOK, Covers, IdleJob, NewJob, Versions

\* Every step keeps it.
LEMMA NextIndexInv == IndexInv /\ [NextIndex]_indexVars => IndexInv'
<1> SUFFICES ASSUME IndexInv, [NextIndex]_indexVars
             PROVE  IndexInv'
    OBVIOUS
<1> USE IndexAssumption DEF IndexInv, IndexTypeOK, Versions, Covers
<1>1. ASSUME NEW w \in Workers, SearchProducts(w)
      PROVE  IndexInv'
  <2>1. /\ \A v \in Workers \ {w} : job'[v] = job[v]
        /\ job'[w] = [pc |-> "check", op |-> "search", seen |-> 0, owed |-> promised]
        /\ UNCHANGED <<catalog, index, holder, promised>>
        BY <1>1 DEF SearchProducts, NewJob
  <2>2. IndexTypeOK'
        BY <1>1 DEF SearchProducts, NewJob
  <2> QED  BY <2>1, <2>2
<1>2. ASSUME NEW w \in Workers, ReindexSearch(w)
      PROVE  IndexInv'
  <2>1. /\ \A v \in Workers \ {w} : job'[v] = job[v]
        /\ job'[w] = [pc |-> "reset", op |-> "reindex", seen |-> 0, owed |-> 0]
        /\ UNCHANGED <<catalog, index, holder, promised>>
        BY <1>2 DEF ReindexSearch, NewJob
  <2>2. IndexTypeOK'
        BY <1>2 DEF ReindexSearch, NewJob
  <2> QED  BY <2>1, <2>2
<1>3. ASSUME NEW w \in Workers, ResetIndex(w)
      PROVE  IndexInv'
  <2>1. \A v \in Workers : job'[v].pc # "build"
        BY <1>3 DEF ResetIndex
  <2>2. IndexTypeOK'
        BY <1>3 DEF ResetIndex
  <2> QED  BY <1>3, <2>1, <2>2 DEF ResetIndex
<1>4. ASSUME NEW w \in Workers, CheckIndex(w)
      PROVE  IndexInv'
      BY <1>4 DEF CheckIndex, Goto
<1>5. ASSUME NEW w \in Workers, FoundBuilt(w)
      PROVE  IndexInv'
      BY <1>5 DEF FoundBuilt, Goto
<1>6. ASSUME NEW w \in Workers, BuildIndex(w)
      PROVE  IndexInv'
  <2>1. \A v \in Workers : job[v].pc # "build"
        BY <1>6 DEF BuildIndex
  <2> QED  BY <1>6, <2>1 DEF BuildIndex
<1>7. ASSUME NEW w \in Workers, StoreIndex(w)
      PROVE  IndexInv'
  <2>1. \A v \in Workers : job'[v].pc # "build"
        BY <1>7 DEF StoreIndex, Goto
  <2> QED  BY <1>7, <2>1 DEF StoreIndex, Goto
<1>8. ASSUME NEW w \in Workers, BuildFails(w)
      PROVE  IndexInv'
  <2>1. \A v \in Workers : job'[v].pc # "build"
        BY <1>8 DEF BuildFails, EndJob, IdleJob, NewJob
  <2> QED  BY <1>8, <2>1 DEF BuildFails, EndJob, IdleJob, NewJob
<1>9. ASSUME NEW w \in Workers, NoIndexLeft(w) \/ AnswerSearch(w)
      PROVE  IndexInv'
      BY <1>9 DEF NoIndexLeft, AnswerSearch, EndJob, IdleJob, NewJob
<1>10. ASSUME NEW w \in Workers, AnswerReindex(w)
       PROVE  IndexInv'
       BY <1>10 DEF AnswerReindex, EndJob, IdleJob, NewJob
<1>11. CASE SeedCatalog
       BY <1>11 DEF SeedCatalog
<1>12. CASE UNCHANGED indexVars
       BY <1>12 DEF indexVars
<1> QED
    BY <1>1, <1>2, <1>3, <1>4, <1>5, <1>6, <1>7, <1>8, <1>9, <1>10, <1>11, <1>12
       DEF NextIndex, Proceed

\* Every behaviour keeps the invariant.
LEMMA IndexAlwaysCovers == SpecIndex => []IndexInv
  BY InitIndexInv, NextIndexInv, PTL DEF SpecIndex

\* However builds, resets, failures and searches interleave in a process, a
\* search that began after a reindex was answered ranks a catalog at least as
\* new as the one that reindex was for.
THEOREM SearchesAreCurrent == SpecIndex => []ReindexHolds
<1>1. IndexInv => ReindexHolds
      BY IndexAssumption DEF IndexInv, Covers, ReindexHolds, IndexTypeOK, Versions
<1> QED  BY <1>1, IndexAlwaysCovers, PTL

-----------------------------------------------------------------------------
(* The caches, for any number of requests and any durations: how old an     *)
(* answer can be.  The facets' stamp and data may be of two requests, but a *)
(* stamp is never later than now, and what is stored was read at most Delay *)
(* ago; so once both are written the stamp is at most Delay ahead of the    *)
(* data.                                                                    *)

\* The times of a request under way.
InTime(r) ==
    reader[r].pc # "away" =>
        /\ reader[r].now <= time /\ time <= reader[r].now + Delay
        /\ reader[r].pc \in {"stamp", "store", "keep"} => reader[r].now <= reader[r].data

\* The stamp stands by data that is not much older.
StampFits == Torn \/ facets.data = NoData \/ facets.at <= facets.data + Delay

\* What a request that found the cache fresh will answer with.
HitFits(r) ==
    reader[r].pc = "hit" =>
        /\ FacetsTTL > 0
        /\ \/ Torn
           \/ facets.data = NoData
           \/ reader[r].now < facets.data + FacetsTTL + Delay

PolicyFits == policy.data # NoData => policy.until <= policy.data + PolicyTTL + Delay

\* The inductive invariant.
CachesInv ==
    /\ CachesTypeOK
    /\ facets.at <= time
    /\ \A r \in Readers : InTime(r) /\ HitFits(r)
    /\ StampFits
    /\ PolicyFits

\* The caches are empty when the process starts.
LEMMA InitCachesInv == InitCaches => CachesInv
  BY CachesAssumption
     DEF InitCaches, CachesInv, CachesTypeOK, InTime, HitFits, StampFits, PolicyFits, Away

\* A request that begins, reads or is answered and touches no cache.
LEMMA ReadersMove ==
    ASSUME CachesInv, UNCHANGED <<time, facets, policy>>, CachesTypeOK',
           NEW r \in Readers,
           \A q \in Readers \ {r} : reader'[q] = reader[q],
           reader[r].pc # "store", reader'[r].pc # "store",
           InTime(r)', HitFits(r)'
    PROVE  CachesInv'
<1>1. Torn' <=> Torn
      BY DEF Torn
<1> QED
    BY <1>1 DEF CachesInv, InTime, HitFits, StampFits, PolicyFits

\* Every step keeps the invariant.
LEMMA NextCachesInv == CachesInv /\ [NextCaches]_cachesVars => CachesInv'
<1> SUFFICES ASSUME CachesInv, [NextCaches]_cachesVars
             PROVE  CachesInv'
    OBVIOUS
<1> USE CachesAssumption
<1>0. CachesTypeOK
      BY DEF CachesInv
<1>1. ASSUME NEW r \in Readers, AskFacets(r)
      PROVE  CachesInv'
  <2>1. /\ reader'[r] = [pc |-> IF FacetsHit THEN "hit" ELSE "query",
                         now |-> time, data |-> 0]
        /\ \A q \in Readers \ {r} : reader'[q] = reader[q]
        /\ UNCHANGED <<time, facets, policy>>
        /\ reader[r].pc = "away"
        BY <1>0, <1>1 DEF AskFacets, Begin, CachesTypeOK
  <2>2. CachesTypeOK'
        BY <1>0, <1>1, <2>1 DEF AskFacets, Begin, CachesTypeOK
  <2>3. Torn' <=> Torn
        BY <2>1 DEF Torn
  <2>4. InTime(r)' /\ HitFits(r)'
        BY <1>0, <2>1, <2>3
           DEF InTime, HitFits, FacetsHit, CachesInv, StampFits, CachesTypeOK
  <2> QED  BY <2>1, <2>2, <2>4, ReadersMove
<1>2. ASSUME NEW r \in Readers, AnswerFacets(r)
      PROVE  CachesInv'
      BY <1>0, <1>2, ReadersMove
         DEF AnswerFacets, Answer, Away, CachesTypeOK, InTime, HitFits
<1>3. ASSUME NEW r \in Readers, QueryFacets(r) \/ LookUpPolicy(r)
      PROVE  CachesInv'
  <2>1. /\ reader'[r].pc \in {"stamp", "keep"}
        /\ reader'[r].now = reader[r].now /\ reader'[r].data = time
        /\ \A q \in Readers \ {r} : reader'[q] = reader[q]
        /\ UNCHANGED <<time, facets, policy>>
        /\ reader[r].pc \in {"query", "lookup"}
        BY <1>0, <1>3 DEF QueryFacets, LookUpPolicy, Read, CachesTypeOK
  <2>2. CachesTypeOK'
        BY <1>0, <1>3 DEF QueryFacets, LookUpPolicy, Read, CachesTypeOK
  <2>3. InTime(r)' /\ HitFits(r)'
        BY <1>0, <2>1 DEF InTime, HitFits, CachesInv
  <2> QED  BY <2>1, <2>2, <2>3, ReadersMove
<1>4. ASSUME NEW r \in Readers, StampFacets(r)
      PROVE  CachesInv'
  <2>1. /\ reader[r].pc = "stamp" /\ reader'[r] = [reader[r] EXCEPT !.pc = "store"]
        /\ \A q \in Readers \ {r} : reader'[q] = reader[q]
        /\ facets' = [facets EXCEPT !.at = reader[r].now]
        /\ UNCHANGED <<time, policy>>
        BY <1>0, <1>4 DEF StampFacets, CachesTypeOK
  <2>2. CachesTypeOK'
        BY <1>0, <1>4 DEF StampFacets, CachesTypeOK
  <2>3. Torn'
        BY <1>0, <2>1 DEF Torn, CachesTypeOK
  <2>4. facets'.at <= time'
        BY <1>0, <2>1 DEF CachesInv, InTime, CachesTypeOK
  <2>5. \A q \in Readers : InTime(q)' /\ HitFits(q)'
        BY <1>0, <2>1, <2>3 DEF CachesInv, InTime, HitFits, CachesTypeOK
  <2> QED  BY <2>1, <2>2, <2>3, <2>4, <2>5 DEF CachesInv, StampFits, PolicyFits
<1>5. ASSUME NEW r \in Readers, StoreFacets(r)
      PROVE  CachesInv'
  <2>1. /\ reader[r].pc = "store" /\ reader'[r] = Away
        /\ \A q \in Readers \ {r} : reader'[q] = reader[q]
        /\ facets'.at = facets.at /\ facets'.data = reader[r].data
        /\ UNCHANGED <<time, policy>>
        BY <1>0, <1>5 DEF StoreFacets, Answer, CachesTypeOK
  <2>2. CachesTypeOK'
        BY <1>0, <1>5 DEF StoreFacets, Answer, Away, CachesTypeOK
  <2>3. time <= reader[r].data + Delay /\ reader[r].data \in Nat
        BY <1>0, <2>1 DEF CachesInv, InTime, CachesTypeOK
  <2>4. StampFits'
        BY <1>0, <2>1, <2>3 DEF CachesInv, StampFits, CachesTypeOK
  <2>5. \A q \in Readers : InTime(q)' /\ HitFits(q)'
        BY <1>0, <2>1, <2>3 DEF CachesInv, InTime, HitFits, CachesTypeOK, Away
  <2> QED  BY <2>1, <2>2, <2>4, <2>5 DEF CachesInv, PolicyFits
<1>6. ASSUME InvalidateCategoriesCache
      PROVE  CachesInv'
  <2>1. CachesTypeOK' /\ facets'.data = NoData /\ facets'.at = facets.at
        /\ UNCHANGED <<time, policy, reader>>
        BY <1>0, <1>6 DEF InvalidateCategoriesCache, CachesTypeOK
  <2> QED
      BY <2>1 DEF CachesInv, InTime, HitFits, StampFits, PolicyFits
<1>7. ASSUME NEW r \in Readers, AskPolicy(r)
      PROVE  CachesInv'
      BY <1>0, <1>7, ReadersMove
         DEF AskPolicy, Begin, CachesTypeOK, InTime, HitFits
<1>8. ASSUME NEW r \in Readers, KeepPolicy(r)
      PROVE  CachesInv'
  <2>1. /\ reader[r].pc = "keep" /\ reader'[r] = Away
        /\ \A q \in Readers \ {r} : reader'[q] = reader[q]
        /\ policy' = [data |-> reader[r].data, until |-> time + PolicyTTL]
        /\ UNCHANGED <<time, facets>>
        BY <1>0, <1>8 DEF KeepPolicy, KeptUntil, Answer, CachesTypeOK
  <2>2. CachesTypeOK'
        BY <1>0, <1>8, <2>1 DEF KeepPolicy, Answer, Away, CachesTypeOK
  <2>3. PolicyFits'
        BY <1>0, <2>1 DEF CachesInv, InTime, PolicyFits, CachesTypeOK
  <2>4. Torn' <=> Torn
        BY <2>1 DEF Torn, Away
  <2> QED
      BY <2>1, <2>2, <2>3, <2>4 DEF CachesInv, InTime, HitFits, StampFits, Away
<1>9. ASSUME DropPolicy
      PROVE  CachesInv'
  <2>1. CachesTypeOK' /\ policy'.data = NoData /\ UNCHANGED <<time, facets, reader>>
        BY <1>0, <1>9 DEF DropPolicy, CachesTypeOK
  <2>2. Torn' <=> Torn
        BY <2>1 DEF Torn
  <2> QED
      BY <2>1, <2>2 DEF CachesInv, InTime, HitFits, StampFits, PolicyFits
<1>10. ASSUME TimePasses
       PROVE  CachesInv'
  <2>1. /\ CachesTypeOK' /\ time' = time + 1 /\ UNCHANGED <<facets, policy, reader>>
        /\ \A r \in Readers : reader[r].pc # "away" => time < reader[r].now + Delay
        BY <1>0, <1>10 DEF TimePasses, CachesTypeOK
  <2>2. Torn' <=> Torn
        BY <2>1 DEF Torn
  <2>3. \A r \in Readers : InTime(r)'
        BY <1>0, <2>1 DEF CachesInv, InTime, CachesTypeOK
  <2>4. facets'.at <= time'
        BY <1>0, <2>1 DEF CachesInv, CachesTypeOK
  <2> QED
      BY <2>1, <2>2, <2>3, <2>4 DEF CachesInv, HitFits, StampFits, PolicyFits
<1>11. CASE UNCHANGED cachesVars
       BY <1>11 DEF cachesVars, CachesInv, CachesTypeOK, InTime, HitFits, StampFits,
                    PolicyFits, Torn
<1> QED
    BY <1>1, <1>2, <1>3, <1>4, <1>5, <1>6, <1>7, <1>8, <1>9, <1>10, <1>11
       DEF NextCaches

\* However requests interleave with each other and with the clearing of the
\* caches, facets and policies that are answered are no older than their time
\* to live and the time requests take.
THEOREM CachesAreFresh == SpecCaches => []CachesWithinTTL
<1>1. CachesInv => CachesWithinTTL
  <2> SUFFICES ASSUME CachesInv PROVE FacetsWithinTTL /\ PolicyWithinTTL
      BY DEF CachesWithinTTL
  <2>1. FacetsWithinTTL
        BY CachesAssumption DEF CachesInv, CachesTypeOK, InTime, HitFits, FacetsWithinTTL
  <2>2. PolicyWithinTTL
        BY CachesAssumption
           DEF CachesInv, CachesTypeOK, PolicyFits, PolicyWithinTTL, PolicyHit
  <2> QED  BY <2>1, <2>2
<1> QED  BY <1>1, InitCachesInv, NextCachesInv, PTL DEF SpecCaches

-----------------------------------------------------------------------------
(* The outfits of the copilot: for every budget, all prices and any number  *)
(* of calls at a time, what is shown keeps within.                          *)

Picks == [1..3 -> Prices \cup {NoPick}]
BuildStates == [pc : 0..5, budget : Int, total : Nat, chosen : Picks]

\* What the pieces of a choice cost together.
Cost(ch) == PriceOf(ch[1]) + PriceOf(ch[2]) + PriceOf(ch[3])

\* A call's total is the cost of what it has chosen, and the slots it has not come to
\* are empty: without this a slot could be filled twice and paid for twice.
TrueTotals ==
    \A c \in Builds :
        /\ build[c].total = Cost(build[c].chosen)
        /\ \A s \in 1..3 : s >= build[c].pc => build[c].chosen[s] = NoPick

\* The inductive invariant.
OutfitInv == OutfitTypeOK /\ TrueTotals /\ OutfitWithinBudget

\* A product's price is a number; an empty slot costs nothing.
LEMMA PricesAreNumbers ==
    \A p \in Prices \cup {NoPick} : PriceOf(p) \in Nat
  BY OutfitAssumption DEF PriceOf

\* So is the cost of a choice.
LEMMA CostsAreNumbers == \A ch \in Picks : Cost(ch) \in Nat
  BY PricesAreNumbers DEF Picks, Cost

\* What replacing fields makes of the state of a call, whatever the fields' sets.
LEMMA FieldsReplaced ==
    ASSUME NEW P, NEW B, NEW T, NEW C,
           NEW b \in [pc : P, budget : B, total : T, chosen : C],
           NEW x \in P, NEW v \in B, NEW n \in T, NEW ch \in C
    PROVE  /\ LET d == [b EXCEPT !.pc = x, !.budget = v]
              IN  /\ d \in [pc : P, budget : B, total : T, chosen : C]
                  /\ d.pc = x /\ d.total = b.total /\ d.chosen = b.chosen
           /\ LET d == [b EXCEPT !.pc = x, !.total = n, !.chosen = ch]
              IN  /\ d \in [pc : P, budget : B, total : T, chosen : C]
                  /\ d.pc = x /\ d.total = n /\ d.chosen = ch
  OBVIOUS

\* Nothing is chosen before the first call.
LEMMA InitOutfitInv == InitOutfit => OutfitInv
<1> SUFFICES ASSUME InitOutfit PROVE OutfitInv
    OBVIOUS
<1>1. [s \in 1..3 |-> NoPick] \in Picks
      BY DEF Picks
<1>2. Cost([s \in 1..3 |-> NoPick]) = 0
      BY DEF Cost, PriceOf
<1>3. \A c \in Builds : build[c] = [pc |-> 0, budget |-> 0, total |-> 0,
                                    chosen |-> [s \in 1..3 |-> NoPick]]
      BY DEF InitOutfit
<1>4. TrueTotals
      BY <1>2, <1>3 DEF TrueTotals
<1>5. outfit \in [total : Nat, budget : Int, slots : Picks]
      BY <1>1 DEF InitOutfit, NoOutfit
<1>6. build \in [Builds -> BuildStates]
      BY <1>1 DEF InitOutfit, BuildStates
<1>7. OutfitTypeOK
      BY <1>5, <1>6 DEF OutfitTypeOK, BuildStates, Picks
<1>8. OutfitWithinBudget
      BY DEF InitOutfit, OutfitWithinBudget
<1> QED  BY <1>4, <1>7, <1>8 DEF OutfitInv

\* A call that goes from b to d and keeps its total true keeps the invariant, if it
\* leaves what the turn shows alone.
LEMMA BuildStepInv ==
    ASSUME OutfitInv, NEW c \in Builds, NEW d \in BuildStates,
           build' = [build EXCEPT ![c] = d], UNCHANGED outfit,
           d.total = Cost(d.chosen),
           \A s \in 1..3 : s >= d.pc => d.chosen[s] = NoPick
    PROVE  OutfitInv'
<1>1. build' \in [Builds -> BuildStates]
      BY DEF OutfitInv, OutfitTypeOK, BuildStates, Picks
<1>2. OutfitTypeOK'
      BY <1>1 DEF OutfitInv, OutfitTypeOK, BuildStates, Picks
<1>3. TrueTotals'
  <2> SUFFICES ASSUME NEW e \in Builds
               PROVE  /\ build'[e].total = Cost(build'[e].chosen)
                      /\ \A s \in 1..3 : s >= build'[e].pc => build'[e].chosen[s] = NoPick
      BY DEF TrueTotals
  <2>1. build'[e] = IF e = c THEN d ELSE build[e]
        BY DEF OutfitInv, OutfitTypeOK
  <2> QED  BY <2>1 DEF OutfitInv, TrueTotals
<1>4. OutfitWithinBudget'
      BY DEF OutfitInv, OutfitWithinBudget
<1> QED  BY <1>2, <1>3, <1>4 DEF OutfitInv

\* Every step keeps the invariant.
LEMMA NextOutfitInv == OutfitInv /\ [NextOutfit]_outfitVars => OutfitInv'
<1> SUFFICES ASSUME OutfitInv, [NextOutfit]_outfitVars
             PROVE  OutfitInv'
    OBVIOUS
<1>1. \A c \in Builds :
         /\ build[c] \in BuildStates
         /\ build[c].total = Cost(build[c].chosen)
         /\ \A s \in 1..3 : s >= build[c].pc => build[c].chosen[s] = NoPick
      BY DEF OutfitInv, OutfitTypeOK, TrueTotals, BuildStates, Picks
<1>2. ASSUME NEW c \in Builds, CallBuild(c)
      PROVE  OutfitInv'
  <2>1. PICK v \in Budgets : build' = [build EXCEPT ![c].pc = 1, ![c].budget = v]
        BY <1>2 DEF CallBuild
  <2>2. v \in Int /\ build[c].pc = 0 /\ UNCHANGED outfit
        BY <1>2, OutfitAssumption DEF CallBuild
  <2> DEFINE d == [build[c] EXCEPT !.pc = 1, !.budget = v]
  <2>3. d \in BuildStates /\ d.total = build[c].total /\ d.chosen = build[c].chosen /\ d.pc = 1
    <3>1. /\ build[c] \in [pc : 0..5, budget : Int, total : Nat, chosen : Picks]
          /\ 1 \in 0..5 /\ build[c].total \in Nat /\ build[c].chosen \in Picks
          BY <1>1 DEF BuildStates
    <3> QED  BY <2>2, <3>1, FieldsReplaced DEF BuildStates
  <2>4. build' = [build EXCEPT ![c] = d]
        BY <2>1, <1>1 DEF OutfitInv, OutfitTypeOK, BuildStates
  <2>5. \A s \in 1..3 : s >= d.pc => d.chosen[s] = NoPick
        BY <1>1, <2>2, <2>3
  <2>6. d.total = Cost(d.chosen)
        BY <1>1, <2>3
  <2> HIDE DEF d
  <2> QED  BY <2>2, <2>3, <2>4, <2>5, <2>6, BuildStepInv
<1>3. ASSUME NEW c \in Builds, FillSlot(c)
      PROVE  OutfitInv'
  <2> DEFINE b == build[c]
  <2>1. b \in BuildStates /\ b.pc \in 1..3 /\ UNCHANGED outfit
        BY <1>1, <1>3 DEF FillSlot, Slots
  <2>2. CASE build' = [build EXCEPT ![c].pc = @ + 1]
    <3> DEFINE d == [b EXCEPT !.pc = b.pc + 1]
    <3>1. d \in BuildStates /\ d.total = b.total /\ d.chosen = b.chosen /\ d.pc = b.pc + 1
          BY <2>1 DEF BuildStates
    <3>2. build' = [build EXCEPT ![c] = d]
          BY <2>2
    <3>3. \A s \in 1..3 : s >= d.pc => d.chosen[s] = NoPick
          BY <1>1, <2>1, <3>1
    <3>4. d.total = Cost(d.chosen)
          BY <1>1, <3>1
    <3> HIDE DEF d
    <3> QED  BY <2>1, <3>1, <3>2, <3>3, <3>4, BuildStepInv
  <2>3. ASSUME NEW p \in Hits(b),
               build' = [build EXCEPT ![c] = [b EXCEPT !.pc = @ + 1, !.total = @ + p,
                                                        !.chosen[b.pc] = p]]
        PROVE  OutfitInv'
    <3> DEFINE ch == [b.chosen EXCEPT ![b.pc] = p]
               d  == [b EXCEPT !.pc = b.pc + 1, !.total = b.total + p, !.chosen = ch]
    <3>1. p \in Prices /\ p \in Nat
          BY OutfitAssumption DEF Hits
    <3>2. b.chosen \in Picks /\ b.total \in Nat /\ ch \in Picks
          BY <2>1, <3>1 DEF BuildStates, Picks
    <3>3. d \in BuildStates /\ d.total = b.total + p /\ d.chosen = ch /\ d.pc = b.pc + 1
      <4>1. /\ b \in [pc : 0..5, budget : Int, total : Nat, chosen : Picks]
            /\ b.pc + 1 \in 0..5 /\ b.total + p \in Nat /\ b.budget \in Int
            BY <2>1, <3>1, <3>2 DEF BuildStates
      <4> HIDE DEF b, ch
      <4> QED  BY <3>2, <4>1, FieldsReplaced DEF BuildStates
    <3>4. build' = [build EXCEPT ![c] = d]
          BY <2>3
    <3>5. b.chosen[b.pc] = NoPick /\ PriceOf(NoPick) = 0 /\ PriceOf(p) = p
          BY <1>1, <2>1, <3>1, OutfitAssumption DEF PriceOf
    <3>6. \A s \in 1..3 : ch[s] = IF s = b.pc THEN p ELSE b.chosen[s]
          BY <3>2 DEF Picks
    <3>7. \A s \in 1..3 : PriceOf(b.chosen[s]) \in Nat
          BY <3>2, PricesAreNumbers DEF Picks
    <3>8. \A s \in 1..3 : PriceOf(ch[s]) = IF s = b.pc THEN p ELSE PriceOf(b.chosen[s])
          BY <3>5, <3>6
    <3>9. Cost(ch) = Cost(b.chosen) + p
      <4>1. PriceOf(b.chosen[b.pc]) = 0
            BY <3>5
      <4> HIDE DEF b, ch
      <4> QED  BY <2>1, <3>1, <3>7, <3>8, <4>1 DEF Cost
    <3>10. d.total = Cost(d.chosen)
          BY <1>1, <3>3, <3>9
    <3>11. \A s \in 1..3 : s >= d.pc => d.chosen[s] = NoPick
          BY <1>1, <2>1, <3>3, <3>6
    <3> HIDE DEF d
    <3> QED  BY <2>1, <3>3, <3>4, <3>10, <3>11, BuildStepInv
  <2> QED  BY <1>3, <2>2, <2>3 DEF FillSlot
<1>4. ASSUME NEW c \in Builds, FinishOutfit(c)
      PROVE  OutfitInv'
  <2> DEFINE b == build[c]
             d == [b EXCEPT !.pc = 5]
  <2>1. b \in BuildStates /\ b.pc = 4 /\ build' = [build EXCEPT ![c].pc = 5]
        BY <1>1, <1>4 DEF FinishOutfit, Slots
  <2>2. d \in BuildStates /\ d.total = b.total /\ d.chosen = b.chosen /\ d.pc = 5
        BY <2>1 DEF BuildStates
  <2>3. build' = [build EXCEPT ![c] = d]
        BY <2>1
  <2>4. d.total = Cost(d.chosen)
        BY <1>1, <2>2
  <2>5. \A s \in 1..3 : s >= d.pc => d.chosen[s] = NoPick
        BY <2>2
  <2>6. CASE ~Within(b)
    <3>1. UNCHANGED outfit
          BY <1>4, <2>6 DEF FinishOutfit
    <3> HIDE DEF d
    <3> QED  BY <2>2, <2>3, <2>4, <2>5, <3>1, BuildStepInv
  <2>7. CASE Within(b)
    <3>1. outfit' = [total |-> b.total, budget |-> b.budget, slots |-> b.chosen]
          BY <1>4, <2>7 DEF FinishOutfit
    <3>2. outfit' \in [total : Nat, budget : Int, slots : Picks]
          BY <2>1, <3>1 DEF BuildStates
    <3>3. build' \in [Builds -> BuildStates]
          BY <2>2, <2>3 DEF OutfitInv, OutfitTypeOK, BuildStates, Picks
    <3>4. OutfitTypeOK'
          BY <3>2, <3>3 DEF OutfitTypeOK, BuildStates, Picks
    <3>5. TrueTotals'
      <4> SUFFICES ASSUME NEW e \in Builds
                   PROVE  /\ build'[e].total = Cost(build'[e].chosen)
                          /\ \A s \in 1..3 : s >= build'[e].pc => build'[e].chosen[s] = NoPick
          BY DEF TrueTotals
      <4>1. build'[e] = IF e = c THEN d ELSE build[e]
            BY <2>3 DEF OutfitInv, OutfitTypeOK
      <4> HIDE DEF d
      <4> QED  BY <1>1, <2>4, <2>5, <4>1
    <3>6. OutfitWithinBudget'
      <4>1. b.total = Cost(b.chosen)
            BY <1>1
      <4> HIDE DEF b
      <4> QED  BY <2>7, <3>1, <4>1 DEF Within, OutfitWithinBudget, Cost
    <3> QED  BY <3>4, <3>5, <3>6 DEF OutfitInv
  <2> QED  BY <2>6, <2>7
<1>5. CASE UNCHANGED outfitVars
      BY <1>5 DEF outfitVars, OutfitInv, OutfitTypeOK, TrueTotals, OutfitWithinBudget
<1> QED  BY <1>2, <1>3, <1>4, <1>5 DEF NextOutfit

\* Whatever the budget and the prices, and however many outfits are built at a time,
\* the outfit shown costs what its pieces cost and keeps within its budget.
THEOREM OutfitsKeepWithinBudget == SpecOutfit => []OutfitWithinBudget
<1>1. OutfitInv => OutfitWithinBudget
      BY DEF OutfitInv
<1> QED  BY <1>1, InitOutfitInv, NextOutfitInv, PTL DEF SpecOutfit

-----------------------------------------------------------------------------
(* The registry of shown products, for any bound of it, any number of calls *)
(* at a time and any conversation: a number names one product.  The reason  *)
(* is that the newest number is never lost, unless a call is about to give  *)
(* the next: dropping takes the oldest, trimming keeps the newest, and so   *)
(* what is restored goes on after every number that was told.               *)

\* What a registry may be.
Registries == [Refs -> Shown \cup {NoProduct}]

\* Nothing is under way between the turns.
Rests == phase # "runs" => told = {} /\ \A c \in Calls : call[c] = NoCall

\* A call that shows a product has one.
CallsShow == \A c \in Calls : call[c].pc # "idle" => call[c].product \in Shown

\* Of the calls that will give a number.
Numbering == {c \in Calls : call[c].pc = "numbers"}

\* A number below the next one is of a product or dropped, and the newest is there
\* unless a call is about to give the next.
Counts(r, next) == \A n \in Used(r) : n < next
Newest(r, next) == next = 1 \/ next - 1 \in Used(r)

\* What was told by a number is what the registry has by it, if it has it still.
Keeps(r, x) == r[x.ref] \in {x.product, NoProduct}

ToldBy ==
    phase = "runs" =>
        /\ Counts(registry, nextRef)
        /\ Numbering = {} => Newest(registry, nextRef)
        /\ \A x \in told \cup given : x.ref < nextRef /\ Keeps(registry, x)

SavedTells ==
    \A x \in given :
        /\ Keeps(saved.registry, x)
        /\ \E m \in Used(saved.registry) : x.ref <= m

Bounded == Size(registry) + Cardinality(Numbering) < MAX_REGISTRY + Cardinality(Calls)

OneProduct == \A x, y \in told \cup given : x.ref = y.ref => x.product = y.product

ShownInv ==
    /\ ShownTypeOK /\ Len(replies) <= MaxRef
    /\ Rests /\ CallsShow /\ ToldBy /\ SavedTells /\ Bounded /\ OneProduct
    /\ ~saved.some => given = {}

-----------------------------------------------------------------------------
\* The numbers of a registry are some of the first.
LEMMA UsedFacts ==
    ASSUME NEW r \in Registries
    PROVE  /\ Used(r) \subseteq 1..MaxRef /\ IsFiniteSet(Used(r)) /\ Size(r) \in Nat
           /\ Used(r) = {} <=> Size(r) = 0
           /\ Used(r) # {} => /\ Min(Used(r)) \in Used(r)
                              /\ Max(Used(r)) \in Used(r)
                              /\ \A n \in Used(r) : Min(Used(r)) <= n /\ n <= Max(Used(r))
<1>1. MaxRef \in Nat /\ Used(r) \subseteq 1..MaxRef
  BY ShownAssumption DEF Used, Refs
<1>2. IsFiniteSet(Used(r))
  <2>1. IsFiniteSet(1..MaxRef)
    BY <1>1, FS_Interval
  <2>2. QED
    BY <1>1, <2>1, FS_Subset
<1>3. Size(r) \in Nat /\ (Used(r) = {} <=> Size(r) = 0)
  BY <1>2, FS_CardinalityType, FS_EmptySet DEF Size
<1>4. QED
  BY <1>1, <1>2, <1>3, Least, Greatest

\* A registry loses a number.
LEMMA OneLess ==
    ASSUME NEW r \in Registries, NEW n \in Used(r)
    PROVE  /\ [r EXCEPT ![n] = NoProduct] \in Registries
           /\ Used([r EXCEPT ![n] = NoProduct]) = Used(r) \ {n}
           /\ Size([r EXCEPT ![n] = NoProduct]) = Size(r) - 1
<1> DEFINE q == [r EXCEPT ![n] = NoProduct]
<1>1. q \in Registries /\ n \in Refs
  BY DEF Registries, Used
<1>2. Used(q) = Used(r) \ {n}
  BY <1>1 DEF Used, Registries
<1>3. Size(q) = Size(r) - 1
  BY <1>2, UsedFacts, FS_RemoveElement DEF Size
<1>4. QED
  BY <1>1, <1>2, <1>3

\* It gets one.
LEMMA OneMore ==
    ASSUME NEW r \in Registries, NEW n \in Refs \ Used(r), NEW p \in Shown
    PROVE  /\ [r EXCEPT ![n] = p] \in Registries
           /\ Used([r EXCEPT ![n] = p]) = Used(r) \cup {n}
           /\ Size([r EXCEPT ![n] = p]) = Size(r) + 1
<1> DEFINE q == [r EXCEPT ![n] = p]
<1>1. q \in Registries
  BY DEF Registries
<1>2. Used(q) = Used(r) \cup {n}
  BY ShownAssumption DEF Used, Registries
<1>3. Size(q) = Size(r) + 1
  BY <1>2, UsedFacts, FS_AddElement DEF Size
<1>4. QED
  BY <1>1, <1>2, <1>3

\* A registry that is restored keeps its newest numbers, and no more than it may.
LEMMA TrimmedKeeps ==
    ASSUME NEW r \in Registries
    PROVE  /\ Trimmed(r) \in Registries
           /\ Size(Trimmed(r)) <= MAX_REGISTRY
           /\ \A n \in Refs : Trimmed(r)[n] \in {r[n], NoProduct}
           /\ Used(Trimmed(r)) \subseteq Used(r)
           /\ Used(r) # {} => Max(Used(r)) \in Used(Trimmed(r))
<1> DEFINE above(n) == {m \in Used(r) : m > n}
           q == Trimmed(r)
<1>0. MAX_REGISTRY \in Nat /\ MAX_REGISTRY > 0
  BY ShownAssumption
<1>1. \A n \in Refs :
          /\ Cardinality(above(n)) \in Nat /\ IsFiniteSet(above(n))
          /\ Cardinality(above(n)) >= MAX_REGISTRY => q[n] = NoProduct
          /\ Cardinality(above(n)) < MAX_REGISTRY => q[n] = r[n]
  BY <1>0, UsedFacts, FS_Subset, FS_CardinalityType DEF Trimmed
<1>2. q \in Registries /\ \A n \in Refs : q[n] \in {r[n], NoProduct}
  BY <1>0, <1>1 DEF Trimmed, Registries
<1> HIDE DEF q
<1>3. Used(q) \subseteq Used(r)
  BY <1>2 DEF Used
<1>4. ASSUME Used(r) # {} PROVE Max(Used(r)) \in Used(q)
  <2>1. Max(Used(r)) \in Used(r) /\ \A n \in Used(r) : n <= Max(Used(r)) /\ n \in Nat
    BY <1>4, UsedFacts
  <2>2. above(Max(Used(r))) = {}
    BY <2>1
  <2>3. Cardinality(above(Max(Used(r)))) = 0
    BY <2>2, FS_EmptySet
  <2>4. Max(Used(r)) \in Refs /\ r[Max(Used(r))] # NoProduct
    BY <2>1 DEF Used
  <2>5. QED
    BY <1>0, <1>1, <2>3, <2>4 DEF Used
<1>5. Size(q) <= MAX_REGISTRY
  <2>1. CASE Used(q) = {}
    BY <1>0, <2>1, FS_EmptySet DEF Size
  <2>2. CASE Used(q) # {}
    <3> DEFINE least == Min(Used(q))
    <3>1. /\ least \in Used(q) /\ IsFiniteSet(Used(q)) /\ Used(q) \subseteq 1..MaxRef
          /\ \A n \in Used(q) : least <= n
          /\ Size(q) \in Nat
      BY <1>2, <2>2, UsedFacts
    <3> HIDE DEF least
    <3>2. Used(q) \ {least} \subseteq above(least)
      BY <1>3, <3>1
    <3>3. Cardinality(above(least)) < MAX_REGISTRY
      <4>1. least \in Refs /\ q[least] # NoProduct
        BY <3>1 DEF Used
      <4>2. QED
        BY <1>0, <1>1, <4>1
    <3>4. Cardinality(Used(q) \ {least}) <= Cardinality(above(least))
      BY <3>1, <3>2, <1>1, FS_Subset DEF Used
    <3>5. Cardinality(Used(q) \ {least}) = Size(q) - 1
      BY <3>1, FS_RemoveElement DEF Size
    <3>6. QED
      BY <1>0, <1>1, <3>1, <3>3, <3>4, <3>5 DEF Used
  <2>3. QED
    BY <2>1, <2>2
<1>6. QED
  BY <1>2, <1>3, <1>4, <1>5 DEF q

-----------------------------------------------------------------------------
\* What is right for a registry and the number it goes on with.
Right(r, next) ==
    /\ r \in Registries /\ next \in Nat \ {0}
    /\ Size(r) <= MAX_REGISTRY
    /\ Counts(r, next) /\ Newest(r, next)

\* Seeding makes it so.
LEMMA SeedIsRight ==
    ASSUME NEW r \in Registries, Seed(r)
    PROVE  /\ Right(registry', nextRef') /\ nextRef' \in 1..MaxRef + 1
           /\ \A n \in Used(r) : n < nextRef'
           /\ \A n \in Refs : registry'[n] \in {r[n], NoProduct}
<1> DEFINE q == Trimmed(r)
<1>1. /\ q \in Registries /\ Size(q) <= MAX_REGISTRY
      /\ \A n \in Refs : q[n] \in {r[n], NoProduct}
      /\ Used(q) \subseteq Used(r)
      /\ Used(r) # {} => Max(Used(r)) \in Used(q)
  BY TrimmedKeeps
<1>2. registry' = q /\ nextRef' = After(q)
  BY DEF Seed
<1> HIDE DEF q
<1>3. MaxRef \in Nat
  BY ShownAssumption
<1>4. CASE Used(q) = {}
  <2>1. nextRef' = 1 /\ Used(r) = {}
    BY <1>1, <1>2, <1>4 DEF After
  <2>2. QED
    BY <1>1, <1>2, <1>3, <1>4, <2>1 DEF Right, Counts, Newest
<1>5. CASE Used(q) # {}
  <2>1. nextRef' = Max(Used(q)) + 1
    BY <1>2, <1>5 DEF After
  <2>2. /\ Max(Used(q)) \in Used(q) /\ Used(q) \subseteq 1..MaxRef
        /\ \A n \in Used(q) : n <= Max(Used(q))
    BY <1>1, <1>5, UsedFacts
  <2>3. /\ Used(r) \subseteq 1..MaxRef
        /\ Max(Used(r)) \in Used(q) /\ \A n \in Used(r) : n <= Max(Used(r))
    BY <1>1, <1>5, UsedFacts
  <2>4. Max(Used(q)) \in 1..MaxRef /\ Max(Used(r)) \in 1..MaxRef
        /\ Max(Used(r)) <= Max(Used(q))
    BY <2>2, <2>3
  <2>5. \A n \in Used(r) : n < nextRef'
    BY <2>1, <2>3, <2>4
  <2>6. Right(registry', nextRef')
    BY <1>1, <1>2, <2>1, <2>2, <2>4 DEF Right, Counts, Newest
  <2>7. QED
    BY <1>1, <1>2, <1>3, <2>1, <2>4, <2>5, <2>6
<1>6. QED
  BY <1>4, <1>5

\* Registering a product keeps it so.
LEMMA RegisteredIsRight ==
    ASSUME NEW m, Right(m.registry, m.next), NEW p \in Shown, m.next <= MaxRef
    PROVE  /\ Right(Registered(m, p).registry, Registered(m, p).next)
           /\ Registered(m, p).next <= m.next + 1
<1>0. MAX_REGISTRY \in Nat /\ MAX_REGISTRY > 0 /\ MaxRef \in Nat
  BY ShownAssumption
<1>1. CASE Where(m.registry, p) # {}
  BY <1>1 DEF Registered, Right
<1>2. CASE Where(m.registry, p) = {}
  <2> DEFINE r == m.registry
             d == Dropped(m.registry)
             n == m.next
  <2>1. r \in Registries /\ n \in Refs /\ Size(r) \in Nat /\ Size(r) <= MAX_REGISTRY
        /\ Counts(r, n)
    BY <1>0, UsedFacts DEF Right, Refs
  <2>2. /\ d \in Registries /\ Used(d) \subseteq Used(r) /\ Size(d) < MAX_REGISTRY
        /\ Size(d) \in Nat
    <3>1. CASE Size(r) < MAX_REGISTRY
      BY <2>1, <3>1 DEF Dropped
    <3>2. CASE Size(r) >= MAX_REGISTRY
      <4>1. Min(Used(r)) \in Used(r)
        BY <1>0, <2>1, <3>2, UsedFacts
      <4>2. d = [r EXCEPT ![Min(Used(r))] = NoProduct]
        BY <1>0, <2>1, <3>2 DEF Dropped
      <4> HIDE DEF d, r
      <4>3. d \in Registries /\ Used(d) = Used(r) \ {Min(Used(r))} /\ Size(d) = Size(r) - 1
        BY <2>1, <4>1, <4>2, OneLess
      <4>4. QED
        BY <1>0, <2>1, <4>3, UsedFacts
    <3>3. QED
      BY <1>0, <2>1, <3>1, <3>2
  <2>3. Registered(m, p) = [registry |-> [d EXCEPT ![n] = p], next |-> n + 1]
    BY <1>2 DEF Registered
  <2> DEFINE q == [d EXCEPT ![n] = p]
  <2> HIDE DEF r, d
  <2>4. n \notin Used(d)
    BY <2>1, <2>2 DEF Counts, Refs
  <2>5. q \in Registries /\ Used(q) = Used(d) \cup {n} /\ Size(q) = Size(d) + 1
    BY <2>1, <2>2, <2>4, OneMore
  <2>6. n \in Nat /\ n > 0
    BY <1>0, <2>1 DEF Refs
  <2>7. Counts(q, n + 1) /\ Newest(q, n + 1)
    <3> HIDE DEF q
    <3>1. Used(r) \subseteq 1..MaxRef /\ \A k \in Used(r) : k < n
      BY <2>1, UsedFacts DEF Counts
    <3> HIDE DEF n
    <3>2. \A k \in Used(q) : k < n + 1
      BY <2>2, <2>5, <2>6, <3>1, <1>0
    <3>3. (n + 1) - 1 = n
      BY <2>6
    <3>4. QED
      BY <2>5, <3>2, <3>3 DEF Counts, Newest
  <2>8. Right(q, n + 1)
    BY <1>0, <2>2, <2>5, <2>6, <2>7 DEF Right
  <2> HIDE DEF q
  <2>9. QED
    BY <2>3, <2>6, <2>8 DEF q
<1>3. QED
  BY <1>1, <1>2

\* So do all of the replies of a thread, in their order.
LEMMA ReplayedIsRight ==
    ASSUME replies \in Seq(Shown), Len(replies) <= MaxRef
    PROVE  Right(Replayed.registry, Replayed.next) /\ Replayed.next \in 1..MaxRef + 1
<1> DEFINE n == Len(replies)
           base == [registry |-> Nothing, next |-> 1]
           X == [registry : Registries, next : Nat]
           step == [i \in 1..n |-> [x \in X |-> Registered(x, replies[i])]]
           ByDef == CHOOSE h : h = [s \in SUBSET (DOMAIN replies) |->
                        IF s = {} THEN base
                        ELSE Registered(h[s \ {Max(s)}], replies[Max(s)])]
<1>0. /\ n \in Nat /\ DOMAIN replies = 1..n /\ \A i \in 1..n : replies[i] \in Shown
      /\ MaxRef \in Nat /\ n <= MaxRef
  BY ShownAssumption
<1>1. Replayed = ByDef[1..n]
  <2>1. Replayed = ByDef[DOMAIN replies]
    BY DEF Replayed, FoldLeft, MapThenFoldSet
  <2>2. QED
    BY <1>0, <2>1
<1> HIDE DEF n, base, X, step
<1>2. base \in X /\ Right(base.registry, base.next) /\ base.next = 1
  <2>1. Nothing \in Registries /\ Used(Nothing) = {}
    BY DEF Nothing, Registries, Used
  <2>2. Size(Nothing) = 0
    BY <2>1, FS_EmptySet DEF Size
  <2>3. QED
    BY <2>1, <2>2, ShownAssumption DEF base, X, Right, Counts, Newest
<1>3. \A i \in 1..n, x \in X : step[i][x] = Registered(x, replies[i])
  BY DEF step
<1>4. ASSUME NEW i \in 1..n, NEW x \in X PROVE step[i][x] \in X
  <2>1. /\ x.registry \in Registries /\ x.next \in Nat /\ replies[i] \in Shown
        /\ x = [registry |-> x.registry, next |-> x.next]
    BY <1>0 DEF X
  <2>2. Dropped(x.registry) \in Registries
    <3>1. \A k : [x.registry EXCEPT ![k] = NoProduct] \in Registries
      BY <2>1 DEF Registries
    <3>2. QED
      BY <2>1, <3>1 DEF Dropped
  <2>3. [Dropped(x.registry) EXCEPT ![x.next] = replies[i]] \in Registries
    BY <2>1, <2>2 DEF Registries
  <2>4. Registered(x, replies[i]) \in X
    BY <2>1, <2>3 DEF Registered, X
  <2>5. QED
    BY <1>3, <2>4
<1>5. PICK g : IsFold(g, 1..n, X, base, NumbersUpto(n), step)
  <2>1. HasFold(1..n, X, base, NumbersUpto(n), step)
    BY <1>0, <1>2, <1>4, NumbersFold
  <2>2. QED
    BY <2>1 DEF HasFold
<1>6. /\ g \in [SUBSET (1..n) -> X]
      /\ \A u \in SUBSET (1..n) : u # {} => Max(u) \in u
      /\ \A u \in SUBSET (1..n) :
             g[u] = IF u = {} THEN base ELSE Registered(g[u \ {Max(u)}], replies[Max(u)])
  <2>1. /\ g \in [SUBSET (1..n) -> X]
        /\ \A u \in SUBSET (1..n) :
               g[u] = IF u = {} THEN base ELSE step[Max(u)][g[u \ {Max(u)}]]
    BY <1>5 DEF IsFold, NumbersUpto
  <2>2. \A u \in SUBSET (1..n) : u # {} => Max(u) \in u
    BY <1>0, Greatest
  <2>3. ASSUME NEW u \in SUBSET (1..n), u # {}
        PROVE  step[Max(u)][g[u \ {Max(u)}]] = Registered(g[u \ {Max(u)}], replies[Max(u)])
    <3>1. Max(u) \in 1..n /\ u \ {Max(u)} \in SUBSET (1..n)
      BY <2>2, <2>3
    <3>2. g[u \ {Max(u)}] \in X
      BY <2>1, <3>1
    <3>3. QED
      BY <1>3, <3>1, <3>2
  <2>4. QED
    BY <2>1, <2>2, <2>3
<1> DEFINE h == ByDef
<1>7. /\ Replayed = h[1..n]
      /\ \A u \in SUBSET (1..n) :
             h[u] = IF u = {} THEN base ELSE Registered(h[u \ {Max(u)}], replies[Max(u)])
  <2>1. g = [s \in SUBSET (DOMAIN replies) |->
                 IF s = {} THEN base ELSE Registered(g[s \ {Max(s)}], replies[Max(s)])]
    <3>1. g = [s \in SUBSET (1..n) |-> g[s]]
      BY <1>6
    <3>2. QED
      BY <1>0, <1>6, <3>1
  <2>2. h = [s \in SUBSET (DOMAIN replies) |->
                 IF s = {} THEN base ELSE Registered(h[s \ {Max(s)}], replies[Max(s)])]
    BY <2>1
  <2> HIDE DEF h
  <2>3. QED
    BY <1>0, <1>1, <2>2 DEF h
<1> DEFINE S == {i \in 0..n : Right(h[1..i].registry, h[1..i].next) /\ h[1..i].next <= i + 1}
<1> HIDE DEF h
<1>8. 0 \in S
  <2>1. 1..0 = {} /\ {} \in SUBSET (1..n)
    OBVIOUS
  <2>2. h[1..0] = base
    BY <1>7, <2>1
  <2>3. QED
    BY <1>0, <1>2, <2>2
<1>9. ASSUME NEW i \in 1..n, i - 1 \in S PROVE i \in S
  <2>1. h[1..i] = Registered(h[1..(i - 1)], replies[i])
    <3>1. 1..i \in SUBSET (1..n) /\ 1..i # {} /\ Max(1..i) = i
          /\ (1..i) \ {Max(1..i)} = 1..(i - 1)
      BY <1>0, GreatestOfFirst
    <3>2. QED
      BY <1>7, <3>1
  <2> DEFINE x == h[1..(i - 1)]
  <2>2. Right(x.registry, x.next) /\ x.next <= (i - 1) + 1
    BY <1>9
  <2>3. x.next \in Nat /\ x.next <= i /\ x.next <= MaxRef
    BY <1>0, <2>2 DEF Right
  <2> HIDE DEF x
  <2>4. /\ Right(Registered(x, replies[i]).registry, Registered(x, replies[i]).next)
        /\ Registered(x, replies[i]).next <= x.next + 1
    BY <1>0, <2>2, <2>3, RegisteredIsRight
  <2>5. Registered(x, replies[i]).next \in Nat
    BY <2>4 DEF Right
  <2>6. QED
    BY <2>1, <2>3, <2>4, <2>5, <1>0 DEF x
<1>10. n \in S
  <2> HIDE DEF S
  <2>1. 0..n \subseteq S
    BY <1>0, <1>8, <1>9, Induction
  <2>2. QED
    BY <1>0, <2>1
<1>11. QED
  <2>1. Right(Replayed.registry, Replayed.next) /\ Replayed.next <= n + 1
    BY <1>7, <1>10
  <2>2. QED
    BY <1>0, <2>1 DEF Right

-----------------------------------------------------------------------------
\* How many calls will give a number.
LEMMA CallFacts ==
    /\ IsFiniteSet(Numbering) /\ Cardinality(Numbering) \in Nat
    /\ Cardinality(Numbering) <= Cardinality(Calls)
    /\ Cardinality(Calls) \in Nat \ {0}
    /\ \A c \in Calls : c \notin Numbering => Cardinality(Numbering) < Cardinality(Calls)
<1>1. IsFiniteSet(Calls) /\ Calls # {} /\ Numbering \in SUBSET Calls
  BY ShownAssumption DEF Numbering
<1>2. IsFiniteSet(Numbering) /\ Cardinality(Numbering) <= Cardinality(Calls)
      /\ (Cardinality(Calls) = Cardinality(Numbering) => Calls = Numbering)
  BY <1>1, FS_Subset
<1>3. Cardinality(Numbering) \in Nat /\ Cardinality(Calls) \in Nat /\ Cardinality(Calls) # 0
  BY <1>1, <1>2, FS_CardinalityType, FS_EmptySet
<1>4. QED
  BY <1>1, <1>2, <1>3

\* The invariant holds before the first turn.
LEMMA InitShownInv == InitShown => ShownInv
<1> SUFFICES ASSUME InitShown PROVE ShownInv
  OBVIOUS
<1>0. MAX_REGISTRY \in Nat \ {0} /\ MaxRef \in Nat /\ MaxTalks \in Nat
  BY ShownAssumption
<1>1. Nothing \in Registries /\ Used(Nothing) = {}
  BY DEF Nothing, Registries, Used
<1>2. ShownTypeOK /\ Len(replies) <= MaxRef
  BY <1>0, <1>1 DEF InitShown, ShownTypeOK, Registries, NoCall
<1>3. Size(registry) = 0
  BY <1>1, FS_EmptySet DEF Size, InitShown
<1>4. Numbering = {}
  BY DEF InitShown, Numbering, NoCall
<1>5. Bounded
  BY <1>0, <1>3, <1>4, CallFacts, FS_EmptySet DEF Bounded
<1>6. QED
  BY <1>2, <1>5 DEF InitShown, ShownInv, Rests, CallsShow, ToldBy, SavedTells, OneProduct, NoCall

\* A turn starts with a registry that is right.
LEMMA TalkStartKeeps ==
    ASSUME ShownInv, phase # "runs", phase' = "runs", talks < MaxTalks, talks' = talks + 1,
           UNCHANGED <<saved, replies, call, told, given>>,
           Right(registry', nextRef'), nextRef' \in 1..MaxRef + 1,
           \A x \in given : x.ref < nextRef' /\ Keeps(registry', x)
    PROVE  ShownInv'
<1>1. told = {} /\ (\A c \in Calls : call[c] = NoCall)
  BY DEF ShownInv, Rests
<1>2. ShownTypeOK'
  <2>1. talks + 1 \in 0..MaxTalks
    BY ShownAssumption DEF ShownInv, ShownTypeOK
  <2>2. QED
    BY <2>1 DEF ShownInv, ShownTypeOK, Right, Registries
<1>3. Rests' /\ CallsShow'
  BY <1>1 DEF Rests, CallsShow, NoCall
<1>4. ToldBy'
  BY <1>1 DEF ToldBy, Right
<1>5. Bounded'
  <2>1. Numbering' = {}
    BY <1>1 DEF Numbering, NoCall
  <2>2. Size(registry') \in Nat /\ Size(registry') <= MAX_REGISTRY
    BY UsedFacts DEF Right
  <2>3. Cardinality(Numbering') = 0
    BY <2>1, FS_EmptySet
  <2>4. Bounded' <=> Size(registry') + Cardinality(Numbering') < MAX_REGISTRY + Cardinality(Calls)
    BY DEF Bounded
  <2>5. QED
    BY <2>2, <2>3, <2>4, CallFacts, ShownAssumption
<1>6. QED
  BY <1>2, <1>3, <1>4, <1>5 DEF ShownInv, SavedTells, OneProduct

\* It is restored from what was saved, or from the results of the thread.
LEMMA StartTalkKeeps == ShownInv /\ (StartTalk \/ ResumeTalk) => ShownInv'
<1> SUFFICES ASSUME ShownInv, StartTalk \/ ResumeTalk PROVE ShownInv'
  OBVIOUS
<1>0. /\ phase # "runs" /\ phase' = "runs" /\ talks < MaxTalks /\ talks' = talks + 1
      /\ UNCHANGED <<saved, replies, call, told, given>>
      /\ saved.registry \in Registries
  BY DEF StartTalk, ResumeTalk, ShownInv, ShownTypeOK, Registries
<1>1. CASE Seed(saved.registry)
  <2>1. /\ Right(registry', nextRef') /\ nextRef' \in 1..MaxRef + 1
        /\ \A n \in Used(saved.registry) : n < nextRef'
        /\ \A n \in Refs : registry'[n] \in {saved.registry[n], NoProduct}
    BY <1>0, <1>1, SeedIsRight
  <2>2. ASSUME NEW x \in given PROVE x.ref < nextRef' /\ Keeps(registry', x)
    <3>1. x.ref \in Refs /\ Keeps(saved.registry, x)
      BY DEF ShownInv, ShownTypeOK, SavedTells
    <3>2. PICK m \in Used(saved.registry) : x.ref <= m
      BY DEF ShownInv, SavedTells
    <3>3. m \in Nat /\ x.ref \in Nat /\ m < nextRef' /\ nextRef' \in Nat
      BY <2>1, <3>1, ShownAssumption DEF Used, Refs
    <3>4. QED
      BY <2>1, <3>1, <3>2, <3>3 DEF Keeps
  <2>3. QED
    BY <1>0, <2>1, <2>2, TalkStartKeeps
<1>2. CASE ~saved.some /\ registry' = Replayed.registry /\ nextRef' = Replayed.next
  <2>1. Right(registry', nextRef') /\ nextRef' \in 1..MaxRef + 1
    BY <1>2, ReplayedIsRight DEF ShownInv, ShownTypeOK
  <2>2. given = {}
    BY <1>2 DEF ShownInv
  <2>3. QED
    BY <1>0, <2>1, <2>2, TalkStartKeeps
<1>3. QED
  BY <1>1, <1>2 DEF StartTalk, ResumeTalk

\* A call that shows a product of which the registry has a number.
LEMMA ShowAgainKeeps ==
    ASSUME ShownInv, NEW c \in Calls, NEW p \in Shown, ShowAgain(c, p)
    PROVE  ShownInv'
<1> PICK n \in Where(registry, p) : ToldOf(c, p, n)
  BY DEF ShowAgain
<1>0. /\ phase = "runs" /\ call[c].pc = "idle"
      /\ UNCHANGED <<registry, nextRef, saved, replies, phase, talks, given>>
      /\ n \in Refs /\ registry[n] = p /\ n \in Used(registry) /\ p # NoProduct
  BY ShownAssumption DEF ShowAgain, Where, Used
<1> DEFINE z == [ref |-> n, product |-> p]
<1>1. told' = told \cup {z} /\ call' = [call EXCEPT ![c] = [pc |-> "told", product |-> p]]
  BY DEF ToldOf
<1>2. call'[c] = [pc |-> "told", product |-> p] /\ \A d \in Calls \ {c} : call'[d] = call[d]
  BY <1>1 DEF ShownInv, ShownTypeOK
<1>3. ShownTypeOK'
  BY <1>0, <1>1 DEF ShownInv, ShownTypeOK
<1>4. Rests' /\ CallsShow' /\ SavedTells'
  BY <1>0, <1>2 DEF ShownInv, Rests, CallsShow, SavedTells
<1>5. Numbering' = Numbering
  BY <1>0, <1>2 DEF Numbering
<1>6. ToldBy' /\ Bounded'
  BY <1>0, <1>1, <1>5 DEF ShownInv, ToldBy, Counts, Keeps, Bounded
<1>7. OneProduct'
  <2>1. \A x \in told \cup given : x.ref = n => x.product = p
    BY <1>0 DEF ShownInv, ToldBy, Keeps
  <2>2. QED
    BY <1>0, <1>1, <2>1 DEF ShownInv, OneProduct
<1>8. QED
  BY <1>0, <1>3, <1>4, <1>6, <1>7 DEF ShownInv

\* A call that is about to show another.
LEMMA ShowNewKeeps ==
    ASSUME ShownInv, NEW c \in Calls, NEW p \in Shown, ShowNew(c, p)
    PROVE  ShownInv'
<1> PICK pc \in {"drops", "numbers"} :
        /\ call' = [call EXCEPT ![c] = [pc |-> pc, product |-> p]]
        /\ pc = "numbers" => ~(Size(registry) >= MAX_REGISTRY)
  BY DEF ShowNew
<1>0. /\ phase = "runs" /\ call[c].pc = "idle"
      /\ UNCHANGED <<registry, nextRef, saved, replies, phase, talks, told, given>>
  BY DEF ShowNew
<1>2. call'[c] = [pc |-> pc, product |-> p] /\ \A d \in Calls \ {c} : call'[d] = call[d]
  BY DEF ShownInv, ShownTypeOK
<1>3. ShownTypeOK'
  BY <1>0 DEF ShownInv, ShownTypeOK
<1>4. Rests' /\ CallsShow' /\ SavedTells' /\ OneProduct'
  BY <1>0, <1>2 DEF ShownInv, Rests, CallsShow, SavedTells, OneProduct
<1>5. Numbering' = IF pc = "numbers" THEN Numbering \cup {c} ELSE Numbering
  <2>1. c \notin Numbering /\ (c \in Numbering' <=> pc = "numbers")
    BY <1>0, <1>2 DEF Numbering
  <2>2. \A d \in Calls \ {c} : d \in Numbering' <=> d \in Numbering
    BY <1>2 DEF Numbering
  <2>3. Numbering \subseteq Calls /\ Numbering' \subseteq Calls
    BY DEF Numbering
  <2>4. QED
    BY <2>1, <2>2, <2>3
<1>6. ToldBy'
  BY <1>0, <1>5 DEF ShownInv, ToldBy, Counts, Newest, Keeps
<1>7. Bounded'
  <2>0. Size(registry) \in Nat /\ MAX_REGISTRY \in Nat
    BY UsedFacts, ShownAssumption DEF ShownInv, ShownTypeOK, Registries
  <2>1. CASE pc = "numbers"
    <3>1. c \notin Numbering
      BY <1>0 DEF Numbering
    <3>2. Cardinality(Numbering') = Cardinality(Numbering) + 1
      BY <1>5, <2>1, <3>1, CallFacts, FS_AddElement
    <3>3. Cardinality(Numbering) < Cardinality(Calls)
      BY <3>1, CallFacts
    <3>4. QED
      BY <1>0, <2>0, <2>1, <3>2, <3>3, CallFacts DEF Bounded
  <2>2. CASE pc # "numbers"
    BY <1>0, <1>5, <2>2 DEF Bounded, ShownInv
  <2>3. QED
    BY <2>1, <2>2
<1>8. QED
  BY <1>0, <1>3, <1>4, <1>6, <1>7 DEF ShownInv

\* The oldest number goes, and the call that took its place gives the next.
LEMMA DropOldestKeeps ==
    ASSUME ShownInv, NEW c \in Calls, DropOldest(c)
    PROVE  ShownInv'
<1> DEFINE n == Min(Used(registry))
<1>0. /\ call[c].pc = "drops" /\ Used(registry) # {}
      /\ registry' = [registry EXCEPT ![n] = NoProduct]
      /\ call' = [call EXCEPT ![c].pc = "numbers"]
      /\ UNCHANGED <<nextRef, saved, replies, phase, talks, told, given>>
      /\ registry \in Registries
  BY DEF DropOldest, ShownInv, ShownTypeOK, Registries
<1>1. n \in Used(registry)
  BY <1>0, UsedFacts
<1> HIDE DEF n
<1>2. /\ registry' \in Registries /\ Used(registry') = Used(registry) \ {n}
      /\ Size(registry') = Size(registry) - 1
  BY <1>0, <1>1, OneLess
<1>3. /\ call'[c].pc = "numbers" /\ call'[c].product = call[c].product
      /\ \A d \in Calls \ {c} : call'[d] = call[d]
      /\ call' \in [Calls -> [pc : {"idle", "drops", "numbers", "told"},
                              product : Shown \cup {NoProduct}]]
  BY <1>0 DEF ShownInv, ShownTypeOK
<1>4. ShownTypeOK'
  BY <1>0, <1>2, <1>3 DEF ShownInv, ShownTypeOK, Registries
<1>5. phase = "runs"
  BY <1>0 DEF ShownInv, Rests, NoCall
<1>6. Rests' /\ CallsShow' /\ SavedTells' /\ OneProduct'
  BY <1>0, <1>3, <1>5 DEF ShownInv, Rests, CallsShow, SavedTells, OneProduct
<1>7. c \notin Numbering /\ Numbering' = Numbering \cup {c}
  <2>1. c \notin Numbering /\ c \in Numbering'
    BY <1>0, <1>3 DEF Numbering
  <2>2. \A d \in Calls \ {c} : d \in Numbering' <=> d \in Numbering
    BY <1>3 DEF Numbering
  <2>3. Numbering \subseteq Calls /\ Numbering' \subseteq Calls
    BY DEF Numbering
  <2>4. QED
    BY <2>1, <2>2, <2>3
<1>8. ToldBy'
  <2>1. \A k \in Refs : registry'[k] \in {registry[k], NoProduct}
    BY <1>0 DEF Registries
  <2>2. \A x \in told \cup given : x.ref \in Refs
    BY DEF ShownInv, ShownTypeOK
  <2>3. QED
    BY <1>0, <1>2, <1>5, <1>7, <2>1, <2>2 DEF ShownInv, ToldBy, Counts, Keeps
<1>9. Bounded'
  <2>1. Size(registry) \in Nat
    BY <1>0, UsedFacts
  <2>2. Cardinality(Numbering') = Cardinality(Numbering) + 1
    BY <1>7, CallFacts, FS_AddElement
  <2>3. QED
    BY <1>2, <2>1, <2>2, CallFacts, ShownAssumption DEF ShownInv, Bounded
<1>10. QED
  BY <1>0, <1>4, <1>6, <1>8, <1>9 DEF ShownInv

\* A call gives a number nobody was told.
LEMMA GiveNumberKeeps ==
    ASSUME ShownInv, NEW c \in Calls, GiveNumber(c)
    PROVE  ShownInv'
<1> DEFINE p == call[c].product
           z == [ref |-> nextRef, product |-> p]
<1>0. /\ call[c].pc = "numbers" /\ nextRef \in Refs /\ nextRef' = nextRef + 1
      /\ registry' = [registry EXCEPT ![nextRef] = p]
      /\ told' = told \cup {z}
      /\ call' = [call EXCEPT ![c] = [pc |-> "told", product |-> p]]
      /\ UNCHANGED <<saved, replies, phase, talks, given>>
      /\ registry \in Registries
  BY ShownAssumption DEF GiveNumber, ToldOf, ShownInv, ShownTypeOK, Registries, Refs
<1>1. phase = "runs" /\ p \in Shown /\ p # NoProduct
  BY <1>0, ShownAssumption DEF ShownInv, Rests, NoCall, CallsShow
<1> HIDE DEF p
<1>2. nextRef \in Nat /\ nextRef \notin Used(registry)
  BY <1>0, <1>1, ShownAssumption DEF ShownInv, ToldBy, Counts, Refs
<1>3. /\ registry' \in Registries /\ Used(registry') = Used(registry) \cup {nextRef}
      /\ Size(registry') = Size(registry) + 1
  BY <1>0, <1>1, <1>2, OneMore
<1>4. /\ call'[c] = [pc |-> "told", product |-> p]
      /\ \A d \in Calls \ {c} : call'[d] = call[d]
  BY <1>0 DEF ShownInv, ShownTypeOK
<1>5. ShownTypeOK'
  <2>1. nextRef' \in 1..MaxRef + 1
    BY <1>0, ShownAssumption DEF Refs
  <2>2. QED
    BY <1>0, <1>1, <1>3, <2>1 DEF ShownInv, ShownTypeOK, Registries
<1>6. Rests' /\ CallsShow' /\ SavedTells'
  BY <1>0, <1>1, <1>4 DEF ShownInv, Rests, CallsShow, SavedTells
<1>7. c \in Numbering /\ Numbering' = Numbering \ {c}
  <2>1. c \in Numbering /\ c \notin Numbering'
    BY <1>0, <1>4 DEF Numbering
  <2>2. \A d \in Calls \ {c} : d \in Numbering' <=> d \in Numbering
    BY <1>4 DEF Numbering
  <2>3. Numbering \subseteq Calls /\ Numbering' \subseteq Calls
    BY DEF Numbering
  <2>4. QED
    BY <2>1, <2>2, <2>3
<1>8. \A x \in told \cup given :
          x.ref \in Refs /\ x.ref < nextRef /\ x.ref # nextRef /\ Keeps(registry, x)
  BY <1>1, <1>2, ShownAssumption DEF ShownInv, ShownTypeOK, ToldBy, Refs
<1>9. ToldBy'
  <2>1. Counts(registry', nextRef') /\ Newest(registry', nextRef')
    <3>1. Used(registry) \subseteq 1..MaxRef /\ \A k \in Used(registry) : k < nextRef
      BY <1>0, <1>1, UsedFacts DEF ShownInv, ToldBy, Counts
    <3>2. ASSUME NEW k \in Used(registry') PROVE k < nextRef'
      <4>1. nextRef' = nextRef + 1 /\ nextRef \in Nat
        BY <1>0, <1>2
      <4>2. CASE k = nextRef
        BY <4>1, <4>2
      <4>3. CASE k \in Used(registry)
        <5>1. k \in Nat /\ k < nextRef
          BY <3>1, <4>3, ShownAssumption
        <5>2. QED
          BY <4>1, <5>1
      <4>4. QED
        BY <1>3, <3>2, <4>2, <4>3
    <3>3. nextRef' - 1 = nextRef
      BY <1>0, <1>2
    <3>4. QED
      BY <1>3, <3>2, <3>3 DEF Counts, Newest
  <2>2. \A x \in told \cup given : x.ref < nextRef' /\ Keeps(registry', x)
    BY <1>0, <1>2, <1>8, ShownAssumption DEF Keeps, Registries, Refs
  <2>3. z.ref < nextRef' /\ Keeps(registry', z)
    BY <1>0, <1>2 DEF Keeps, Registries
  <2>4. QED
    BY <1>0, <2>1, <2>2, <2>3 DEF ToldBy
<1>10. Bounded'
  <2>1. Size(registry) \in Nat
    BY <1>0, UsedFacts
  <2>2. Cardinality(Numbering') = Cardinality(Numbering) - 1
    BY <1>7, CallFacts, FS_RemoveElement
  <2>3. QED
    BY <1>3, <2>1, <2>2, CallFacts, ShownAssumption DEF ShownInv, Bounded
<1>11. OneProduct'
  BY <1>0, <1>8 DEF ShownInv, OneProduct
<1>12. QED
  BY <1>0, <1>5, <1>6, <1>9, <1>10, <1>11 DEF ShownInv

\* When all calls are answered, none gives a number.
LEMMA QuietNumbering ==
    ASSUME \A c \in Calls : call[c] = NoCall
    PROVE  Numbering = {} /\ Cardinality(Numbering) = 0
<1>1. Numbering = {}
  BY DEF Numbering, NoCall
<1>2. QED
  BY <1>1, FS_EmptySet

\* The results of the calls are saved.
LEMMA ToolsAnswerKeeps == ShownInv /\ ToolsAnswer => ShownInv'
<1> SUFFICES ASSUME ShownInv, ToolsAnswer PROVE ShownInv'
  OBVIOUS
<1> DEFINE answered == {c \in Calls : call[c].pc = "told"}
<1>0. /\ phase = "runs" /\ Quiet /\ Len(replies') <= MaxRef
      /\ call' = [c \in Calls |-> NoCall]
      /\ UNCHANGED <<registry, nextRef, saved, phase, talks, told, given>>
  BY DEF ToolsAnswer
<1>1. replies' \in Seq(Shown)
  <2>1. PICK order \in [1..Cardinality(answered) -> answered] :
            replies' = IF saved.some THEN <<>>
                       ELSE replies \o [i \in DOMAIN order |-> call[order[i]].product]
    BY DEF ToolsAnswer
  <2>2. Cardinality(answered) \in Nat
    BY ShownAssumption, FS_Subset, FS_CardinalityType
  <2>3. \A c \in answered : call[c].product \in Shown
    BY DEF ShownInv, CallsShow
  <2> DEFINE more == [i \in DOMAIN order |-> call[order[i]].product]
  <2>4. more \in Seq(Shown)
    <3> HIDE DEF answered
    <3>1. DOMAIN order = 1..Cardinality(answered)
      BY <2>1
    <3>2. \A i \in 1..Cardinality(answered) : call[order[i]].product \in Shown
      BY <2>1, <2>3
    <3>3. more \in [1..Cardinality(answered) -> Shown]
      BY <3>1, <3>2
    <3>4. QED
      BY <2>2, <3>3
  <2>5. replies \in Seq(Shown)
    BY DEF ShownInv, ShownTypeOK
  <2>6. replies' = IF saved.some THEN <<>> ELSE replies \o more
    BY <2>1
  <2> HIDE DEF more
  <2>7. replies \o more \in Seq(Shown) /\ <<>> \in Seq(Shown)
    BY <2>4, <2>5
  <2>8. QED
    BY <2>6, <2>7
<1>2. ShownTypeOK'
  BY <1>0, <1>1 DEF ShownInv, ShownTypeOK, NoCall
<1>3. \A c \in Calls : call'[c] = NoCall
  BY <1>0
<1>4. Numbering = {} /\ Cardinality(Numbering) = 0
  <2>1. Numbering = {}
    BY <1>0 DEF Quiet, Numbering
  <2>2. QED
    BY <2>1, FS_EmptySet
<1>5. Numbering' = {} /\ Cardinality(Numbering') = 0
  BY <1>3, FS_EmptySet DEF Numbering, NoCall
<1>6. ToldBy' /\ Bounded'
  BY <1>0, <1>4, <1>5 DEF ShownInv, ToldBy, Bounded, Counts, Newest, Keeps
<1>7. QED
  BY <1>0, <1>2, <1>3, <1>6
     DEF ShownInv, Rests, CallsShow, SavedTells, OneProduct, NoCall

\* A turn saves its numbers: the newest of them is there.
LEMMA SaveShownKeeps ==
    ASSUME ShownInv, NEW to \in {"paused", "between"}, SaveShown(to)
    PROVE  ShownInv'
<1>0. /\ phase = "runs" /\ phase' = to /\ (\A c \in Calls : call[c] = NoCall)
      /\ saved' = [some |-> TRUE, registry |-> registry] /\ replies' = <<>>
      /\ given' = given \cup told /\ told' = {}
      /\ UNCHANGED <<registry, nextRef, call, talks>>
  BY DEF SaveShown
<1>1. ShownTypeOK' /\ Len(replies') <= MaxRef
  BY <1>0, ShownAssumption DEF ShownInv, ShownTypeOK
<1>2. Rests' /\ CallsShow' /\ ToldBy' /\ OneProduct'
  BY <1>0 DEF ShownInv, Rests, CallsShow, ToldBy, OneProduct
<1>3. Bounded'
  BY <1>0 DEF ShownInv, Bounded, Numbering
<1>4. SavedTells'
  <2>1. Newest(registry, nextRef)
    BY <1>0, QuietNumbering DEF ShownInv, ToldBy
  <2>2. ASSUME NEW x \in told \cup given
        PROVE  /\ Keeps(registry, x)
               /\ \E m \in Used(registry) : x.ref <= m
    <3>1. /\ Keeps(registry, x) /\ x.ref < nextRef /\ x.ref \in 1..MaxRef
          /\ nextRef \in 1..MaxRef + 1
      BY <1>0 DEF ShownInv, ToldBy, ShownTypeOK, Refs
    <3>2. nextRef # 1 /\ x.ref <= nextRef - 1
      BY <3>1, ShownAssumption
    <3>3. QED
      BY <2>1, <3>1, <3>2 DEF Newest
  <2>3. QED
    BY <1>0, <2>2 DEF SavedTells
<1>5. QED
  BY <1>0, <1>1, <1>2, <1>3, <1>4 DEF ShownInv

\* A turn fails: what it told is forgotten.
LEMMA FailTalkKeeps == ShownInv /\ FailTalk => ShownInv'
<1> SUFFICES ASSUME ShownInv, FailTalk PROVE ShownInv'
  OBVIOUS
<1>0. /\ phase' = "between" /\ (\A c \in Calls : call'[c] = NoCall) /\ told' = {}
      /\ call' = [c \in Calls |-> NoCall]
      /\ UNCHANGED <<registry, nextRef, saved, replies, talks, given>>
  BY DEF FailTalk
<1>1. ShownTypeOK'
  BY <1>0 DEF ShownInv, ShownTypeOK, NoCall
<1>2. Rests' /\ CallsShow' /\ ToldBy' /\ OneProduct' /\ SavedTells'
  BY <1>0 DEF ShownInv, Rests, CallsShow, ToldBy, OneProduct, SavedTells, NoCall
<1>3. Bounded'
  <2>1. Numbering' = {}
    BY <1>0 DEF Numbering, NoCall
  <2>2. Cardinality(Numbering') = 0
    BY <2>1, FS_EmptySet
  <2>3. Size(registry) \in Nat
    BY UsedFacts DEF ShownInv, ShownTypeOK, Registries
  <2>4. Bounded' <=> Size(registry) + Cardinality(Numbering') < MAX_REGISTRY + Cardinality(Calls)
    BY <1>0 DEF Bounded
  <2>5. QED
    BY <2>2, <2>3, <2>4, CallFacts, ShownAssumption DEF ShownInv, Bounded
<1>4. QED
  BY <1>0, <1>1, <1>2, <1>3 DEF ShownInv

\* Every step keeps the invariant.
LEMMA NextShownInv == ShownInv /\ [NextShown]_shownVars => ShownInv'
<1> SUFFICES ASSUME ShownInv, [NextShown]_shownVars PROVE ShownInv'
  OBVIOUS
<1>1. CASE UNCHANGED shownVars
  BY <1>1 DEF shownVars, ShownInv, ShownTypeOK, Rests, CallsShow, ToldBy, SavedTells, Bounded,
              OneProduct, Numbering
<1>2. ASSUME NEW c \in Calls, NEW p \in Shown, ShowAgain(c, p) \/ ShowNew(c, p)
      PROVE  ShownInv'
  BY <1>2, ShowAgainKeeps, ShowNewKeeps
<1>3. ASSUME NEW c \in Calls, DropOldest(c) \/ GiveNumber(c) PROVE ShownInv'
  BY <1>3, DropOldestKeeps, GiveNumberKeeps
<1>4. CASE PauseTalk \/ EndTalk
  BY <1>4, SaveShownKeeps DEF PauseTalk, EndTalk
<1>5. QED
  BY <1>1, <1>2, <1>3, <1>4, StartTalkKeeps, ToolsAnswerKeeps, FailTalkKeeps DEF NextShown

\* For any calls of a message, any bound of the registry and any conversation: a number
\* that a turn the shopper got an answer of used names one product for good.
THEOREM NumbersNameOneProduct == SpecShown => []RefsKeepTheirNumbers
<1>1. ShownInv => RefsKeepTheirNumbers
  <2> SUFFICES ASSUME ShownInv PROVE RefsKeepTheirNumbers
    OBVIOUS
  <2>1. Size(registry) \in Nat
    BY UsedFacts DEF ShownInv, ShownTypeOK, Registries
  <2>2. QED
    BY <2>1, CallFacts, ShownAssumption DEF ShownInv, Bounded, OneProduct, RefsKeepTheirNumbers
<1>2. QED
  BY <1>1, InitShownInv, NextShownInv, PTL DEF SpecShown

-----------------------------------------------------------------------------
(* The traffic simulator, for any number of runs of it beside each other:   *)
(* the shop has the orders of one simulation.  The reason is that an insert *)
(* waits for what its unique tokens may collide with, and so finds them     *)
(* gone or fails; and that a run that only counted deletes nothing, so it   *)
(* commits to empty tables.                                                 *)

\* Runs that are all the same one.
AtMostOne(S) == \A a, b \in S : a = b

\* What the runs keep, as far as it does not depend on the journey.
WriterShape ==
    [pc : {"new", "deletes", "waits", "inserts", "inserted", "ended"},
     reset : BOOLEAN, at : 1..5, found : SUBSET ({0} \cup Runs),
     deleted : [TableSet -> SUBSET ({0} \cup Runs)]]

\* What all of them keep; a run that deletes is at one of the four tables.
WriterShapes ==
    /\ writer \in [Runs -> WriterShape]
    /\ stored \in [TableSet -> SUBSET ({0} \cup Runs)]
    /\ crossed \in BOOLEAN
    /\ \A w \in Runs : writer[w].pc \in {"deletes", "waits"} => writer[w].at <= 4

\* Nobody writes before the journey is valid, and until then the tables hold what
\* an earlier run stored.
NotYet ==
    /\ journey.pc # "valid" => \A w \in Runs : writer[w].pc = "new"
    /\ (\A w \in Runs : writer[w].pc = "new") =>
           /\ \A t \in TableSet : AtMostOne(stored[t])
           /\ stored["orders"] = {} => \A t \in TableSet : stored[t] = {}

\* One run at a time has inserted orders, and its commit leaves no others.
OrdersOfOne ==
    /\ AtMostOne(stored["orders"])
    /\ stored["orders"] = {} => \A t \in TableSet : stored[t] = {}
    /\ \A w \in Runs : writer[w].pc = "inserted" => Taken(w) = {}
    /\ \A v, w \in Runs :
          writer[v].pc = "inserted" /\ writer[w].pc = "inserted" => v = w

\* A run that resets and crosses no other has found all there is.
ResetsAlone(w) ==
    Writing(w) /\ writer[w].reset =>
        /\ \A v \in Runs : Writing(v) => v = w
        /\ writer[w].pc = "waits" => writer[w].found = stored[Tables[writer[w].at]]
        /\ \A n \in 1..4 : n < writer[w].at =>
               writer[w].deleted[Tables[n]] = stored[Tables[n]]
        /\ writer[w].pc \in {"inserts", "inserted"} => writer[w].at = 5

\* One that only counted deletes nothing.
CountsOnly(w) ==
    /\ writer[w].pc = "new" => writer[w].at = 1 /\ ~writer[w].reset
    /\ writer[w].pc \in {"deletes", "waits"} => writer[w].reset
    /\ ~writer[w].reset => \A t \in TableSet : writer[w].deleted[t] = {}

\* What holds of all tables as long as no run that resets crossed another.
Uncrossed ==
    /\ \A t \in TableSet : AtMostOne(stored[t])
    /\ \A w \in Runs : ResetsAlone(w)

\* The inductive invariant.
SimulationInv ==
    /\ WriterShapes
    /\ NotYet
    /\ \A w \in Runs : CountsOnly(w)
    /\ HasRows("orders") => OrdersOfOne /\ (~crossed => Uncrossed)

\* The tables are four different ones, in their order.
LEMMA TableFacts ==
    /\ Tables \in [1..4 -> {"feedback", "turns", "events", "orders"}]
    /\ TableSet = {"feedback", "turns", "events", "orders"}
    /\ TableSet = {Tables[n] : n \in 1..4}
    /\ Len(Tables) = 4
    /\ \A m, n \in 1..4 : Tables[m] = Tables[n] => m = n
<1>1. /\ DOMAIN Tables = 1..4 /\ Len(Tables) = 4
      /\ Tables[1] = "feedback" /\ Tables[2] = "turns"
      /\ Tables[3] = "events" /\ Tables[4] = "orders"
  BY DEF Tables
<1>2. \A n \in 1..4 : n = 1 \/ n = 2 \/ n = 3 \/ n = 4
  OBVIOUS
<1>3. TableSet = {Tables[n] : n \in 1..4}
  BY <1>1 DEF TableSet, ToSet
<1>4. TableSet = {"feedback", "turns", "events", "orders"}
  <2>1. \A t : t \in TableSet <=> t \in {"feedback", "turns", "events", "orders"}
    BY <1>1, <1>2, <1>3
  <2>2. QED
    BY <2>1
<1>5. Tables \in [1..4 -> {"feedback", "turns", "events", "orders"}]
  BY <1>1, <1>2 DEF Tables
<1>6. QED
  BY <1>1, <1>2, <1>3, <1>4, <1>5

\* The invariant holds before a run starts.
LEMMA InitSimulation == InitTraffic => SimulationInv
<1> SUFFICES ASSUME InitTraffic PROVE SimulationInv
  OBVIOUS
<1> DEFINE W0 == [pc |-> "new", reset |-> FALSE, at |-> 1,
                  found |-> {}, deleted |-> [t \in TableSet |-> {}]]
<1>1. \A w \in Runs : writer[w] = W0
  BY DEF InitTraffic
<1>2. /\ stored \in [TableSet -> SUBSET ({0} \cup Runs)]
      /\ \A t \in TableSet : AtMostOne(stored[t])
      /\ stored["orders"] = {} => \A t \in TableSet : stored[t] = {}
  BY TableFacts DEF InitTraffic, AtMostOne
<1>3. WriterShapes
  <2>1. W0 \in WriterShape
    BY DEF WriterShape
  <2>2. QED
    BY <1>1, <1>2, <2>1 DEF InitTraffic, WriterShapes
<1>4. NotYet
  BY <1>1, <1>2 DEF NotYet
<1>5. \A w \in Runs : CountsOnly(w)
  BY <1>1 DEF CountsOnly
<1>6. OrdersOfOne /\ Uncrossed
  BY <1>1, <1>2, TableFacts DEF OrdersOfOne, Uncrossed, ResetsAlone, Writing
<1>7. QED
  BY <1>3, <1>4, <1>5, <1>6 DEF SimulationInv

\* The simulation is drawn and checked before anybody writes it.
LEMMA DrawingKeeps ==
    ASSUME SimulationInv, journey.pc # "valid", UNCHANGED <<writer, stored, crossed>>
    PROVE  SimulationInv'
<1>1. \A w \in Runs : writer[w].pc = "new"
  BY DEF SimulationInv, NotYet
<1>2. WriterShapes'
  BY DEF SimulationInv, WriterShapes
<1>3. NotYet'
  BY <1>1 DEF SimulationInv, NotYet
<1>4. \A w \in Runs : CountsOnly(w)'
  BY DEF SimulationInv, CountsOnly
<1>5. OrdersOfOne'
  BY <1>1, TableFacts DEF SimulationInv, NotYet, OrdersOfOne
<1>6. Uncrossed'
  BY <1>1, TableFacts DEF SimulationInv, NotYet, Uncrossed, ResetsAlone, Writing
<1>7. QED
  BY <1>2, <1>3, <1>4, <1>5, <1>6 DEF SimulationInv

\* Every step of the journey is such a step.
Draws ==
    \/ \E p \in Catalog : Baseline(p) \/ Sizes(p) \/ Policy(p)
    \/ PolicyClicks
    \/ \E b \in OutfitBudgets : BeginOutfit(b)
    \/ \E n \in 1..3 : FillOutfitSlot(n)
    \/ PickOutfit
    \/ AddsToCart \/ ChecksOut \/ Orders \/ GivesUp \/ MaybeFeedback
    \/ ValidateSimulation

\* The simulation is drawn before it is valid, and without touching the tables.
LEMMA DrawsBefore ==
    ASSUME Draws
    PROVE  journey.pc # "valid" /\ UNCHANGED <<writer, stored, crossed>>
<1>1. ASSUME NEW p \in Catalog, Baseline(p) \/ Sizes(p) \/ Policy(p)
      PROVE  journey.pc # "valid" /\ UNCHANGED <<writer, stored, crossed>>
  BY <1>1 DEF Baseline, Sizes, Policy, Begins
<1>2. ASSUME NEW n \in 1..3, FillOutfitSlot(n)
      PROVE  journey.pc # "valid" /\ UNCHANGED <<writer, stored, crossed>>
  <2>1. n = 1 \/ n = 2 \/ n = 3
    OBVIOUS
  <2>2. SlotName(n) # "valid"
    BY <2>1, SlotName(1) = "slot 1", SlotName(2) = "slot 2", SlotName(3) = "slot 3" DEF SlotName
  <2>3. QED
    BY <1>2, <2>2 DEF FillOutfitSlot
<1>3. ASSUME NEW b \in OutfitBudgets, BeginOutfit(b)
      PROVE  journey.pc # "valid" /\ UNCHANGED <<writer, stored, crossed>>
  BY <1>3 DEF BeginOutfit
<1>4. ASSUME PolicyClicks \/ AddsToCart \/ ChecksOut \/ Orders \/ GivesUp
      PROVE  journey.pc # "valid" /\ UNCHANGED <<writer, stored, crossed>>
  BY <1>4 DEF PolicyClicks, AddsToCart, ChecksOut, Orders, GivesUp, Goes
<1>5. ASSUME PickOutfit \/ MaybeFeedback \/ ValidateSimulation
      PROVE  journey.pc # "valid" /\ UNCHANGED <<writer, stored, crossed>>
  BY <1>5 DEF PickOutfit, MaybeFeedback, ValidateSimulation
<1>6. QED
  BY <1>1, <1>2, <1>3, <1>4, <1>5 DEF Draws

\* The steps of a run that writes change its own record, and but for the last one
\* the tables stay.
LEMMA WritingIsValid ==
    ASSUME SimulationInv, NEW w \in Runs, writer[w].pc # "new"
    PROVE  journey.pc = "valid"
  BY DEF SimulationInv, NotYet

\* A run starts.
LEMMA StartingKeeps ==
    ASSUME SimulationInv, NEW w \in Runs, CountRows(w) \/ BeginReset(w)
    PROVE  SimulationInv'
<1> PICK pc \in {"inserts", "ended", "deletes"}, reset \in BOOLEAN :
        /\ Starts(w, pc, reset)
        /\ \/ pc = "inserts" /\ ~reset /\ \A t \in TableSet : stored[t] = {}
           \/ pc = "ended" /\ ~reset
           \/ pc = "deletes" /\ reset
  BY DEF CountRows, BeginReset
<1>0. /\ journey.pc = "valid" /\ writer[w].pc = "new"
      /\ UNCHANGED <<journey, log, stored>>
      /\ writer' = [writer EXCEPT ![w].pc = pc, ![w].reset = reset]
      /\ crossed' = (crossed \/ \E v \in Runs : Writing(v) /\ (reset \/ writer[v].reset))
  BY DEF Starts
<1>1. WriterShapes
  BY DEF SimulationInv
<1>2. /\ writer'[w].pc = pc /\ writer'[w].reset = reset /\ writer'[w].at = 1
      /\ writer'[w].found = writer[w].found /\ writer'[w].deleted = writer[w].deleted
      /\ \A v \in Runs \ {w} : writer'[v] = writer[v]
  BY <1>0, <1>1 DEF WriterShapes, SimulationInv, CountsOnly
<1>3. WriterShapes'
  <2>0. writer[w] \in WriterShape
    BY <1>1 DEF WriterShapes
  <2>1. [writer[w] EXCEPT !.pc = pc, !.reset = reset] \in WriterShape
    BY <2>0 DEF WriterShape
  <2>2. writer' \in [Runs -> WriterShape]
    BY <1>0, <1>1, <2>1 DEF WriterShapes
  <2>3. QED
    BY <1>0, <1>1, <1>2, <2>2 DEF WriterShapes
<1>4. NotYet'
  BY <1>0, <1>2 DEF SimulationInv, NotYet
<1>5. ASSUME NEW v \in Runs PROVE CountsOnly(v)'
  <2>1. CountsOnly(v) /\ CountsOnly(w)
    BY DEF SimulationInv
  <2>2. CASE v = w
    BY <1>0, <1>2, <2>1, <2>2 DEF CountsOnly
  <2>3. CASE v # w
    BY <1>2, <2>1, <2>3 DEF CountsOnly
  <2>4. QED
    BY <2>2, <2>3
<1>6. HasRows("orders")' <=> HasRows("orders")
  BY <1>0 DEF HasRows
<1>7. ASSUME OrdersOfOne PROVE OrdersOfOne'
  BY <1>0, <1>2, <1>7 DEF OrdersOfOne, Taken
<1>8. ASSUME Uncrossed, ~crossed, ~crossed' PROVE Uncrossed'
  <2>1. \A v \in Runs : Writing(v) => ~reset /\ ~writer[v].reset
    BY <1>0, <1>8
  <2>2. ASSUME NEW v \in Runs PROVE ResetsAlone(v)'
    <3>1. CASE v = w
      <4> SUFFICES ASSUME reset PROVE ResetsAlone(w)'
        BY <1>2, <3>1 DEF ResetsAlone
      <4>1. \A u \in Runs : Writing(u)' => u = w
        BY <1>2, <2>1 DEF Writing
      <4>2. pc = "deletes"
        OBVIOUS
      <4>3. \A n \in 1..4 : ~(n < 1)
        OBVIOUS
      <4>4. QED
        BY <1>2, <4>1, <4>2, <4>3 DEF ResetsAlone
    <3>2. CASE v # w
      BY <1>2, <2>1, <3>2 DEF ResetsAlone, Writing
    <3>3. QED
      BY <3>1, <3>2
  <2>3. QED
    BY <1>0, <1>8, <2>2 DEF Uncrossed
<1>9. QED
  BY <1>0, <1>3, <1>4, <1>5, <1>6, <1>7, <1>8 DEF SimulationInv

\* A DELETE finds the rows of its table.
LEMMA FindingKeeps ==
    ASSUME SimulationInv, NEW w \in Runs, FindRows(w)
    PROVE  SimulationInv'
<1>0. /\ writer[w].pc = "deletes"
      /\ UNCHANGED <<journey, log, stored, crossed>>
      /\ writer' = [writer EXCEPT ![w].pc = "waits", ![w].found = stored[Tables[writer[w].at]]]
  BY DEF FindRows
<1>1. WriterShapes
  BY DEF SimulationInv
<1>2. /\ writer'[w].pc = "waits" /\ writer'[w].found = stored[Tables[writer[w].at]]
      /\ writer'[w].reset = writer[w].reset /\ writer'[w].at = writer[w].at
      /\ writer'[w].deleted = writer[w].deleted
      /\ \A v \in Runs \ {w} : writer'[v] = writer[v]
  BY <1>0, <1>1 DEF WriterShapes, WriterShape
<1>a. writer[w].at \in 1..4 /\ stored[Tables[writer[w].at]] \in SUBSET ({0} \cup Runs)
  BY <1>0, <1>1, TableFacts DEF WriterShapes, WriterShape
<1>3. WriterShapes'
  <2>0. writer[w] \in WriterShape
    BY <1>1 DEF WriterShapes
  <2>1. [writer[w] EXCEPT !.pc = "waits", !.found = stored[Tables[writer[w].at]]]
           \in WriterShape
    BY <2>0, <1>a DEF WriterShape
  <2>2. writer' \in [Runs -> WriterShape]
    BY <1>0, <1>1, <2>1 DEF WriterShapes
  <2>3. QED
    BY <1>0, <1>1, <1>2, <1>a, <2>2 DEF WriterShapes
<1>4. NotYet'
  BY <1>0, <1>2, WritingIsValid DEF NotYet
<1>5. ASSUME NEW v \in Runs PROVE CountsOnly(v)'
  <2>1. CountsOnly(v) /\ CountsOnly(w)
    BY DEF SimulationInv
  <2>2. CASE v = w
    BY <1>0, <1>2, <2>1, <2>2 DEF CountsOnly
  <2>3. CASE v # w
    BY <1>2, <2>1, <2>3 DEF CountsOnly
  <2>4. QED
    BY <2>2, <2>3
<1>6. HasRows("orders")' <=> HasRows("orders")
  BY <1>0 DEF HasRows
<1>7. ASSUME OrdersOfOne PROVE OrdersOfOne'
  BY <1>0, <1>2, <1>7 DEF OrdersOfOne, Taken
<1>8. ASSUME Uncrossed PROVE Uncrossed'
  <2>1. \A v \in Runs : Writing(v)' <=> Writing(v)
    BY <1>0, <1>2 DEF Writing
  <2>2. ASSUME NEW v \in Runs PROVE ResetsAlone(v)'
    <3>1. ResetsAlone(v)
      BY <1>8 DEF Uncrossed
    <3>2. CASE v = w
      BY <1>0, <1>2, <2>1, <3>1, <3>2 DEF ResetsAlone
    <3>3. CASE v # w
      BY <1>0, <1>2, <2>1, <3>1, <3>3 DEF ResetsAlone
    <3>4. QED
      BY <3>2, <3>3
  <2>3. QED
    BY <1>0, <1>8, <2>2 DEF Uncrossed
<1>9. QED
  BY <1>0, <1>3, <1>4, <1>5, <1>6, <1>7, <1>8 DEF SimulationInv

\* It deletes what is left of them.
LEMMA DeletingKeeps ==
    ASSUME SimulationInv, NEW w \in Runs, DeleteRows(w)
    PROVE  SimulationInv'
<1> DEFINE t0   == Tables[writer[w].at]
           rows == writer[w].found \cap stored[t0]
           pc1  == IF writer[w].at = 4 THEN "inserts" ELSE "deletes"
<1>0. /\ writer[w].pc = "waits"
      /\ UNCHANGED <<journey, log, stored, crossed>>
      /\ writer' = [writer EXCEPT ![w].deleted[t0] = rows, ![w].at = @ + 1, ![w].pc = pc1]
  BY TableFacts DEF DeleteRows
<1>1. WriterShapes
  BY DEF SimulationInv
<1>a. /\ writer[w] \in WriterShape /\ writer[w].at \in 1..4
      /\ writer[w].deleted \in [TableSet -> SUBSET ({0} \cup Runs)]
      /\ t0 \in TableSet /\ rows \in SUBSET ({0} \cup Runs)
  BY <1>0, <1>1, TableFacts DEF WriterShapes, WriterShape
<1>c. /\ pc1 \in {"inserts", "deletes"}
      /\ pc1 = "inserts" => writer[w].at = 4
      /\ pc1 = "deletes" => writer[w].at < 4
      /\ writer[w].at \in 1..4 /\ writer[w].at + 1 \in 1..5
  BY <1>a
<1>d. rows = writer[w].found \cap stored[t0]
  OBVIOUS
<1> HIDE DEF t0, rows, pc1
<1>2. /\ writer'[w].pc = pc1 /\ writer'[w].at = writer[w].at + 1
      /\ writer'[w].found = writer[w].found /\ writer'[w].reset = writer[w].reset
      /\ writer'[w].deleted = [writer[w].deleted EXCEPT ![t0] = rows]
      /\ \A v \in Runs \ {w} : writer'[v] = writer[v]
  BY <1>0, <1>1, <1>a DEF WriterShapes, WriterShape
<1>e. /\ writer'[w].deleted[t0] = rows
      /\ \A t \in TableSet \ {t0} : writer'[w].deleted[t] = writer[w].deleted[t]
  BY <1>2, <1>a
<1>3. WriterShapes'
  <2>0. [writer[w].deleted EXCEPT ![t0] = rows] \in [TableSet -> SUBSET ({0} \cup Runs)]
    BY <1>a
  <2>1. [writer[w] EXCEPT !.deleted = [writer[w].deleted EXCEPT ![t0] = rows],
                          !.at = writer[w].at + 1, !.pc = pc1] \in WriterShape
    BY <1>a, <1>c, <2>0 DEF WriterShape
  <2>2. writer'[w] = [writer[w] EXCEPT
            !.deleted = [writer[w].deleted EXCEPT ![t0] = rows],
            !.at = writer[w].at + 1, !.pc = pc1]
    BY <1>0, <1>1, <1>a DEF WriterShapes, WriterShape
  <2>3. writer' \in [Runs -> WriterShape]
    <3>1. \A v \in Runs : writer'[v] \in WriterShape
      BY <1>1, <1>2, <2>1, <2>2 DEF WriterShapes
    <3>2. writer' = [v \in Runs |-> writer'[v]]
      BY <1>0, <1>1 DEF WriterShapes
    <3>3. QED
      BY <3>1, <3>2
  <2>5. QED
    BY <1>0, <1>1, <1>2, <1>c, <2>3 DEF WriterShapes
<1>b. Writing(w) /\ Writing(w)' /\ \A v \in Runs : Writing(v)' <=> Writing(v)
  <2>1. Writing(w) /\ Writing(w)'
    BY <1>0, <1>2, <1>c DEF Writing
  <2>2. QED
    BY <1>2, <2>1 DEF Writing
<1>4. NotYet'
  BY <1>0, <1>2, <1>c, WritingIsValid DEF NotYet
<1>5. ASSUME NEW v \in Runs PROVE CountsOnly(v)'
  <2>1. CountsOnly(v) /\ CountsOnly(w)
    BY DEF SimulationInv
  <2>2. CASE v = w
    <3>1. writer[w].reset
      BY <1>0, <2>1 DEF CountsOnly
    <3>2. QED
      BY <1>2, <1>c, <2>2, <3>1 DEF CountsOnly
  <2>3. CASE v # w
    BY <1>2, <2>1, <2>3 DEF CountsOnly
  <2>4. QED
    BY <2>2, <2>3
<1>6. HasRows("orders")' <=> HasRows("orders")
  BY <1>0 DEF HasRows
<1>7. ASSUME OrdersOfOne PROVE OrdersOfOne'
  <2>1. \A v \in Runs : writer'[v].pc = "inserted" => v # w /\ writer'[v] = writer[v]
    BY <1>2, <1>c
  <2>2. QED
    BY <1>0, <1>7, <2>1 DEF OrdersOfOne, Taken
<1>8. ASSUME Uncrossed PROVE Uncrossed'
  <2>2. ASSUME NEW v \in Runs PROVE ResetsAlone(v)'
    <3>1. ResetsAlone(v)
      BY <1>8 DEF Uncrossed
    <3>2. CASE v = w
      <4> SUFFICES ASSUME writer[w].reset PROVE ResetsAlone(w)'
        BY <1>2, <3>2 DEF ResetsAlone
      <4>1. /\ \A u \in Runs : Writing(u)' => u = w
            /\ writer[w].found = stored[t0]
            /\ \A n \in 1..4 : n < writer[w].at =>
                   writer[w].deleted[Tables[n]] = stored[Tables[n]]
        BY <1>0, <1>b, <3>1, <3>2 DEF ResetsAlone, t0
      <4>2. ASSUME NEW n \in 1..4, n < writer[w].at + 1
            PROVE  writer'[w].deleted[Tables[n]] = stored[Tables[n]]
        <5>1. CASE n = writer[w].at
          BY <1>a, <1>d, <1>e, <4>1, <5>1 DEF t0
        <5>2. CASE n # writer[w].at
          <6>1. Tables[n] # t0 /\ Tables[n] \in TableSet
            BY <1>a, <5>2, TableFacts DEF t0
          <6>2. n < writer[w].at
            BY <1>a, <4>2, <5>2
          <6>3. writer[w].deleted[Tables[n]] = stored[Tables[n]]
            BY <4>1, <6>2
          <6>4. QED
            BY <1>e, <6>1, <6>3
        <5>3. QED
          BY <5>1, <5>2
      <4>3. pc1 # "waits" /\ (pc1 = "inserts" => writer[w].at + 1 = 5) /\ pc1 # "inserted"
        BY <1>c
      <4>4. QED
        BY <1>0, <1>2, <1>c, <4>1, <4>2, <4>3 DEF ResetsAlone
    <3>3. CASE v # w
      BY <1>0, <1>2, <1>b, <3>1, <3>3 DEF ResetsAlone
    <3>4. QED
      BY <3>2, <3>3
  <2>3. QED
    BY <1>0, <1>8, <2>2 DEF Uncrossed
<1>9. QED
  BY <1>0, <1>3, <1>4, <1>5, <1>6, <1>7, <1>8 DEF SimulationInv

\* A step that only moves a run on to its inserts' end, or ends it.
Moves(w, pc) ==
    /\ UNCHANGED <<journey, log, crossed>>
    /\ writer[w].pc \in {"deletes", "waits", "inserts", "inserted"}
    /\ writer' = [writer EXCEPT ![w].pc = pc]

\* What follows for the records, whatever happens to the tables.
LEMMA MovingKeeps ==
    ASSUME SimulationInv, NEW w \in Runs, NEW pc \in {"inserted", "ended"}, Moves(w, pc),
           stored' \in [TableSet -> SUBSET ({0} \cup Runs)]
    PROVE  /\ WriterShapes' /\ NotYet' /\ \A v \in Runs : CountsOnly(v)'
           /\ HasRows("orders")' <=> HasRows("orders")
           /\ writer'[w].pc = pc /\ writer'[w].at = writer[w].at
           /\ writer'[w].reset = writer[w].reset
           /\ writer'[w].deleted = writer[w].deleted
           /\ \A v \in Runs \ {w} : writer'[v] = writer[v]
<1>1. WriterShapes /\ writer[w] \in WriterShape
  BY DEF SimulationInv, WriterShapes
<1>2. /\ writer'[w].pc = pc /\ writer'[w].at = writer[w].at
      /\ writer'[w].reset = writer[w].reset
      /\ writer'[w].deleted = writer[w].deleted
      /\ \A v \in Runs \ {w} : writer'[v] = writer[v]
  BY <1>1 DEF WriterShapes, WriterShape, Moves
<1>3. WriterShapes'
  <2>1. [writer[w] EXCEPT !.pc = pc] \in WriterShape
    BY <1>1 DEF WriterShape
  <2>2. writer' \in [Runs -> WriterShape]
    BY <1>1, <2>1 DEF WriterShapes, Moves
  <2>3. QED
    BY <1>1, <1>2, <2>2 DEF WriterShapes, Moves
<1>4. NotYet'
  BY <1>2, WritingIsValid DEF NotYet, Moves
<1>5. ASSUME NEW v \in Runs PROVE CountsOnly(v)'
  <2>1. CountsOnly(v)
    BY DEF SimulationInv
  <2>2. CASE v = w
    BY <1>2, <2>1, <2>2 DEF CountsOnly
  <2>3. CASE v # w
    BY <1>2, <2>1, <2>3 DEF CountsOnly
  <2>4. QED
    BY <2>2, <2>3
<1>6. QED
  BY <1>2, <1>3, <1>4, <1>5 DEF Moves, HasRows

\* A run inserts, once no order it leaves has its token, or fails.
LEMMA InsertingKeeps ==
    ASSUME SimulationInv, NEW w \in Runs, InsertRows(w) \/ WriteFails(w)
    PROVE  SimulationInv'
<1> PICK pc \in {"inserted", "ended"} :
        /\ Moves(w, pc) /\ stored' = stored
        /\ pc = "inserted" => InsertRows(w)
  BY DEF InsertRows, WriteFails, Moves, Writing
<1>1. stored' \in [TableSet -> SUBSET ({0} \cup Runs)]
  BY DEF SimulationInv, WriterShapes
<1>2. /\ WriterShapes' /\ NotYet' /\ \A v \in Runs : CountsOnly(v)'
      /\ HasRows("orders")' <=> HasRows("orders")
      /\ writer'[w].pc = pc /\ writer'[w].at = writer[w].at
      /\ writer'[w].reset = writer[w].reset
      /\ writer'[w].deleted = writer[w].deleted
      /\ \A v \in Runs \ {w} : writer'[v] = writer[v]
  BY <1>1, MovingKeeps
<1>3. ASSUME HasRows("orders"), OrdersOfOne PROVE OrdersOfOne'
  <2>1. \A v \in Runs : Taken(v)' = Taken(v)
    BY <1>2 DEF Taken
  <2>2. pc = "inserted" => /\ Taken(w) = {}
                           /\ \A v \in Runs \ {w} : writer[v].pc # "inserted"
    BY <1>3 DEF InsertRows, Writing
  <2>3. \A v \in Runs : writer'[v].pc = "inserted" =>
            (v = w /\ pc = "inserted") \/ (v # w /\ writer[v].pc = "inserted")
    BY <1>2
  <2>4. QED
    BY <1>3, <2>1, <2>2, <2>3 DEF OrdersOfOne
<1>4. ASSUME Uncrossed PROVE Uncrossed'
  <2>1. \A v \in Runs : Writing(v)' => Writing(v)
    BY <1>2 DEF Writing, Moves
  <2>2. ASSUME NEW v \in Runs PROVE ResetsAlone(v)'
    <3>1. ResetsAlone(v)
      BY <1>4 DEF Uncrossed
    <3>2. CASE v = w
      <4>1. pc = "inserted" => writer[w].pc = "inserts"
        BY DEF InsertRows
      <4>2. QED
        BY <1>2, <2>1, <3>1, <3>2, <4>1 DEF ResetsAlone, Writing
    <3>3. CASE v # w
      BY <1>2, <2>1, <3>1, <3>3 DEF ResetsAlone
    <3>4. QED
      BY <3>2, <3>3
  <2>3. QED
    BY <1>4, <2>2 DEF Uncrossed
<1>5. QED
  BY <1>2, <1>3, <1>4 DEF SimulationInv, Moves

\* A run commits.
LEMMA CommittingKeeps ==
    ASSUME SimulationInv, NEW w \in Runs, CommitRows(w)
    PROVE  SimulationInv'
<1>0. /\ Moves(w, "ended") /\ writer[w].pc = "inserted"
      /\ stored' = [t \in TableSet |-> (stored[t] \ writer[w].deleted[t])
                                       \cup (IF HasRows(t) THEN {w} ELSE {})]
  BY DEF CommitRows, Moves
<1>1. stored' \in [TableSet -> SUBSET ({0} \cup Runs)]
  BY <1>0 DEF SimulationInv, WriterShapes
<1>2. /\ WriterShapes' /\ NotYet' /\ \A v \in Runs : CountsOnly(v)'
      /\ HasRows("orders")' <=> HasRows("orders")
      /\ writer'[w].pc = "ended" /\ writer'[w].at = writer[w].at
      /\ writer'[w].reset = writer[w].reset
      /\ writer'[w].deleted = writer[w].deleted
      /\ \A v \in Runs \ {w} : writer'[v] = writer[v]
  BY <1>0, <1>1, MovingKeeps
<1>3. ASSUME HasRows("orders"), OrdersOfOne
      PROVE  OrdersOfOne' /\ stored'["orders"] = {w}
  <2>1. Taken(w) = {} /\ \A v \in Runs \ {w} : writer[v].pc # "inserted"
    BY <1>0, <1>3 DEF OrdersOfOne
  <2>2. stored'["orders"] = {w}
    BY <1>0, <1>3, <2>1, TableFacts DEF Taken
  <2>3. \A v \in Runs : writer'[v].pc # "inserted"
    BY <1>2, <2>1
  <2>4. QED
    BY <2>2, <2>3 DEF OrdersOfOne, AtMostOne
<1>4. ASSUME HasRows("orders"), OrdersOfOne, Uncrossed PROVE Uncrossed'
  <2>1. \A v \in Runs : (Writing(v)' => v # w) /\ (Writing(v)' => Writing(v))
    BY <1>2 DEF Writing
  <2>2. ResetsAlone(w) /\ CountsOnly(w) /\ Writing(w)
    BY <1>0, <1>4 DEF Uncrossed, SimulationInv, Writing
  <2>3. ASSUME NEW t \in TableSet PROVE stored'[t] \subseteq {w}
    <3>1. CASE writer[w].reset
      <4>1. writer[w].deleted[t] = stored[t]
        BY <1>0, <2>2, <3>1, TableFacts DEF ResetsAlone
      <4>2. QED
        BY <1>0, <4>1
    <3>2. CASE ~writer[w].reset
      <4>1. writer[w].deleted["orders"] = {}
        BY <2>2, <3>2, TableFacts DEF CountsOnly
      <4>2. stored["orders"] = {}
        BY <1>0, <1>4, <4>1 DEF OrdersOfOne, Taken
      <4>3. stored[t] = {}
        BY <1>4, <4>2 DEF OrdersOfOne
      <4>4. QED
        BY <1>0, <4>3
    <3>3. QED
      BY <3>1, <3>2
  <2>4. ASSUME NEW v \in Runs PROVE ResetsAlone(v)'
    <3>1. CASE Writing(v)' /\ writer'[v].reset
      <4>1. v # w /\ Writing(v) /\ writer[v].reset /\ ResetsAlone(v)
        BY <1>2, <1>4, <2>1, <3>1 DEF Uncrossed
      <4>2. QED
        BY <2>2, <4>1 DEF ResetsAlone
    <3>2. QED
      BY <3>1 DEF ResetsAlone
  <2>5. QED
    BY <2>3, <2>4 DEF Uncrossed, AtMostOne
<1>5. QED
  BY <1>0, <1>2, <1>3, <1>4 DEF SimulationInv, Moves

\* Every step keeps the invariant.
LEMMA NextSimulation == SimulationInv /\ [NextTraffic]_trafficVars => SimulationInv'
<1> SUFFICES ASSUME SimulationInv, [NextTraffic]_trafficVars PROVE SimulationInv'
  OBVIOUS
<1>1. CASE UNCHANGED trafficVars
  <2>1. UNCHANGED <<journey, log, writer, stored, crossed>>
    BY <1>1 DEF trafficVars
  <2>2. QED
    BY <2>1 DEF SimulationInv, WriterShapes, NotYet, CountsOnly, OrdersOfOne, Uncrossed,
                ResetsAlone, HasRows, Taken, Writing
<1>2. CASE Draws
  BY <1>2, DrawsBefore, DrawingKeeps
<1>3. ASSUME NEW w \in Runs,
             \/ CountRows(w) \/ BeginReset(w) \/ FindRows(w) \/ DeleteRows(w)
             \/ InsertRows(w) \/ WriteFails(w) \/ CommitRows(w)
      PROVE  SimulationInv'
  BY <1>3, StartingKeeps, FindingKeeps, DeletingKeeps, InsertingKeeps, CommittingKeeps
<1>4. QED
  BY <1>1, <1>2, <1>3 DEF NextTraffic, Draws

\* Whatever runs of the simulator start beside each other, fail, reset or wait for
\* each other's rows: the shop has the orders of one simulation, and, unless a run
\* that resets crossed another, nothing of a second one.
THEOREM OneSimulationIsStored == SpecTraffic => []OneSimulation
<1>1. ASSUME NEW S, AtMostOne(S) PROVE Cardinality(S) <= 1
  <2>1. CASE S = {}
    BY <2>1, FS_EmptySet
  <2>2. CASE S # {}
    <3>1. PICK x : S = {x}
      BY <1>1, <2>2 DEF AtMostOne
    <3>2. QED
      BY <3>1, FS_Singleton
  <2>3. QED
    BY <2>1, <2>2
<1>2. SimulationInv => OneSimulation
  BY <1>1 DEF SimulationInv, OrdersOfOne, Uncrossed, OneSimulation
<1>3. QED
  BY <1>2, InitSimulation, NextSimulation, PTL DEF SpecTraffic

-----------------------------------------------------------------------------
(* Lists: what of the operators on them the proofs need.                     *)

\* Of any two members of a set one comes before the other.
IsOrder(R, S) ==
    /\ \A a, b \in S : a # b => <<a, b>> \in R \/ <<b, a>> \in R
    /\ \A a \in S : <<a, a>> \notin R
    /\ \A a, b, c \in S : <<a, b>> \in R /\ <<b, c>> \in R => <<a, c>> \in R

\* What a set is in an order: each of its members once.
LEMMA OrderedIsAll ==
    ASSUME NEW S, IsFiniteSet(S), NEW R, IsOrder(R, S)
    PROVE  LET q == Ordered(S, R)
           IN  /\ q \in Seq(S) /\ Len(q) = Cardinality(S)
               /\ DOMAIN q = 1..Cardinality(S)
               /\ ToSet(q) = S /\ Distinct(q)
<1> DEFINE n == Cardinality(S)
           Below(a) == {b \in S : <<b, a>> \in R}
           q == Ordered(S, R)
<1>1. n \in Nat
  BY FS_CardinalityType
<1>2. ASSUME NEW a \in S
      PROVE  IsFiniteSet(Below(a)) /\ Cardinality(Below(a)) \in 0..n - 1
  <2>1. Below(a) \in SUBSET S /\ a \notin Below(a) /\ Below(a) \cup {a} \in SUBSET S
    BY DEF IsOrder
  <2>2. IsFiniteSet(Below(a)) /\ Cardinality(Below(a)) \in Nat
    BY <2>1, FS_Subset, FS_CardinalityType
  <2>3. Cardinality(Below(a) \cup {a}) = Cardinality(Below(a)) + 1
    BY <2>1, <2>2, FS_AddElement
  <2>4. Cardinality(Below(a) \cup {a}) <= n
    BY <2>1, FS_Subset
  <2>5. QED
    BY <1>1, <2>2, <2>3, <2>4
<1>3. ASSUME NEW a \in S, NEW b \in S, <<a, b>> \in R
      PROVE  Cardinality(Below(a)) < Cardinality(Below(b))
  <2>1. Below(a) \cup {a} \in SUBSET Below(b) /\ a \notin Below(a)
    <3>1. a \notin Below(a) /\ a \in Below(b)
      BY <1>3 DEF IsOrder
    <3>2. \A c \in Below(a) : c \in Below(b)
      BY <1>3 DEF IsOrder
    <3> HIDE DEF Below
    <3>3. QED
      BY <3>1, <3>2
  <2>2. /\ IsFiniteSet(Below(a)) /\ Cardinality(Below(a)) \in Nat
        /\ IsFiniteSet(Below(b)) /\ Cardinality(Below(b)) \in Nat
    BY <1>1, <1>2
  <2> HIDE DEF Below
  <2>3. Cardinality(Below(a) \cup {a}) = Cardinality(Below(a)) + 1
    BY <2>1, <2>2, FS_AddElement
  <2>4. Cardinality(Below(a) \cup {a}) <= Cardinality(Below(b))
    BY <2>1, <2>2, FS_Subset
  <2>5. QED
    BY <2>2, <2>3, <2>4
<1> HIDE DEF Below
<1> DEFINE r == [a \in S |-> Cardinality(Below(a)) + 1]
<1>4. \A a, b \in S : r[a] = r[b] => a = b
  <2> SUFFICES ASSUME NEW a \in S, NEW b \in S, a # b PROVE r[a] # r[b]
    OBVIOUS
  <2>1. <<a, b>> \in R \/ <<b, a>> \in R
    BY DEF IsOrder
  <2>2. r[a] = Cardinality(Below(a)) + 1 /\ r[b] = Cardinality(Below(b)) + 1
    OBVIOUS
  <2>3. Cardinality(Below(a)) \in Nat /\ Cardinality(Below(b)) \in Nat
    BY <1>2
  <2>4. Cardinality(Below(a)) # Cardinality(Below(b))
    BY <1>3, <2>1, <2>3
  <2>5. QED
    BY <2>2, <2>3, <2>4
<1>5. \A a \in S : r[a] \in 1..n
  BY <1>1, <1>2
<1>6. r \in Injection(S, 1..n)
  <2>1. r \in [S -> 1..n]
    BY <1>5
  <2> HIDE DEF r
  <2>2. QED
    BY <1>4, <2>1 DEF Injection, IsInjective
<1>7. \A k \in 1..n : \E a \in S : r[a] = k
  <2>1. IsFiniteSet(1..n) /\ Cardinality(1..n) = n
    BY <1>1, FS_Interval
  <2>2. r \in Surjection(S, 1..n)
    BY <1>6, <2>1, FS_Injection
  <2>3. QED
    BY <2>2 DEF Surjection
<1>8. q = [k \in 1..n |-> CHOOSE a \in S : Cardinality(Below(a)) = k - 1]
  BY DEF Ordered, Below
<1>9. ASSUME NEW k \in 1..n PROVE q[k] \in S /\ r[q[k]] = k
  <2>1. \E a \in S : Cardinality(Below(a)) = k - 1
    <3>1. PICK a \in S : r[a] = k
      BY <1>7
    <3>2. Cardinality(Below(a)) + 1 = k /\ Cardinality(Below(a)) \in Nat
      BY <3>1, <1>2
    <3>3. QED
      BY <3>2
  <2>2. q[k] = CHOOSE a \in S : Cardinality(Below(a)) = k - 1
    BY <1>8
  <2>3. q[k] \in S /\ Cardinality(Below(q[k])) = k - 1
    BY <2>1, <2>2
  <2>4. QED
    BY <2>3, <1>2
<1> HIDE DEF r, q
<1> HIDE DEF n
<1>10. q \in Seq(S) /\ Len(q) = n /\ DOMAIN q = 1..n
  <2>1. DOMAIN q = 1..n /\ q = [k \in 1..n |-> q[k]]
    BY <1>8
  <2>2. \A k \in 1..n : q[k] \in S
    BY <1>9
  <2>3. q \in [1..n -> S]
    BY <2>1, <2>2
  <2>4. q \in Seq(S)
    BY <1>1, <2>3
  <2>5. QED
    BY <1>1, <2>1, <2>4
<1>11. ToSet(q) = S
  <2>1. \A a \in S : r[a] \in 1..n /\ q[r[a]] = a
    BY <1>5, <1>9, <1>4 
  <2>2. \A a \in S : \E k \in DOMAIN q : a = q[k]
    BY <1>10, <2>1
  <2>3. \A k \in DOMAIN q : q[k] \in S
    BY <1>9, <1>10
  <2>4. QED
    BY <2>2, <2>3 DEF ToSet
<1>12. Distinct(q)
  BY <1>9, <1>10 DEF Distinct
<1>13. QED
  BY <1>10, <1>11, <1>12 DEF q, n

\* What numbers in ascending order are: each of them once.
LEMMA AscendingIsAll ==
    ASSUME NEW S, S \subseteq Nat, IsFiniteSet(S)
    PROVE  /\ Ascending(S) \in Seq(S) /\ Len(Ascending(S)) = Cardinality(S)
           /\ DOMAIN Ascending(S) = 1..Cardinality(S)
           /\ ToSet(Ascending(S)) = S /\ Distinct(Ascending(S))
<1> DEFINE R == {pair \in S \X S : pair[1] < pair[2]}
<1>1. \A a, b \in S : <<a, b>> \in R <=> a < b
  OBVIOUS
<1>2. Ascending(S) = Ordered(S, R)
  BY DEF Ascending
<1> HIDE DEF R
<1>3. \A a, b \in S : a # b => <<a, b>> \in R \/ <<b, a>> \in R
  <2>1. \A a, b \in S : a # b => a < b \/ b < a
    OBVIOUS
  <2>2. QED
    BY <1>1, <2>1
<1>4. \A a \in S : <<a, a>> \notin R
  <2>1. \A a \in S : ~(a < a)
    OBVIOUS
  <2>2. QED
    BY <1>1, <2>1
<1>5. \A a, b, c \in S : <<a, b>> \in R /\ <<b, c>> \in R => <<a, c>> \in R
  <2>1. \A a, b, c \in S : a < b /\ b < c => a < c
    OBVIOUS
  <2> SUFFICES ASSUME NEW a \in S, NEW b \in S, NEW c \in S, <<a, b>> \in R, <<b, c>> \in R
               PROVE  <<a, c>> \in R
    OBVIOUS
  <2>2. a < b /\ b < c
    BY <1>1
  <2>3. QED
    BY <1>1, <2>1, <2>2
<1>6. QED
  <2>1. IsOrder(R, S)
    BY <1>3, <1>4, <1>5 DEF IsOrder
  <2>2. QED
    BY <1>2, <2>1, OrderedIsAll

\* What a list has at some of its places.
LEMMA AtSomePlaces ==
    ASSUME NEW V, NEW list \in Seq(V), NEW places, places \subseteq DOMAIN list
    PROVE  /\ At(list, places) \in Seq(V)
           /\ Len(At(list, places)) = Cardinality(places)
           /\ ToSet(At(list, places)) = {list[i] : i \in places}
           /\ (\A i, j \in places : i < j => list[i] # list[j])
                 => Distinct(At(list, places))
<1> DEFINE n == Cardinality(places)
           o == Ascending(places)
           q == At(list, places)
<1>1. IsFiniteSet(places) /\ places \subseteq Nat /\ n \in Nat
  <2>1. DOMAIN list = 1..Len(list) /\ Len(list) \in Nat
    OBVIOUS
  <2>2. IsFiniteSet(1..Len(list))
    BY <2>1, FS_Interval
  <2>3. places \in SUBSET (1..Len(list))
    BY <2>1
  <2>4. QED
    BY <2>1, <2>2, <2>3, FS_Subset, FS_CardinalityType
<1>2. /\ DOMAIN o = 1..n /\ ToSet(o) = places /\ Distinct(o)
      /\ \A k \in 1..n : o[k] \in places
  BY <1>1, AscendingIsAll DEF ToSet
<1>3. q = [k \in 1..n |-> list[o[k]]]
  BY <1>2 DEF At
<1> HIDE DEF o, q, n
<1>4. q \in Seq(V) /\ Len(q) = n /\ DOMAIN q = 1..n
  <2>1. \A k \in 1..n : list[o[k]] \in V
    BY <1>2
  <2>2. q \in [1..n -> V]
    BY <1>3, <2>1
  <2>3. QED
    BY <1>1, <2>2
<1>5. ToSet(q) = {list[i] : i \in places}
  BY <1>2, <1>3, <1>4 DEF ToSet
<1>6. ASSUME \A i, j \in places : i < j => list[i] # list[j]
      PROVE  Distinct(q)
  <2> SUFFICES ASSUME NEW i \in 1..n, NEW j \in 1..n, i < j PROVE q[i] # q[j]
    BY <1>4 DEF Distinct
  <2>1. o[i] # o[j] /\ o[i] \in places /\ o[j] \in places
    BY <1>2 DEF Distinct
  <2>2. o[i] < o[j] \/ o[j] < o[i]
    BY <1>1, <2>1
  <2>3. QED
    BY <1>3, <1>6, <2>1, <2>2
<1>7. QED
  BY <1>4, <1>5, <1>6 DEF q, n

\* What a list begins with.
LEMMA FirstOfList ==
    ASSUME NEW V, NEW list \in Seq(V), NEW n \in Nat
    PROVE  /\ First(n, list) \in Seq(V)
           /\ Len(First(n, list)) = IF n < Len(list) THEN n ELSE Len(list)
           /\ n >= Len(list) => First(n, list) = list
           /\ ToSet(First(n, list)) \subseteq ToSet(list)
           /\ Distinct(list) => Distinct(First(n, list))
<1> DEFINE m == IF n < Len(list) THEN n ELSE Len(list)
           q == First(n, list)
<1>1. m \in 0..Len(list) /\ Len(list) \in Nat /\ DOMAIN list = 1..Len(list)
  OBVIOUS
<1>2. q = SubSeq(list, 1, m)
  BY DEF First
<1> HIDE DEF m
<1>3. /\ q \in Seq(V) /\ Len(q) = m /\ DOMAIN q = 1..m
      /\ \A i \in 1..m : q[i] = list[i] /\ i \in DOMAIN list
  BY <1>1, <1>2
<1> HIDE DEF q
<1>4. n >= Len(list) => q = list
  BY <1>1, <1>3 DEF m
<1>5. ToSet(q) \subseteq ToSet(list)
  BY <1>3 DEF ToSet
<1>6. Distinct(list) => Distinct(q)
  BY <1>3 DEF Distinct
<1>7. QED
  BY <1>3, <1>4, <1>5, <1>6 DEF q, m

\* A list without doubles is as long as the set of what it has.
LEMMA LengthOfDistinct ==
    ASSUME NEW V, NEW list \in Seq(V), Distinct(list)
    PROVE  IsFiniteSet(ToSet(list)) /\ Cardinality(ToSet(list)) = Len(list)
<1> DEFINE n == Len(list)
<1>1. n \in Nat /\ DOMAIN list = 1..n /\ list \in [1..n -> ToSet(list)]
  BY DEF ToSet
<1>2. IsFiniteSet(1..n) /\ Cardinality(1..n) = n
  BY <1>1, FS_Interval
<1>3. list \in Surjection(1..n, ToSet(list))
  BY <1>1 DEF Surjection, ToSet
<1>4. list \in Injection(1..n, ToSet(list))
  <2>1. \A i, j \in 1..n : list[i] = list[j] => i = j
    <3>1. \A i, j \in 1..n : i < j \/ j < i \/ i = j
      OBVIOUS
    <3>2. QED
      BY <1>1, <3>1 DEF Distinct
  <2>2. QED
    BY <1>1, <2>1 DEF Injection, IsInjective
<1>5. QED
  BY <1>2, <1>3, <1>4, FS_Surjection

\* One list after the other.
LEMMA ListsTogether ==
    ASSUME NEW V, NEW s \in Seq(V), NEW t \in Seq(V)
    PROVE  /\ s \o t \in Seq(V) /\ Len(s \o t) = Len(s) + Len(t)
           /\ ToSet(s \o t) = ToSet(s) \cup ToSet(t)
           /\ Distinct(s) /\ Distinct(t) /\ ToSet(s) \cap ToSet(t) = {}
                 => Distinct(s \o t)
<1> DEFINE q == s \o t
           m == Len(s)
           n == Len(t)
<1>1. /\ q \in Seq(V) /\ Len(q) = m + n /\ DOMAIN q = 1..m + n
      /\ m \in Nat /\ n \in Nat /\ DOMAIN s = 1..m /\ DOMAIN t = 1..n
      /\ \A i \in 1..m : q[i] = s[i]
      /\ \A i \in 1..n : q[m + i] = t[i] /\ m + i \in 1..m + n
      /\ \A i \in m + 1..m + n : q[i] = t[i - m] /\ i - m \in 1..n
  OBVIOUS
<1> HIDE DEF q, m, n
<1>2. ToSet(q) = ToSet(s) \cup ToSet(t)
  <2>1. \A v \in ToSet(q) : v \in ToSet(s) \cup ToSet(t)
    <3> SUFFICES ASSUME NEW i \in 1..m + n PROVE q[i] \in ToSet(s) \cup ToSet(t)
      BY <1>1 DEF ToSet
    <3>1. i \in 1..m \/ i \in m + 1..m + n
      BY <1>1
    <3>2. QED
      BY <1>1, <3>1 DEF ToSet
  <2>2. \A v \in ToSet(s) : v \in ToSet(q)
    <3>1. \A i \in 1..m : i \in 1..m + n
      BY <1>1
    <3>2. QED
      BY <1>1, <3>1 DEF ToSet
  <2>3. \A v \in ToSet(t) : v \in ToSet(q)
    BY <1>1 DEF ToSet
  <2>4. QED
    BY <2>1, <2>2, <2>3
<1>3. ASSUME Distinct(s), Distinct(t), ToSet(s) \cap ToSet(t) = {}
      PROVE  Distinct(q)
  <2> SUFFICES ASSUME NEW i \in 1..m + n, NEW j \in 1..m + n, i < j PROVE q[i] # q[j]
    BY <1>1 DEF Distinct
  <2>1. CASE j \in 1..m
    <3>1. i \in 1..m
      BY <1>1, <2>1
    <3>2. q[i] = s[i] /\ q[j] = s[j]
      BY <1>1, <2>1, <3>1
    <3>3. QED
      BY <1>1, <1>3, <2>1, <3>1, <3>2 DEF Distinct
  <2>2. CASE i \in m + 1..m + n
    <3>1. i - m \in 1..n /\ j - m \in 1..n /\ i - m < j - m
      BY <1>1, <2>2
    <3>2. q[i] = t[i - m] /\ q[j] = t[j - m]
      <4>1. j \in m + 1..m + n
        BY <1>1, <2>2
      <4>2. QED
        BY <1>1, <2>2, <4>1
    <3>3. PICK k \in 1..n, l \in 1..n : k = i - m /\ l = j - m
      BY <3>1
    <3>4. t[k] # t[l]
      BY <1>1, <1>3, <3>1, <3>3 DEF Distinct
    <3>5. QED
      BY <3>2, <3>3, <3>4
  <2>3. CASE i \in 1..m /\ j \in m + 1..m + n
    <3>1. q[i] \in ToSet(s) /\ q[j] \in ToSet(t)
      BY <1>1, <2>3 DEF ToSet
    <3>2. QED
      BY <1>3, <3>1
  <2>4. QED
    BY <1>1, <2>1, <2>2, <2>3
<1>4. QED
  BY <1>1, <1>2, <1>3 DEF q, m, n

\* A recursion from one number to the next.
IsRecursion(f, n, X, base, step) ==
    /\ f \in [0..n -> X]
    /\ f[0] = base
    /\ \A i \in 1..n : f[i] = step[i][f[i - 1]]

\* There is one.
HasRecursion(n, X, base, step) == \E f : IsRecursion(f, n, X, base, step)

\* Which is a fold over the first numbers.
LEMMA Recursion ==
    ASSUME NEW n \in Nat, NEW X, NEW base \in X,
           NEW step, \A i \in 1..n, x \in X : step[i][x] \in X
    PROVE  HasRecursion(n, X, base, step)
<1>0. HasFold(1..n, X, base, NumbersUpto(n), step)
  BY NumbersFold
<1>1. PICK g \in [SUBSET (1..n) -> X] : \A u \in SUBSET (1..n) :
               g[u] = IF u = {} THEN base ELSE step[Max(u)][g[u \ {Max(u)}]]
  <2>1. PICK g : IsFold(g, 1..n, X, base, NumbersUpto(n), step)
    BY <1>0 DEF HasFold
  <2>2. \A u \in SUBSET (1..n) : NumbersUpto(n)[u] = Max(u)
    BY DEF NumbersUpto
  <2>3. /\ g \in [SUBSET (1..n) -> X]
        /\ \A u \in SUBSET (1..n) :
              g[u] = IF u = {} THEN base
                     ELSE step[NumbersUpto(n)[u]][g[u \ {NumbersUpto(n)[u]}]]
    BY <2>1 DEF IsFold
  <2>4. ASSUME NEW u \in SUBSET (1..n)
        PROVE  g[u] = IF u = {} THEN base ELSE step[Max(u)][g[u \ {Max(u)}]]
    BY <2>2, <2>3
  <2>5. QED
    BY <2>3, <2>4
<1> DEFINE f == [i \in 0..n |-> g[1..i]]
<1>2. f \in [0..n -> X]
  <2>1. \A i \in 0..n : 1..i \in SUBSET (1..n)
    OBVIOUS
  <2>2. QED
    BY <2>1
<1>3. f[0] = base
  <2>1. 1..0 = {} /\ {} \in SUBSET (1..n)
    OBVIOUS
  <2>2. g[{}] = base
    BY <1>1, <2>1
  <2>3. f[0] = g[1..0]
    OBVIOUS
  <2>4. QED
    BY <2>1, <2>2, <2>3
<1>4. ASSUME NEW i \in 1..n PROVE f[i] = step[i][f[i - 1]]
  <2>1. f[i] = g[1..i] /\ f[i - 1] = g[1..(i - 1)]
    OBVIOUS
  <2>2. /\ 1..i \in SUBSET (1..n) /\ 1..i # {} /\ Max(1..i) = i
        /\ (1..i) \ {Max(1..i)} = 1..(i - 1)
    BY GreatestOfFirst
  <2>3. g[1..i] = step[Max(1..i)][g[(1..i) \ {Max(1..i)}]]
    BY <1>1, <2>2
  <2> HIDE DEF f
  <2>4. QED
    BY <2>1, <2>2, <2>3
<1>5. QED
  <2> HIDE DEF f
  <2> QED
    BY <1>2, <1>3, <1>4 DEF HasRecursion, IsRecursion

\* Lists one after the other: each is written behind those before it.
IsFlat(f, seqs, V) ==
    /\ f \in [0..Len(seqs) -> Seq(V)]
    /\ f[0] = <<>> /\ FlattenSeq(seqs) = f[Len(seqs)]
    /\ \A i \in 1..Len(seqs) : f[i] = f[i - 1] \o seqs[i]

HasFlat(seqs, V) == \E f : IsFlat(f, seqs, V)

LEMMA FlattenGrows ==
    ASSUME NEW V, NEW seqs \in Seq(Seq(V))
    PROVE  HasFlat(seqs, V)
<1> DEFINE n == Len(seqs)
           X == Seq(V)
           step == [i \in 1..n |-> [x \in X |-> IF i = 1 THEN seqs[i] ELSE x \o seqs[i]]]
           Flat(f) == f = [i \in 1..n |-> IF i = 1 THEN seqs[i] ELSE f[i - 1] \o seqs[i]]
           h == CHOOSE f : Flat(f)
<1>1. n \in Nat /\ \A i \in 1..n : seqs[i] \in X
  OBVIOUS
<1> HIDE DEF n
<1>2. <<>> \in X /\ \A x \in X, y \in X : x \o y \in X
  OBVIOUS
<1>empty. \A x \in X : <<>> \o x = x
  OBVIOUS
<1> HIDE DEF X
<1>3. \A i \in 1..n, x \in X : step[i][x] \in X
  BY <1>1, <1>2
<1>4. \E f : Flat(f)
  <2>1. PICK f : IsRecursion(f, n, X, <<>>, step)
    <3> HIDE DEF step
    <3>1. HasRecursion(n, X, <<>>, step)
      BY <1>1, <1>2, <1>3, Recursion
    <3>2. QED
      BY <3>1 DEF HasRecursion
  <2> DEFINE g == [i \in 1..n |-> f[i]]
  <2>2. ASSUME NEW i \in 1..n
        PROVE  f[i] = IF i = 1 THEN seqs[i] ELSE g[i - 1] \o seqs[i]
    <3>1. f[i] = step[i][f[i - 1]]
      BY <2>1 DEF IsRecursion
    <3>2. f[i - 1] \in X
      BY <1>1, <2>1 DEF IsRecursion
    <3>3. f[i] = IF i = 1 THEN seqs[i] ELSE f[i - 1] \o seqs[i]
      BY <3>1, <3>2
    <3>4. i # 1 => g[i - 1] = f[i - 1]
      BY <1>1
    <3>5. QED
      BY <3>3, <3>4
  <2>3. g = [i \in 1..n |-> IF i = 1 THEN seqs[i] ELSE g[i - 1] \o seqs[i]]
    BY <2>2
  <2>4. QED
    BY <2>3
<1>5. Flat(h)
  BY <1>4
<1>6. \A i \in 1..n : h[i] = IF i = 1 THEN seqs[i] ELSE h[i - 1] \o seqs[i]
  <2> HIDE DEF h
  <2> QED
    BY <1>5
<1>7. FlattenSeq(seqs) = IF n = 0 THEN seqs ELSE h[n]
  BY DEF FlattenSeq, n
<1> HIDE DEF h
<1> DEFINE f == [i \in 0..n |-> IF i = 0 THEN <<>> ELSE h[i]]
<1>8. f[0] = <<>> /\ \A i \in 1..n : f[i] = h[i]
  BY <1>1
<1>9. DOMAIN f = 0..n /\ f = [i \in 0..n |-> f[i]]
  OBVIOUS
<1> HIDE DEF f
<1>10. ASSUME NEW i \in 1..n PROVE f[i] = f[i - 1] \o seqs[i]
  <2>1. CASE i = 1
    <3>1. f[i] = seqs[i] /\ f[i - 1] = <<>>
      BY <1>6, <1>8, <2>1
    <3>2. QED
      BY <1>1, <1>empty, <3>1
  <2>2. CASE i # 1
    <3>1. i - 1 \in 1..n
      BY <1>1, <2>2
    <3>2. f[i] = h[i] /\ f[i - 1] = h[i - 1] /\ h[i] = h[i - 1] \o seqs[i]
      BY <1>6, <1>8, <2>2, <3>1
    <3>3. QED
      BY <3>2
  <2>3. QED
    BY <2>1, <2>2
<1> DEFINE S == {i \in 0..n : f[i] \in X}
<1>11. 0..n \subseteq S
  <2>1. 0 \in S
    BY <1>1, <1>2, <1>8
  <2>2. ASSUME NEW k \in 1..n, k - 1 \in S PROVE k \in S
    <3>1. f[k] = f[k - 1] \o seqs[k] /\ f[k - 1] \in X /\ seqs[k] \in X
      BY <1>1, <1>10, <2>2
    <3>2. f[k] \in X
      BY <1>2, <3>1
    <3>3. QED
      BY <3>2
  <2> HIDE DEF S
  <2>3. QED
    BY <1>1, <2>1, <2>2, Induction
<1>12. f \in [0..n -> X]
  BY <1>9, <1>11
<1>13. FlattenSeq(seqs) = f[n]
  <2>1. CASE n = 0
    <3>1. seqs = <<>>
      BY <2>1 DEF n
    <3>2. QED
      BY <1>7, <1>8, <2>1, <3>1
  <2>2. CASE n # 0
    BY <1>1, <1>7, <1>8, <2>2
  <2>3. QED
    BY <2>1, <2>2
<1>14. QED
  BY <1>8, <1>10, <1>12, <1>13 DEF HasFlat, IsFlat, n, X

\* So lists of V one after the other are a list of V.
LEMMA FlattenedIsList ==
    ASSUME NEW V, NEW seqs \in Seq(Seq(V))
    PROVE  FlattenSeq(seqs) \in Seq(V)
<1>1. PICK f : IsFlat(f, seqs, V)
  BY FlattenGrows DEF HasFlat
<1>2. Len(seqs) \in 0..Len(seqs)
  OBVIOUS
<1>3. QED
  BY <1>1, <1>2 DEF IsFlat

-----------------------------------------------------------------------------
(* What the operators of the rails make of lists.                            *)

\* A list without doubles that is extended by products of new titles has none, and
\* is still without the product it is for.
LEMMA FreshTitlesAreDistinct ==
    ASSUME NEW a \in Asins, NEW list \in Seq(Asins), NEW more \in Seq(Asins), NEW n \in Nat,
           Distinct(list), a \notin ToSet(list)
    PROVE  /\ FreshTitles(a, list, more, n) \in Seq(Asins)
           /\ Distinct(FreshTitles(a, list, more, n))
           /\ a \notin ToSet(FreshTitles(a, list, more, n))
<1> DEFINE titles == {TitleOf[b] : b \in {a} \cup ToSet(list)}
           fresh  == {i \in DOMAIN more :
                         /\ TitleOf[more[i]] \notin titles
                         /\ \A j \in 1..i - 1 : TitleOf[more[j]] # TitleOf[more[i]]}
           new == At(more, fresh)
<1>1. FreshTitles(a, list, more, n) = First(n, list \o new)
  BY DEF FreshTitles
<1>2. fresh \subseteq DOMAIN more /\ DOMAIN more = 1..Len(more) /\ Len(more) \in Nat
  OBVIOUS
<1>3. \A b \in {a} \cup ToSet(list) : TitleOf[b] \in titles
  OBVIOUS
<1>4. \A i \in fresh : more[i] # a /\ more[i] \notin ToSet(list)
  BY <1>3
<1>5. \A i, j \in fresh : i < j => more[i] # more[j]
  BY <1>2
<1> HIDE DEF fresh, titles
<1>6. /\ new \in Seq(Asins) /\ ToSet(new) = {more[i] : i \in fresh}
      /\ Distinct(new)
  BY <1>2, <1>5, AtSomePlaces
<1> HIDE DEF new
<1>7. a \notin ToSet(new) /\ ToSet(list) \cap ToSet(new) = {}
  BY <1>4, <1>6
<1>8. /\ list \o new \in Seq(Asins) /\ Distinct(list \o new)
      /\ ToSet(list \o new) = ToSet(list) \cup ToSet(new)
  BY <1>6, <1>7, ListsTogether
<1>9. /\ First(n, list \o new) \in Seq(Asins) /\ Distinct(First(n, list \o new))
      /\ ToSet(First(n, list \o new)) \subseteq ToSet(list \o new)
  BY <1>8, FirstOfList
<1>10. QED
  BY <1>1, <1>7, <1>8, <1>9

\* What is offered with a product is listed once, and is not the product.
ListedOnce(a, list) == list \in Seq(Asins) /\ Distinct(list) /\ a \notin ToSet(list)

\* So are the best candidates, whatever the ranking.
LEMMA BestAreDistinct ==
    ASSUME NEW a \in Asins, NEW ranked \in Seq(Asins)
    PROVE  ListedOnce(a, BestCandidates(a, ranked))
<1> DEFINE best == FreshTitles(a, <<>>, ranked, MAX_RECS)
           more == Fallbacks(a)
<1>1. ListedOnce(a, <<>>)
  BY DEF ListedOnce, Distinct, ToSet
<1>2. ListedOnce(a, best)
  <2>1. MAX_RECS \in Nat
    BY RailsAssumption
  <2>2. QED
    BY <1>1, <2>1, FreshTitlesAreDistinct DEF ListedOnce
<1>3. more \in Seq(Asins)
  <2>1. ASSUME NEW T \in SUBSET Asins
        PROVE  ByPopularity(T) \in Seq(Asins)
    <3>1. IsFiniteSet(T) /\ T \subseteq Nat
      BY FS_Subset, RailsAssumption
    <3>2. ByPopularity(T) \in Seq(T)
      BY <3>1, AscendingIsAll DEF ByPopularity
    <3>3. QED
      BY <3>2
  <2>2. /\ Category[a] \cap BestOfTitle(Asins) \in SUBSET Asins
        /\ BestOfTitle(Department[a]) \in SUBSET Asins
    BY RailsAssumption DEF BestOfTitle
  <2>3. /\ ByPopularity(Category[a] \cap BestOfTitle(Asins)) \in Seq(Asins)
        /\ ByPopularity(BestOfTitle(Department[a])) \in Seq(Asins)
    BY <2>1, <2>2
  <2>4. QED
    BY <2>3 DEF Fallbacks
<1> HIDE DEF best, more
<1>4. ListedOnce(a, FreshTitles(a, best, more, Enough))
  <2>1. Enough \in Nat
    BY RailsAssumption
  <2>2. QED
    BY <1>2, <1>3, <2>1, FreshTitlesAreDistinct DEF ListedOnce
<1>5. QED
  BY <1>2, <1>4 DEF BestCandidates, best, more

\* A list at the places whose products are in a set.
LEMMA OnlyThese ==
    ASSUME NEW V, NEW list \in Seq(V), NEW T
    PROVE  /\ Only(list, T) \in Seq(V)
           /\ ToSet(Only(list, T)) = ToSet(list) \cap T
           /\ Distinct(list) => Distinct(Only(list, T))
<1> DEFINE places == {i \in DOMAIN list : list[i] \in T}
<1>1. places \subseteq DOMAIN list /\ \A i \in places : list[i] \in T
  OBVIOUS
<1>2. {list[i] : i \in places} = ToSet(list) \cap T
  BY DEF ToSet
<1>3. Distinct(list) => \A i, j \in places : i < j => list[i] # list[j]
  BY DEF Distinct
<1> HIDE DEF places
<1>4. QED
  BY <1>1, <1>2, <1>3, AtSomePlaces DEF places, Only

\* The lists of the products viewed, together.
LEMMA TogetherIsList ==
    ASSUME \A a \in Asins : ListedOnce(a, recs[a]), NEW viewed \in Seq(Asins)
    PROVE  Together(viewed) \in Seq(Asins)
<1> DEFINE seqs == [i \in DOMAIN viewed |-> recs[viewed[i]]]
<1>1. DOMAIN viewed = 1..Len(viewed) /\ Len(viewed) \in Nat
      /\ \A i \in 1..Len(viewed) : viewed[i] \in Asins
  OBVIOUS
<1>2. \A i \in DOMAIN viewed : recs[viewed[i]] \in Seq(Asins)
  BY <1>1 DEF ListedOnce
<1>3. seqs \in Seq(Seq(Asins))
  <2>1. seqs \in [1..Len(viewed) -> Seq(Asins)]
    BY <1>1, <1>2
  <2>2. QED
    BY <1>1, <2>1
<1> HIDE DEF seqs
<1>4. QED
  BY <1>3, FlattenedIsList DEF Together, seqs

\* Without what was viewed, and each product once.
LEMMA MergedIsDistinct ==
    ASSUME \A a \in Asins : ListedOnce(a, recs[a]), NEW viewed \in Seq(Asins)
    PROVE  /\ Merged(viewed) \in Seq(Asins) /\ Distinct(Merged(viewed))
           /\ ToSet(Merged(viewed)) \cap ToSet(viewed) = {}
<1> DEFINE all   == Together(viewed)
           fresh == {i \in DOMAIN all : /\ all[i] \notin ToSet(viewed)
                                        /\ \A j \in 1..i - 1 : all[j] # all[i]}
           q == At(all, fresh)
<1>0. all \in Seq(Asins)
  BY TogetherIsList
<1>1. Merged(viewed) = First(3 * RailLimit, q)
  BY DEF Merged
<1> HIDE DEF all
<1>2. fresh \subseteq DOMAIN all /\ DOMAIN all = 1..Len(all) /\ Len(all) \in Nat
  BY <1>0
<1>3. \A i \in fresh : all[i] \notin ToSet(viewed)
  OBVIOUS
<1>4. \A i, j \in fresh : i < j => all[i] # all[j]
  BY <1>2
<1> HIDE DEF fresh
<1>5. q \in Seq(Asins) /\ ToSet(q) = {all[i] : i \in fresh} /\ Distinct(q)
  BY <1>0, <1>2, <1>4, AtSomePlaces
<1> HIDE DEF q
<1>6. ToSet(q) \cap ToSet(viewed) = {}
  BY <1>3, <1>5
<1>7. 3 * RailLimit \in Nat
  BY RailsAssumption
<1>8. /\ First(3 * RailLimit, q) \in Seq(Asins) /\ Distinct(First(3 * RailLimit, q))
      /\ ToSet(First(3 * RailLimit, q)) \subseteq ToSet(q)
  BY <1>5, <1>7, FirstOfList
<1>9. QED
  BY <1>1, <1>6, <1>8

\* The most popular of some products.
LEMMA MostPopular ==
    ASSUME NEW S \in SUBSET Asins, NEW n \in Nat
    PROVE  LET q == First(n, ByPopularity(S))
           IN  /\ IsFiniteSet(S) /\ Cardinality(S) \in Nat
               /\ q \in Seq(Asins) /\ Distinct(q) /\ ToSet(q) \subseteq S
               /\ Len(q) = IF n < Cardinality(S) THEN n ELSE Cardinality(S)
<1>1. IsFiniteSet(S) /\ S \subseteq Nat /\ Cardinality(S) \in Nat
  BY RailsAssumption, FS_Subset, FS_CardinalityType
<1> DEFINE all == ByPopularity(S)
<1>2. /\ all \in Seq(S) /\ Len(all) = Cardinality(S) /\ ToSet(all) = S
      /\ Distinct(all)
  BY <1>1, AscendingIsAll DEF ByPopularity
<1>3. all \in Seq(Asins)
  BY <1>2
<1> HIDE DEF all
<1>4. /\ First(n, all) \in Seq(Asins) /\ Distinct(First(n, all))
      /\ ToSet(First(n, all)) \subseteq ToSet(all)
      /\ Len(First(n, all)) = IF n < Len(all) THEN n ELSE Len(all)
  BY <1>2, <1>3, FirstOfList
<1>5. QED
  BY <1>1, <1>2, <1>4 DEF all

-----------------------------------------------------------------------------
(* The rails, for any catalog, any rankings, any lengths and any products   *)
(* that come and go: what is shown and what may yet be fetched are apart    *)
(* and listed once, and between them they are enough, as long as the        *)
(* catalog stands still.                                                    *)

RailSteps == {"none", "cold", "merges", "targets", "popular", "backfill", "fetch", "done"}
RailKinds == {"item", "session"}
RailStates == [pc : RailSteps, kind : RailKinds, of : Seq(Asins), cands : Seq(Asins),
               found : SUBSET Asins, items : Seq(Asins)]

RailsTyped ==
    /\ live \subseteq Asins /\ steady \in BOOLEAN
    /\ recs \in [Asins -> Seq(Asins)]
    /\ rail \in RailStates

\* The candidates and what is shown are listed once, and are not what the
\* shopper is at or was; of a catalog that stands still all that is shown is there.
ListsFit ==
    /\ Distinct(rail.cands) /\ ToSet(rail.cands) \cap ToSet(rail.of) = {}
    /\ Distinct(rail.items) /\ ToSet(rail.items) \cap ToSet(rail.of) = {}
    /\ Len(rail.items) <= RailLimit
    /\ steady => ToSet(rail.items) \subseteq live

\* As many as the rail takes, or as there are.
Suffices(n) == n >= RailLimit \/ n >= Cardinality(Supply)

\* What is yet to come.
Awaited == (ToSet(rail.cands) \ rail.found) \cap live

\* How far the rail is.
StepFits ==
    /\ rail.pc \in {"none", "cold", "merges", "targets"} => rail.items = <<>>
    /\ rail.pc \in {"cold", "merges", "backfill", "fetch"} => rail.kind = "session"
    /\ rail.pc = "cold" => rail.of = <<>>
    /\ rail.pc = "popular" => rail.kind = "item"
    /\ rail.pc # "none" /\ rail.kind = "item" => Len(rail.of) = 1
    /\ rail.pc \in {"backfill", "fetch"} =>
          /\ ToSet(rail.items) = rail.found /\ rail.found \subseteq ToSet(rail.cands)
          /\ Len(rail.items) < RailLimit
    /\ rail.pc = "backfill" /\ steady => rail.found = ToSet(rail.cands) \cap live
    /\ rail.pc = "fetch" /\ steady => Suffices(Len(rail.items) + Cardinality(Awaited))
    /\ rail.pc = "done" /\ steady => Suffices(Len(rail.items))

\* The inductive invariant.
RailsInv ==
    /\ RailsTyped
    /\ \A a \in Asins : ListedOnce(a, recs[a])
    /\ ListsFit
    /\ StepFits

\* Nothing is listed in an empty list.
LEMMA NothingListed ==
    /\ <<>> \in Seq(Asins) /\ Len(<<>>) = 0 /\ ToSet(<<>>) = {} /\ Distinct(<<>>)
    /\ \A a : ListedOnce(a, <<>>)
  BY DEF ToSet, Distinct, ListedOnce

\* A request with some of its fields replaced.
LEMMA RailReplaced ==
    ASSUME NEW P, NEW K, NEW L, NEW F,
           NEW r \in [pc : P, kind : K, of : L, cands : L, found : F, items : L],
           NEW x \in P, NEW k \in K, NEW o \in L, NEW c \in L, NEW f \in F, NEW i \in L
    PROVE  /\ LET q == [r EXCEPT !.pc = x, !.cands = c]
              IN  /\ q \in [pc : P, kind : K, of : L, cands : L, found : F, items : L]
                  /\ q.pc = x /\ q.kind = r.kind /\ q.of = r.of /\ q.cands = c
                  /\ q.found = r.found /\ q.items = r.items
           /\ LET q == [r EXCEPT !.pc = x, !.items = i]
              IN  /\ q \in [pc : P, kind : K, of : L, cands : L, found : F, items : L]
                  /\ q.pc = x /\ q.kind = r.kind /\ q.of = r.of /\ q.cands = r.cands
                  /\ q.found = r.found /\ q.items = i
           /\ LET q == [r EXCEPT !.found = f, !.items = i, !.pc = x]
              IN  /\ q \in [pc : P, kind : K, of : L, cands : L, found : F, items : L]
                  /\ q.pc = x /\ q.kind = r.kind /\ q.of = r.of /\ q.cands = r.cands
                  /\ q.found = f /\ q.items = i
           /\ LET q == [r EXCEPT !.pc = x, !.of = o, !.cands = c]
              IN  /\ q \in [pc : P, kind : K, of : L, cands : L, found : F, items : L]
                  /\ q.pc = x /\ q.kind = r.kind /\ q.of = o /\ q.cands = c
                  /\ q.found = r.found /\ q.items = r.items
           /\ LET q == [r EXCEPT !.kind = k, !.of = o, !.pc = x]
              IN  /\ q \in [pc : P, kind : K, of : L, cands : L, found : F, items : L]
                  /\ q.pc = x /\ q.kind = k /\ q.of = o /\ q.cands = r.cands
                  /\ q.found = r.found /\ q.items = r.items
  OBVIOUS

\* No request is one.
LEMMA NoRailIsState ==
    /\ NoRail \in RailStates
    /\ NoRail.pc = "none" /\ NoRail.kind = "item" /\ NoRail.of = <<>>
    /\ NoRail.cands = <<>> /\ NoRail.items = <<>>
  BY NothingListed DEF NoRail, RailStates, RailSteps, RailKinds

\* It holds when nothing was computed or asked for.
LEMMA InitRailsInv == InitRails => RailsInv
<1> SUFFICES ASSUME InitRails PROVE RailsInv
  OBVIOUS
<1>1. RailsTyped
  <2>1. live \subseteq Asins /\ steady \in BOOLEAN
    BY DEF InitRails
  <2>2. recs \in [Asins -> Seq(Asins)]
    BY NothingListed DEF InitRails
  <2>3. rail \in RailStates
    BY NoRailIsState DEF InitRails
  <2>4. QED
    BY <2>1, <2>2, <2>3 DEF RailsTyped
<1>2. \A a \in Asins : ListedOnce(a, recs[a])
  BY NothingListed DEF InitRails
<1>3. rail.pc = "none" /\ rail.of = <<>> /\ rail.cands = <<>> /\ rail.items = <<>>
  BY DEF InitRails, NoRail
<1>4. ListsFit
  BY <1>3, NothingListed, RailsAssumption DEF ListsFit
<1>5. StepFits
  BY <1>3 DEF StepFits
<1>6. QED
  BY <1>1, <1>2, <1>4, <1>5 DEF RailsInv

\* The lists of a request.
LEMMA RailHasLists ==
    ASSUME RailsInv
    PROVE  /\ rail \in RailStates /\ rail.of \in Seq(Asins) /\ rail.cands \in Seq(Asins)
           /\ rail.items \in Seq(Asins) /\ rail.found \subseteq Asins
           /\ RailLimit \in Nat /\ RailLimit > 0
           /\ rail.kind \in {"item", "session"}
<1>1. rail \in RailStates
  BY DEF RailsInv, RailsTyped
<1>2. QED
  BY <1>1, RailsAssumption DEF RailStates, RailKinds

\* A rail that ends or begins, whatever the catalog.
LEMMA RailsBegin ==
    ASSUME RailsInv, live' \subseteq Asins, recs' = recs, steady' \in BOOLEAN,
           NEW to \in RailStates,
           rail' = to, to.pc \in {"none", "cold", "merges", "targets"}, to.items = <<>>,
           Distinct(to.cands), ToSet(to.cands) \cap ToSet(to.of) = {},
           to.pc \in {"cold", "merges"} => to.kind = "session",
           to.pc = "cold" => to.of = <<>>,
           to.pc # "none" /\ to.kind = "item" => Len(to.of) = 1
    PROVE  RailsInv'
<1>1. RailsTyped'
  BY DEF RailsInv, RailsTyped
<1>2. (\A a \in Asins : ListedOnce(a, recs[a]))'
  BY DEF RailsInv
<1>3. ListsFit'
  BY NothingListed, RailsAssumption DEF ListsFit
<1>4. StepFits'
  BY DEF StepFits
<1>5. QED
  BY <1>1, <1>2, <1>3, <1>4 DEF RailsInv

\* Offline the lists are rewritten, one at a time.
LEMMA BuildKeeps ==
    ASSUME RailsInv, NEW a \in Asins, NEW ranked \in Candidates[a], BuildRecs(a, ranked)
    PROVE  RailsInv'
<1> DEFINE others == At(ranked, {i \in DOMAIN ranked : ranked[i] # a})
           best == BestCandidates(a, others)
<1>1. ListedOnce(a, best)
  <2>1. ranked \in Seq(Asins)
    BY RailsAssumption
  <2> DEFINE places == {i \in DOMAIN ranked : ranked[i] # a}
  <2>2. places \subseteq DOMAIN ranked
    OBVIOUS
  <2> HIDE DEF places
  <2>3. At(ranked, places) \in Seq(Asins)
    BY <2>1, <2>2, AtSomePlaces
  <2>4. QED
    BY <2>3, BestAreDistinct DEF places
<1>2. recs' = [recs EXCEPT ![a] = best]
  BY DEF BuildRecs
<1> HIDE DEF best
<1>3. UNCHANGED <<live, rail, steady>>
  BY DEF BuildRecs
<1>4. RailsTyped'
  <2>1. recs' \in [Asins -> Seq(Asins)]
    BY <1>1, <1>2 DEF RailsInv, RailsTyped, ListedOnce
  <2>2. QED
    BY <1>3, <2>1 DEF RailsInv, RailsTyped
<1>5. (\A b \in Asins : ListedOnce(b, recs[b]))'
  <2>1. \A b \in Asins : recs'[b] = IF b = a THEN best ELSE recs[b]
    BY <1>2 DEF RailsInv, RailsTyped
  <2>2. QED
    BY <1>1, <2>1 DEF RailsInv
<1>6. ListsFit'
  BY <1>3 DEF RailsInv, ListsFit
<1>7. StepFits'
  BY <1>3 DEF RailsInv, StepFits, Suffices, Supply, Awaited
<1>8. QED
  BY <1>4, <1>5, <1>6, <1>7 DEF RailsInv

\* Products come and go; a rail that is under way then is not of a catalog that
\* stands still.
LEMMA MovesKeep ==
    ASSUME RailsInv, NEW a \in Asins, CatalogMoves(a)
    PROVE  RailsInv'
<1>1. UNCHANGED <<recs, rail>> /\ steady' = (rail.pc = "none")
  BY DEF CatalogMoves
<1>2. live' \subseteq Asins
  BY DEF CatalogMoves, RailsInv, RailsTyped
<1>3. RailsTyped'
  BY <1>1, <1>2 DEF RailsInv, RailsTyped
<1>4. (\A b \in Asins : ListedOnce(b, recs[b]))'
  BY <1>1 DEF RailsInv
<1>5. ListsFit'
  <2>1. steady' => ToSet(rail.items) = {}
    BY <1>1, NothingListed DEF RailsInv, StepFits
  <2>2. QED
    BY <1>1, <2>1 DEF RailsInv, ListsFit
<1>6. StepFits'
  <2>1. rail' = rail /\ (steady' => rail.pc = "none")
    BY <1>1
  <2>2. QED
    BY <2>1 DEF RailsInv, StepFits
<1>7. QED
  BY <1>3, <1>4, <1>5, <1>6 DEF RailsInv

\* A rail of a product begins with its list.
LEMMA ItemRailKeeps ==
    ASSUME RailsInv, NEW a \in Asins, ItemRail(a)
    PROVE  RailsInv'
<1> DEFINE cands == First(RailLimit, recs[a])
           to == [NoRail EXCEPT !.pc = "targets", !.of = <<a>>, !.cands = cands]
<1>1. ListedOnce(a, recs[a])
  BY DEF RailsInv
<1>2. cands \in Seq(Asins) /\ Distinct(cands) /\ ToSet(cands) \subseteq ToSet(recs[a])
  <2>1. RailLimit \in Nat
    BY RailsAssumption
  <2>2. QED
    BY <1>1, <2>1, FirstOfList DEF ListedOnce
<1>3. rail' = to
  BY DEF ItemRail
<1> HIDE DEF cands
<1>4. <<a>> \in Seq(Asins) /\ Len(<<a>>) = 1 /\ ToSet(<<a>>) = {a}
  BY DEF ToSet
<1>5. "targets" \in RailSteps
  BY DEF RailSteps
<1>6. /\ to \in RailStates /\ to.pc = "targets" /\ to.kind = "item" /\ to.of = <<a>>
      /\ to.cands = cands /\ to.items = <<>>
  BY <1>2, <1>4, <1>5, NoRailIsState, RailReplaced DEF RailStates
<1> HIDE DEF to
<1>7. ToSet(to.cands) \cap ToSet(to.of) = {}
  BY <1>1, <1>2, <1>4, <1>6 DEF ListedOnce
<1>8. live' \subseteq Asins /\ recs' = recs /\ steady' \in BOOLEAN
  BY DEF ItemRail, RailsInv, RailsTyped
<1>9. QED
  BY <1>2, <1>3, <1>4, <1>5, <1>6, <1>7, <1>8, RailsBegin

\* A rail of what was viewed begins with nothing.
LEMMA SessionRailKeeps ==
    ASSUME RailsInv, NEW n \in 0..MaxViewed, NEW viewed \in [1..n -> Asins],
           SessionRail(viewed)
    PROVE  RailsInv'
<1> DEFINE pc == IF viewed = <<>> THEN "cold" ELSE "merges"
           to == [NoRail EXCEPT !.kind = "session", !.of = viewed, !.pc = pc]
<1>1. rail' = to
  BY DEF SessionRail
<1>2. pc \in {"cold", "merges"} /\ (pc = "cold" => viewed = <<>>)
  OBVIOUS
<1> HIDE DEF pc
<1>3. viewed \in Seq(Asins)
  BY RailsAssumption
<1>4. pc \in RailSteps /\ "session" \in RailKinds
  BY <1>2 DEF RailSteps, RailKinds
<1>5. /\ to \in RailStates /\ to.pc = pc /\ to.kind = "session" /\ to.of = viewed
      /\ to.cands = <<>> /\ to.items = <<>>
  BY <1>3, <1>4, NoRailIsState, RailReplaced DEF RailStates
<1> HIDE DEF to
<1>6. Distinct(to.cands) /\ ToSet(to.cands) \cap ToSet(to.of) = {}
  BY <1>5, NothingListed
<1>7. live' \subseteq Asins /\ recs' = recs /\ steady' \in BOOLEAN
  BY DEF SessionRail, RailsInv, RailsTyped
<1>8. QED
  BY <1>1, <1>2, <1>5, <1>6, <1>7, RailsBegin

\* The lists are merged.
LEMMA MergeKeeps ==
    ASSUME RailsInv, MergeLists
    PROVE  RailsInv'
<1> DEFINE cands == Merged(rail.of)
           to == [rail EXCEPT !.pc = "targets", !.cands = cands]
<1>1. rail' = to /\ UNCHANGED <<live, recs, steady>> /\ rail.pc = "merges"
  BY DEF MergeLists, RailStep
<1>2. /\ cands \in Seq(Asins) /\ Distinct(cands)
      /\ ToSet(cands) \cap ToSet(rail.of) = {}
  BY RailHasLists, MergedIsDistinct DEF RailsInv
<1> HIDE DEF cands
<1>3. "targets" \in RailSteps /\ rail \in RailStates
  BY DEF RailSteps, RailsInv, RailsTyped
<1>4. rail.kind = "session" /\ rail.items = <<>>
  BY <1>1 DEF RailsInv, StepFits
<1>5. /\ to \in RailStates /\ to.pc = "targets" /\ to.kind = rail.kind /\ to.of = rail.of
      /\ to.cands = cands /\ to.items = rail.items
  BY <1>2, <1>3, RailReplaced DEF RailStates
<1> HIDE DEF to
<1>6. live' \subseteq Asins /\ recs' = recs /\ steady' \in BOOLEAN
  BY <1>1 DEF RailsInv, RailsTyped
<1>7. QED
  BY <1>1, <1>2, <1>3, <1>4, <1>5, <1>6, RailsBegin

\* A rail that was answered is forgotten.
LEMMA AnswerKeeps ==
    ASSUME RailsInv, AnswerRail
    PROVE  RailsInv'
<1>1. rail' = NoRail /\ UNCHANGED <<live, recs, steady>>
  BY DEF AnswerRail, RailStep
<1>2. Distinct(NoRail.cands) /\ ToSet(NoRail.cands) \cap ToSet(NoRail.of) = {}
  BY NoRailIsState, NothingListed
<1>3. live' \subseteq Asins /\ recs' = recs /\ steady' \in BOOLEAN
  BY <1>1 DEF RailsInv, RailsTyped
<1>4. QED
  BY <1>1, <1>2, <1>3, NoRailIsState, RailsBegin

\* A rail that goes on, with what it shows by then.
LEMMA RailsGoOn ==
    ASSUME RailsInv, UNCHANGED <<live, recs, steady>>,
           NEW to \in RailStates, rail' = to, to.of = rail.of, to.kind = rail.kind,
           rail.pc # "none", Distinct(to.cands), ToSet(to.cands) \cap ToSet(to.of) = {},
           Distinct(to.items), ToSet(to.items) \cap ToSet(to.of) = {},
           Len(to.items) <= RailLimit, steady => ToSet(to.items) \subseteq live,
           to.pc \in {"done", "popular", "backfill", "fetch"},
           to.pc = "popular" => to.kind = "item",
           to.pc \in {"backfill", "fetch"} =>
              /\ to.kind = "session" /\ ToSet(to.items) = to.found
              /\ to.found \subseteq ToSet(to.cands) /\ Len(to.items) < RailLimit,
           to.pc = "backfill" /\ steady => to.found = ToSet(to.cands) \cap live,
           to.pc = "fetch" /\ steady =>
              Suffices(Len(to.items) + Cardinality((ToSet(to.cands) \ to.found) \cap live)),
           to.pc = "done" /\ steady => Suffices(Len(to.items))
    PROVE  RailsInv'
<1>1. RailsTyped'
  BY DEF RailsInv, RailsTyped
<1>2. (\A a \in Asins : ListedOnce(a, recs[a]))'
  BY DEF RailsInv
<1>3. ListsFit'
  BY DEF ListsFit
<1>4. Supply' = Supply
  BY DEF Supply
<1>5. Awaited' = (ToSet(to.cands) \ to.found) \cap live
  BY DEF Awaited
<1>6. to.kind = "item" => Len(to.of) = 1
  BY DEF RailsInv, StepFits
<1>7. StepFits'
  <2>1. to.pc \notin {"none", "cold", "merges", "targets"}
    OBVIOUS
  <2>2. \A n : Suffices(n)' <=> Suffices(n)
    BY <1>4 DEF Suffices
  <2>3. (to.pc = "fetch" /\ steady => Suffices(Len(to.items) + Cardinality(Awaited)))'
    BY <1>4, <1>5 DEF Suffices
  <2>4. (to.pc = "done" /\ steady => Suffices(Len(to.items)))'
    BY <1>4 DEF Suffices
  <2>5. QED
    BY <1>6, <2>1, <2>3, <2>4 DEF StepFits
<1>8. QED
  BY <1>1, <1>2, <1>3, <1>7 DEF RailsInv

\* What is in the shop is finite.
LEMMA LiveIsFinite ==
    ASSUME RailsInv
    PROVE  live \in SUBSET Asins /\ IsFiniteSet(live) /\ IsFiniteSet(Asins)
<1>1. live \in SUBSET Asins /\ IsFiniteSet(Asins)
  BY RailsAssumption DEF RailsInv, RailsTyped
<1>2. QED
  BY <1>1, FS_Subset

\* A rail of nothing is of what is popular.
LEMMA ColdKeeps ==
    ASSUME RailsInv, ColdRail
    PROVE  RailsInv'
<1> DEFINE items == First(RailLimit, ByPopularity(live))
           to == [rail EXCEPT !.pc = "done", !.items = items]
<1>1. rail' = to /\ UNCHANGED <<live, recs, steady>> /\ rail.pc = "cold"
  BY DEF ColdRail, RailStep
<1>2. rail.kind = "session" /\ rail.of = <<>> /\ Distinct(rail.cands)
  BY <1>1 DEF RailsInv, StepFits, ListsFit
<1>3. /\ Cardinality(live) \in Nat
      /\ items \in Seq(Asins) /\ Distinct(items) /\ ToSet(items) \subseteq live
      /\ Len(items) = IF RailLimit < Cardinality(live) THEN RailLimit ELSE Cardinality(live)
  BY LiveIsFinite, RailHasLists, MostPopular
<1> HIDE DEF items
<1>4. /\ to \in RailStates /\ to.pc = "done" /\ to.kind = rail.kind /\ to.of = rail.of
      /\ to.cands = rail.cands /\ to.items = items
  <2>1. "done" \in RailSteps
    BY DEF RailSteps
  <2>2. QED
    BY <1>3, <2>1, RailHasLists, RailReplaced DEF RailStates
<1> HIDE DEF to
<1>5. ToSet(to.of) = {}
  BY <1>2, <1>4, NothingListed
<1>6. Supply = live
  BY <1>2, NothingListed DEF Supply
<1>7. Len(items) <= RailLimit /\ Suffices(Len(items))
  BY <1>3, <1>6, RailHasLists DEF Suffices
<1>8. QED
  BY <1>1, <1>2, <1>3, <1>4, <1>5, <1>7, RailsGoOn

\* Of the candidates what is in the shop.
LEMMA TargetsKeep ==
    ASSUME RailsInv, FetchTargets
    PROVE  RailsInv'
<1> DEFINE found == ToSet(rail.cands) \cap live
           all   == Only(rail.cands, found)
           items == First(RailLimit, all)
           next  == IF Len(items) >= RailLimit THEN "done"
                    ELSE IF rail.kind = "item" THEN "popular" ELSE "backfill"
           to == [rail EXCEPT !.found = found, !.items = items, !.pc = next]
<1>1. rail' = to /\ UNCHANGED <<live, recs, steady>> /\ rail.pc = "targets"
  BY DEF FetchTargets, RailStep
<1>2. /\ rail.cands \in Seq(Asins) /\ Distinct(rail.cands) /\ rail.of \in Seq(Asins)
      /\ ToSet(rail.cands) \cap ToSet(rail.of) = {}
  BY RailHasLists DEF RailsInv, ListsFit
<1>3. found \in SUBSET Asins /\ found \subseteq ToSet(rail.cands) /\ found \subseteq live
  BY LiveIsFinite
<1>4. all \in Seq(Asins) /\ ToSet(all) = ToSet(rail.cands) \cap found /\ Distinct(all)
  <2> HIDE DEF found
  <2> QED
    BY <1>2, OnlyThese
<1>5. ToSet(all) = found
  BY <1>3, <1>4
<1> HIDE DEF all
<1>6. /\ items \in Seq(Asins) /\ Distinct(items) /\ ToSet(items) \subseteq found
      /\ Len(items) = IF RailLimit < Len(all) THEN RailLimit ELSE Len(all)
      /\ RailLimit >= Len(all) => items = all
  BY <1>4, <1>5, RailHasLists, FirstOfList
<1>7. Len(items) \in Nat /\ Len(all) \in Nat /\ RailLimit \in Nat
  BY <1>4, <1>6, RailHasLists
<1> HIDE DEF items
<1>8. \/ next = "done" /\ Len(items) >= RailLimit
      \/ next = "popular" /\ Len(items) < RailLimit /\ rail.kind = "item"
      \/ next = "backfill" /\ Len(items) < RailLimit /\ rail.kind = "session"
  BY <1>7, RailHasLists
<1> HIDE DEF next
<1>9. /\ to \in RailStates /\ to.pc = next /\ to.kind = rail.kind /\ to.of = rail.of
      /\ to.cands = rail.cands /\ to.items = items /\ to.found = found
  <2>1. next \in RailSteps
    BY <1>8 DEF RailSteps
  <2> HIDE DEF found
  <2>2. QED
    BY <1>3, <1>6, <2>1, RailHasLists, RailReplaced DEF RailStates
<1> HIDE DEF to
<1>10. Len(items) <= RailLimit /\ (Len(items) < RailLimit => ToSet(items) = found)
  BY <1>5, <1>6, <1>7
<1>11. next = "done" => Suffices(Len(items))
  BY <1>8 DEF Suffices
<1>12. found = ToSet(rail.cands) \cap live
  OBVIOUS
<1> HIDE DEF found
<1>13. QED
  BY <1>1, <1>2, <1>3, <1>6, <1>8, <1>9, <1>10, <1>11, <1>12, RailsGoOn

\* A rail of a product is filled up with its shelf.
LEMMA FillKeeps ==
    ASSUME RailsInv, FillItemRail
    PROVE  RailsInv'
<1> DEFINE a     == rail.of[1]
           S     == (Shelf(a) \cap live) \ {a}
           shelf == First(RailLimit, ByPopularity(S))
           fresh == At(shelf, {i \in DOMAIN shelf : shelf[i] \notin ToSet(rail.items)})
           all   == rail.items \o fresh
           items == First(RailLimit, all)
           to == [rail EXCEPT !.pc = "done", !.items = items]
<1>1. rail' = to /\ UNCHANGED <<live, recs, steady>> /\ rail.pc = "popular"
  BY DEF FillItemRail, RailStep
<1>2. rail.kind = "item" /\ Len(rail.of) = 1 /\ rail.of \in Seq(Asins)
  BY <1>1, RailHasLists DEF RailsInv, StepFits
<1>3. a \in Asins /\ ToSet(rail.of) = {a}
  BY <1>2 DEF ToSet
<1>4. S \in SUBSET Asins /\ S \subseteq live /\ a \notin S
  BY LiveIsFinite
<1>5. Supply = S
  BY <1>2 DEF Supply
<1> HIDE DEF S, a
<1>6. /\ Cardinality(S) \in Nat
      /\ shelf \in Seq(Asins) /\ Distinct(shelf) /\ ToSet(shelf) \subseteq S
      /\ Len(shelf) = IF RailLimit < Cardinality(S) THEN RailLimit ELSE Cardinality(S)
  BY <1>4, RailHasLists, MostPopular
<1> HIDE DEF shelf
<1>7. /\ fresh \in Seq(Asins) /\ Distinct(fresh)
      /\ ToSet(fresh) = ToSet(shelf) \ ToSet(rail.items)
  <2> DEFINE T == ToSet(shelf) \ ToSet(rail.items)
  <2>1. {i \in DOMAIN shelf : shelf[i] \notin ToSet(rail.items)}
            = {i \in DOMAIN shelf : shelf[i] \in T}
    BY DEF ToSet
  <2> HIDE DEF T
  <2>2. /\ Only(shelf, T) \in Seq(Asins) /\ Distinct(Only(shelf, T))
        /\ ToSet(Only(shelf, T)) = ToSet(shelf) \cap T
    BY <1>6, OnlyThese
  <2>3. ToSet(shelf) \cap T = ToSet(shelf) \ ToSet(rail.items)
    BY DEF T
  <2>4. fresh = Only(shelf, T)
    BY <2>1 DEF Only
  <2> HIDE DEF fresh
  <2>5. QED
    BY <2>2, <2>3, <2>4
<1> HIDE DEF fresh
<1>8. /\ rail.items \in Seq(Asins) /\ Distinct(rail.items)
      /\ ToSet(rail.items) \cap ToSet(rail.of) = {}
      /\ steady => ToSet(rail.items) \subseteq live
      /\ Distinct(rail.cands) /\ ToSet(rail.cands) \cap ToSet(rail.of) = {}
  BY RailHasLists DEF RailsInv, ListsFit
<1>9. /\ all \in Seq(Asins) /\ Distinct(all)
      /\ ToSet(all) = ToSet(rail.items) \cup ToSet(fresh)
  <2>1. ToSet(rail.items) \cap ToSet(fresh) = {}
    BY <1>7
  <2>2. QED
    BY <1>7, <1>8, <2>1, ListsTogether
<1> HIDE DEF all
<1>10. ToSet(all) \cap ToSet(rail.of) = {} /\ (steady => ToSet(all) \subseteq live)
  BY <1>3, <1>4, <1>6, <1>7, <1>8, <1>9
<1>11. Len(all) >= Len(shelf)
  <2>1. ToSet(shelf) \in SUBSET ToSet(all)
    BY <1>7, <1>9
  <2>2. IsFiniteSet(ToSet(all)) /\ Cardinality(ToSet(all)) = Len(all)
        /\ Cardinality(ToSet(shelf)) = Len(shelf)
    BY <1>6, <1>9, LengthOfDistinct
  <2>3. Cardinality(ToSet(shelf)) <= Cardinality(ToSet(all))
    BY <2>1, <2>2, FS_Subset
  <2>4. Len(all) \in Nat /\ Len(shelf) \in Nat
    BY <1>6, <1>9
  <2>5. QED
    BY <2>2, <2>3, <2>4
<1>12. /\ items \in Seq(Asins) /\ Distinct(items) /\ ToSet(items) \subseteq ToSet(all)
       /\ Len(items) = IF RailLimit < Len(all) THEN RailLimit ELSE Len(all)
  BY <1>9, RailHasLists, FirstOfList
<1> HIDE DEF items
<1>13. Len(items) <= RailLimit /\ Suffices(Len(items))
  <2>1. Len(items) \in Nat /\ Len(all) \in Nat /\ Len(shelf) \in Nat /\ RailLimit \in Nat
    BY <1>6, <1>9, <1>12, RailHasLists
  <2>2. QED
    BY <1>5, <1>6, <1>11, <1>12, <2>1 DEF Suffices
<1>14. /\ to \in RailStates /\ to.pc = "done" /\ to.kind = rail.kind /\ to.of = rail.of
       /\ to.cands = rail.cands /\ to.items = items
  <2>1. "done" \in RailSteps
    BY DEF RailSteps
  <2>2. QED
    BY <1>12, <2>1, RailHasLists, RailReplaced DEF RailStates
<1> HIDE DEF to
<1>15. ToSet(items) \cap ToSet(rail.of) = {} /\ (steady => ToSet(items) \subseteq live)
  BY <1>10, <1>12
<1>16. QED
  BY <1>1, <1>8, <1>12, <1>13, <1>14, <1>15, RailsGoOn

\* A rail of what was viewed is to be filled up with what is popular: there are
\* as many to come as it lacks, or all there are.
LEMMA ChooseKeeps ==
    ASSUME RailsInv, ChooseBackfill
    PROVE  RailsInv'
<1> DEFINE k     == RailLimit - Len(rail.items)
           S     == live \ Excluded
           more  == First(k, ByPopularity(S))
           cands == rail.cands \o more
           to == [rail EXCEPT !.pc = "fetch", !.cands = cands]
<1>1. rail' = to /\ UNCHANGED <<live, recs, steady>> /\ rail.pc = "backfill"
  BY DEF ChooseBackfill, RailStep
<1>2. /\ rail.kind = "session" /\ ToSet(rail.items) = rail.found
      /\ rail.found \subseteq ToSet(rail.cands) /\ Len(rail.items) < RailLimit
      /\ steady => rail.found = ToSet(rail.cands) \cap live
  BY <1>1 DEF RailsInv, StepFits
<1>3. /\ rail.items \in Seq(Asins) /\ rail.cands \in Seq(Asins) /\ rail.of \in Seq(Asins)
      /\ Distinct(rail.items) /\ Distinct(rail.cands)
      /\ ToSet(rail.items) \cap ToSet(rail.of) = {}
      /\ ToSet(rail.cands) \cap ToSet(rail.of) = {}
      /\ Len(rail.items) <= RailLimit
      /\ steady => ToSet(rail.items) \subseteq live
  BY RailHasLists DEF RailsInv, ListsFit
<1>4. k \in Nat /\ Len(rail.items) \in Nat /\ RailLimit \in Nat
      /\ Len(rail.items) + k = RailLimit
  BY <1>2, <1>3, RailHasLists
<1>5. S \in SUBSET Asins /\ S \subseteq live
      /\ S \cap ToSet(rail.of) = {} /\ S \cap ToSet(rail.cands) = {}
  BY LiveIsFinite DEF Excluded
<1>6. live \ ToSet(rail.of) = S \cup ((ToSet(rail.cands) \cap live) \ ToSet(rail.of))
  BY DEF Excluded
<1> HIDE DEF S, k
<1>7. /\ IsFiniteSet(S) /\ Cardinality(S) \in Nat
      /\ more \in Seq(Asins) /\ Distinct(more) /\ ToSet(more) \subseteq S
      /\ Len(more) = IF k < Cardinality(S) THEN k ELSE Cardinality(S)
  BY <1>4, <1>5, MostPopular
<1> HIDE DEF more
<1>8. /\ cands \in Seq(Asins) /\ Distinct(cands)
      /\ ToSet(cands) = ToSet(rail.cands) \cup ToSet(more)
  <2>1. ToSet(rail.cands) \cap ToSet(more) = {}
    BY <1>5, <1>7
  <2>2. QED
    BY <1>3, <1>7, <2>1, ListsTogether
<1> HIDE DEF cands
<1>9. ToSet(cands) \cap ToSet(rail.of) = {} /\ rail.found \subseteq ToSet(cands)
  BY <1>2, <1>3, <1>5, <1>7, <1>8
<1>10. ASSUME steady
       PROVE  Suffices(Len(rail.items)
                         + Cardinality((ToSet(cands) \ rail.found) \cap live))
  <2>1. (ToSet(cands) \ rail.found) \cap live = ToSet(more)
    BY <1>2, <1>5, <1>7, <1>8, <1>10
  <2>2. Cardinality(ToSet(more)) = Len(more)
    BY <1>7, LengthOfDistinct
  <2>3. Supply = S \cup ToSet(rail.items)
    <3>1. Supply = live \ ToSet(rail.of)
      BY <1>2 DEF Supply
    <3>2. QED
      BY <1>2, <1>3, <1>6, <1>10, <3>1
  <2>4. IsFiniteSet(ToSet(rail.items)) /\ Cardinality(ToSet(rail.items)) = Len(rail.items)
    BY <1>3, LengthOfDistinct
  <2>5. Cardinality(Supply) <= Cardinality(S) + Len(rail.items)
    <3>1. Cardinality(S \cup ToSet(rail.items))
            = Cardinality(S) + Cardinality(ToSet(rail.items))
                - Cardinality(S \cap ToSet(rail.items))
      BY <1>7, <2>4, FS_Union
    <3>2. IsFiniteSet(S \cap ToSet(rail.items))
      <4>1. S \cap ToSet(rail.items) \in SUBSET S
        OBVIOUS
      <4>2. QED
        BY <1>7, <4>1, FS_Subset
    <3>3. Cardinality(S \cap ToSet(rail.items)) \in Nat
      BY <3>2, FS_CardinalityType
    <3>4. QED
      BY <1>4, <1>7, <2>3, <2>4, <3>1, <3>3
  <2>6. Cardinality(Supply) \in Nat
    <3>1. Supply \in SUBSET Asins
      BY <1>3, <1>5, <2>3 DEF ToSet
    <3>2. QED
      BY <3>1, LiveIsFinite, FS_Subset, FS_CardinalityType
  <2>7. Len(more) = k \/ Len(more) = Cardinality(S)
    BY <1>7
  <2>8. Suffices(Len(rail.items) + Len(more))
    BY <1>4, <1>7, <2>5, <2>6, <2>7 DEF Suffices
  <2>9. QED
    BY <2>1, <2>2, <2>8
<1>11. /\ to \in RailStates /\ to.pc = "fetch" /\ to.kind = rail.kind /\ to.of = rail.of
       /\ to.cands = cands /\ to.items = rail.items /\ to.found = rail.found
  <2>1. "fetch" \in RailSteps
    BY DEF RailSteps
  <2>2. QED
    BY <1>8, <2>1, RailHasLists, RailReplaced DEF RailStates
<1> HIDE DEF to
<1>12. QED
  BY <1>1, <1>2, <1>3, <1>8, <1>9, <1>10, <1>11, RailsGoOn

\* They come, whatever their order and whichever are there by then.
LEMMA BackfillKeeps ==
    ASSUME RailsInv, FetchBackfill
    PROVE  RailsInv'
<1> DEFINE back == Awaited
<1>1. /\ UNCHANGED <<live, recs, steady>> /\ rail.pc = "fetch"
      /\ \E rows \in Injection(1..Cardinality(back), back) :
            rail' = [rail EXCEPT !.pc = "done", !.items = First(RailLimit, rail.items \o rows)]
  BY DEF FetchBackfill, RailStep, Awaited
<1>2. PICK rows \in Injection(1..Cardinality(back), back) :
            rail' = [rail EXCEPT !.pc = "done", !.items = First(RailLimit, rail.items \o rows)]
  BY <1>1
<1> DEFINE all   == rail.items \o rows
           items == First(RailLimit, all)
           to == [rail EXCEPT !.pc = "done", !.items = items]
<1>3. rail' = to
  BY <1>2
<1>4. /\ ToSet(rail.items) = rail.found /\ rail.found \subseteq ToSet(rail.cands)
      /\ steady => Suffices(Len(rail.items) + Cardinality(back))
  BY <1>1 DEF RailsInv, StepFits
<1>5. /\ rail.items \in Seq(Asins) /\ rail.cands \in Seq(Asins) /\ rail.of \in Seq(Asins)
      /\ Distinct(rail.items) /\ Distinct(rail.cands)
      /\ ToSet(rail.items) \cap ToSet(rail.of) = {}
      /\ ToSet(rail.cands) \cap ToSet(rail.of) = {}
      /\ steady => ToSet(rail.items) \subseteq live
  BY RailHasLists DEF RailsInv, ListsFit
<1>6. /\ back \in SUBSET Asins /\ back \subseteq live /\ back \cap rail.found = {}
      /\ back \subseteq ToSet(rail.cands)
  BY LiveIsFinite DEF Awaited
<1>7. IsFiniteSet(back) /\ Cardinality(back) \in Nat
  BY <1>6, LiveIsFinite, FS_Subset, FS_CardinalityType
<1> HIDE DEF back
<1>8. /\ rows \in Seq(Asins) /\ Distinct(rows) /\ ToSet(rows) \subseteq back
      /\ Len(rows) = Cardinality(back)
  <2>1. /\ rows \in [1..Cardinality(back) -> back]
        /\ \A i, j \in 1..Cardinality(back) : rows[i] = rows[j] => i = j
    BY <1>2 DEF Injection, IsInjective
  <2>2. rows \in [1..Cardinality(back) -> Asins]
    BY <1>6, <2>1
  <2>3. rows \in Seq(Asins) /\ Len(rows) = Cardinality(back)
    BY <1>7, <2>2
  <2>4. DOMAIN rows = 1..Cardinality(back)
    BY <2>1
  <2>5. Distinct(rows)
    BY <1>7, <2>1, <2>4 DEF Distinct
  <2>6. ToSet(rows) \subseteq back
    BY <2>1, <2>4 DEF ToSet
  <2>7. QED
    BY <2>3, <2>5, <2>6
<1>9. /\ all \in Seq(Asins) /\ Distinct(all) /\ Len(all) = Len(rail.items) + Cardinality(back)
      /\ ToSet(all) = ToSet(rail.items) \cup ToSet(rows)
  <2>1. ToSet(rail.items) \cap ToSet(rows) = {}
    BY <1>4, <1>6, <1>8
  <2>2. /\ rail.items \o rows \in Seq(Asins) /\ Distinct(rail.items \o rows)
        /\ Len(rail.items \o rows) = Len(rail.items) + Len(rows)
        /\ ToSet(rail.items \o rows) = ToSet(rail.items) \cup ToSet(rows)
    <3> HIDE DEF items, to, all
    <3>1. rail.items \in Seq(Asins) /\ rows \in Seq(Asins)
      BY <1>5, <1>8
    <3>2. /\ rail.items \o rows \in Seq(Asins)
          /\ Len(rail.items \o rows) = Len(rail.items) + Len(rows)
          /\ ToSet(rail.items \o rows) = ToSet(rail.items) \cup ToSet(rows)
      BY <3>1, ListsTogether
    <3>3. Distinct(rail.items) /\ Distinct(rows)
      BY <1>5, <1>8
    <3>4. Distinct(rail.items \o rows)
      BY <2>1, <3>1, <3>3, ListsTogether
    <3>5. QED
      BY <3>2, <3>4
  <2>3. QED
    BY <1>8, <2>2
<1> HIDE DEF all
<1>10. ToSet(all) \cap ToSet(rail.of) = {} /\ (steady => ToSet(all) \subseteq live)
  BY <1>4, <1>5, <1>6, <1>8, <1>9
<1>11. /\ items \in Seq(Asins) /\ Distinct(items) /\ ToSet(items) \subseteq ToSet(all)
       /\ Len(items) = IF RailLimit < Len(all) THEN RailLimit ELSE Len(all)
  BY <1>9, RailHasLists, FirstOfList
<1> HIDE DEF items
<1>12. Len(items) <= RailLimit /\ (steady => Suffices(Len(items)))
  <2>1. Len(items) \in Nat /\ Len(all) \in Nat /\ RailLimit \in Nat
    BY <1>9, <1>11, RailHasLists
  <2>2. QED
    BY <1>4, <1>9, <1>11, <2>1 DEF Suffices
<1>13. /\ to \in RailStates /\ to.pc = "done" /\ to.kind = rail.kind /\ to.of = rail.of
       /\ to.cands = rail.cands /\ to.items = items
  <2>1. "done" \in RailSteps
    BY DEF RailSteps
  <2>2. QED
    BY <1>11, <2>1, RailHasLists, RailReplaced DEF RailStates
<1> HIDE DEF to
<1>14. ToSet(items) \cap ToSet(rail.of) = {} /\ (steady => ToSet(items) \subseteq live)
  BY <1>10, <1>11
<1>15. QED
  BY <1>1, <1>3, <1>5, <1>11, <1>12, <1>13, <1>14, RailsGoOn

\* Every step keeps it.
LEMMA NextRailsInv == RailsInv /\ [NextRails]_railVars => RailsInv'
<1> SUFFICES ASSUME RailsInv, [NextRails]_railVars PROVE RailsInv'
  OBVIOUS
<1>1. ASSUME NEW a \in Asins, NEW ranked \in Candidates[a], BuildRecs(a, ranked)
      PROVE  RailsInv'
  BY <1>1, BuildKeeps
<1>2. ASSUME NEW a \in Asins, CatalogMoves(a)
      PROVE  RailsInv'
  BY <1>2, MovesKeep
<1>3. ASSUME NEW a \in Asins, ItemRail(a)
      PROVE  RailsInv'
  BY <1>3, ItemRailKeeps
<1>4. ASSUME NEW n \in 0..MaxViewed, NEW viewed \in [1..n -> Asins], SessionRail(viewed)
      PROVE  RailsInv'
  BY <1>4, SessionRailKeeps
<1>5. CASE ColdRail
  BY <1>5, ColdKeeps
<1>6. CASE MergeLists
  BY <1>6, MergeKeeps
<1>7. CASE FetchTargets
  BY <1>7, TargetsKeep
<1>8. CASE FillItemRail
  BY <1>8, FillKeeps
<1>9. CASE ChooseBackfill
  BY <1>9, ChooseKeeps
<1>10. CASE FetchBackfill
  BY <1>10, BackfillKeeps
<1>11. CASE AnswerRail
  BY <1>11, AnswerKeeps
<1>12. CASE UNCHANGED railVars
  <2>1. UNCHANGED <<live, recs, rail, steady>>
    BY <1>12 DEF railVars
  <2>2. Supply' = Supply /\ Awaited' = Awaited
    BY <2>1 DEF Supply, Awaited
  <2>3. RailsTyped' /\ (\A a \in Asins : ListedOnce(a, recs[a]))' /\ ListsFit'
    BY <2>1 DEF RailsInv, RailsTyped, ListsFit
  <2>4. StepFits'
    BY <2>1, <2>2 DEF RailsInv, StepFits, Suffices
  <2>5. QED
    BY <2>3, <2>4 DEF RailsInv
<1>13. QED
  BY <1>1, <1>2, <1>3, <1>4, <1>5, <1>6, <1>7, <1>8, <1>9, <1>10, <1>11, <1>12
     DEF NextRails

\* A rail shows no product twice, none the shopper is at or was, and, unless
\* products came or went while it was put together, only what the shop has, and
\* as many as it takes or as there are.
THEOREM RailsAreSound == SpecRails => []RailIsSound
<1>1. RailsInv => RailIsSound
  <2> SUFFICES ASSUME RailsInv, rail.pc = "done" PROVE RailIsSound
    BY DEF RailIsSound
  <2>1. /\ Distinct(rail.items) /\ ToSet(rail.items) \cap ToSet(rail.of) = {}
        /\ Len(rail.items) <= RailLimit
        /\ steady => ToSet(rail.items) \subseteq live
        /\ steady => Suffices(Len(rail.items))
    BY DEF RailsInv, ListsFit, StepFits
  <2>2. Cardinality(Supply) \in Nat
    <3>1. Supply \in SUBSET live
      BY DEF Supply
    <3>2. QED
      BY <3>1, LiveIsFinite, FS_Subset, FS_CardinalityType
  <2>3. RailLimit \in Nat /\ Len(rail.items) \in Nat
    BY RailHasLists
  <2>4. /\ Min({RailLimit, Cardinality(Supply)}) <= RailLimit
        /\ Min({RailLimit, Cardinality(Supply)}) <= Cardinality(Supply)
        /\ Min({RailLimit, Cardinality(Supply)}) \in Nat
    <3> DEFINE u == {RailLimit, Cardinality(Supply)}
    <3>1. \A x, y \in Nat : \E z \in {x, y} : \A w \in {x, y} : z <= w
      OBVIOUS
    <3>2. \E z \in u : \A w \in u : z <= w
      BY <2>2, <2>3, <3>1
    <3>3. Min(u) \in u /\ \A w \in u : Min(u) <= w
      BY <3>2 DEF Min
    <3>4. QED
      BY <2>2, <2>3, <3>3
  <2>5. steady => Len(rail.items) >= Min({RailLimit, Cardinality(Supply)})
    BY <2>1, <2>2, <2>3, <2>4 DEF Suffices
  <2>6. QED
    BY <2>1, <2>5 DEF RailIsSound, Distinct
<1>2. QED
  BY <1>1, InitRailsInv, NextRailsInv, PTL DEF SpecRails

-----------------------------------------------------------------------------
(* The size advised.                                                        *)

\* A chart of five ranges, one after the other, with or without a gap.
FiveRanges(rows) ==
    /\ DOMAIN rows = 1..5
    /\ \A i \in 1..5 : /\ rows[i][1] \in Nat /\ rows[i][2] \in Nat
                       /\ rows[i][1] <= rows[i][2]
    /\ \A i \in 1..4 : rows[i][2] < rows[i + 1][1]

\* A value between two of them.
BetweenRanges(rows, v) == \E i \in 1..4 : rows[i][2] < v /\ v < rows[i + 1][1]

\* The row of a value on such a chart is the one whose range has it.
LEMMA RowIsOfValue ==
    ASSUME NEW rows, FiveRanges(rows), NEW v \in Nat
    PROVE  \/ RowOf(rows, v) \in 1..5 /\ In(v, rows[RowOf(rows, v)])
           \/ RowOf(rows, v) = 0 /\ \A i \in 1..5 : ~In(v, rows[i])
<1> DEFINE hit == {i \in 1..5 : In(v, rows[i])}
<1>1. hit \subseteq 1..5
  OBVIOUS
<1>2. hit # {} => Min(hit) \in hit
  BY <1>1, Least
<1>3. RowOf(rows, v) = IF hit = {} THEN 0 ELSE Min(hit)
  BY DEF RowOf, FiveRanges
<1>4. QED
  BY <1>1, <1>2, <1>3

\* A larger value has no earlier row; it has none past the last range or between two.
LEMMA RowGrows ==
    ASSUME NEW rows, FiveRanges(rows), NEW v \in Nat, NEW w \in Nat, v <= w,
           RowOf(rows, v) # 0
    PROVE  /\ RowOf(rows, v) \in 1..5
           /\ \/ RowOf(rows, w) \in 1..5 /\ RowOf(rows, v) <= RowOf(rows, w)
              \/ RowOf(rows, w) = 0 /\ (w > rows[5][2] \/ BetweenRanges(rows, w))
<1>1. RowOf(rows, v) \in 1..5 /\ In(v, rows[RowOf(rows, v)])
  BY RowIsOfValue
<1>2. CASE RowOf(rows, w) = 0
  <2>1. \A i \in 1..5 : ~In(w, rows[i])
    BY <1>2, RowIsOfValue
  <2>2. rows[1][1] <= v
    BY <1>1 DEF In, FiveRanges
  <2>3. \A i \in 1..5 : w < rows[i][1] \/ rows[i][2] < w
    BY <2>1 DEF In, FiveRanges
  <2>4. rows[1][2] < w
    BY <2>2, <2>3 DEF FiveRanges
  <2>5. CASE ~BetweenRanges(rows, w)
    <3>1. \A i \in 1..4 : rows[i][2] < w => rows[i + 1][2] < w
      BY <2>3, <2>5 DEF BetweenRanges
    <3>2. rows[1][2] < w => rows[2][2] < w
      BY <3>1
    <3>3. rows[2][2] < w => rows[3][2] < w
      BY <3>1
    <3>4. rows[3][2] < w => rows[4][2] < w
      BY <3>1
    <3>5. rows[4][2] < w => rows[5][2] < w
      BY <3>1
    <3>6. QED
      BY <1>1, <1>2, <2>4, <3>2, <3>3, <3>4, <3>5 DEF FiveRanges
  <2>6. QED
    BY <1>1, <1>2, <2>5
<1>3. CASE RowOf(rows, w) # 0
  <2>1. RowOf(rows, w) \in 1..5 /\ In(w, rows[RowOf(rows, w)])
    BY <1>3, RowIsOfValue
  <2>2. \A i, j \in 1..5 : i < j => rows[i][2] < rows[j][1]
    <3>1. /\ rows[1][2] < rows[2][1] /\ rows[2][2] < rows[3][1]
          /\ rows[3][2] < rows[4][1] /\ rows[4][2] < rows[5][1]
      BY DEF FiveRanges
    <3>2. \A i \in 1..5 : /\ rows[i][1] \in Nat /\ rows[i][2] \in Nat
                          /\ rows[i][1] <= rows[i][2]
      BY DEF FiveRanges
    <3>3. QED
      BY <3>1, <3>2
  <2>3. RowOf(rows, v) <= RowOf(rows, w)
    BY <1>1, <2>1, <2>2 DEF In, FiveRanges
  <2>4. QED
    BY <1>1, <2>1, <2>3
<1>4. QED
  BY <1>2, <1>3

\* Rows of one number each, in order.
InOrder(rows, n) ==
    /\ n \in Nat \ {0} /\ DOMAIN rows = 1..n
    /\ \A i \in 1..n : rows[i] \in Nat
    /\ \A i, j \in 1..n : i < j => rows[i] < rows[j]

\* The nearest row is as near as any, and nearer than any before it.
LEMMA NearestIsNear ==
    ASSUME NEW rows, NEW n, InOrder(rows, n), NEW v \in Nat
    PROVE  /\ Nearest(rows, v) \in 1..n
           /\ \A j \in 1..n : Gap(rows[Nearest(rows, v)], v) <= Gap(rows[j], v)
           /\ \A j \in 1..n : j < Nearest(rows, v) =>
                 Gap(rows[Nearest(rows, v)], v) < Gap(rows[j], v)
<1> DEFINE near == {i \in 1..n : \A j \in 1..n : Gap(rows[i], v) <= Gap(rows[j], v)}
           T == {Gap(rows[i], v) : i \in 1..n}
<1>1. \A i \in 1..n : Gap(rows[i], v) \in Nat
  BY DEF InOrder, Gap
<1>2. T \in SUBSET Nat /\ T # {}
  <2>1. Gap(rows[1], v) \in T
    BY DEF InOrder
  <2>2. QED
    BY <1>1, <2>1
<1>3. PICK g \in T : \A h \in T : <<h, g>> \notin OpToRel(<, Nat)
  BY <1>2, NatLessThanWellFounded, WFMin
<1>4. \A h \in T : g <= h
  <2>1. \A h \in T : ~(h < g)
    BY <1>2, <1>3 DEF OpToRel
  <2>2. QED
    BY <1>2, <2>1
<1>5. PICK i \in 1..n : g = Gap(rows[i], v)
  OBVIOUS
<1>6. i \in near
  BY <1>4, <1>5
<1>7. n \in Nat /\ near \subseteq 1..n /\ near # {}
  BY <1>6 DEF InOrder
<1>8. Nearest(rows, v) = Min(near)
  BY DEF Nearest, InOrder
<1>9. Nearest(rows, v) \in near /\ \A y \in near : Nearest(rows, v) <= y
  BY <1>7, <1>8, Least
<1>10. ASSUME NEW j \in 1..n, j < Nearest(rows, v)
       PROVE  Gap(rows[Nearest(rows, v)], v) < Gap(rows[j], v)
  <2>1. j \notin near
    BY <1>9, <1>10, <1>7
  <2>2. PICK k \in 1..n : ~(Gap(rows[j], v) <= Gap(rows[k], v))
    BY <2>1
  <2>3. QED
    BY <2>2, <1>1, <1>9
<1>11. QED
  BY <1>9, <1>10

\* A larger value has no earlier nearest row.
LEMMA NearestGrows ==
    ASSUME NEW rows, NEW n, InOrder(rows, n), NEW v \in Nat, NEW w \in Nat, v <= w
    PROVE  Nearest(rows, v) <= Nearest(rows, w)
<1> DEFINE i == Nearest(rows, v)
           j == Nearest(rows, w)
<1> HIDE DEF i, j
<1>1. /\ i \in 1..n /\ j \in 1..n /\ n \in Nat
      /\ \A k \in 1..n : k < i => Gap(rows[i], v) < Gap(rows[k], v)
      /\ \A k \in 1..n : Gap(rows[j], w) <= Gap(rows[k], w)
  BY NearestIsNear DEF i, j, InOrder
<1>2. SUFFICES ASSUME j < i PROVE FALSE
  BY <1>1 DEF i, j
<1>3. Gap(rows[i], v) < Gap(rows[j], v) /\ Gap(rows[j], w) <= Gap(rows[i], w)
  BY <1>1, <1>2
<1>4. rows[j] < rows[i] /\ rows[i] \in Nat /\ rows[j] \in Nat
  BY <1>1, <1>2 DEF InOrder
<1>5. QED
  BY <1>3, <1>4 DEF Gap

\* The charts are of this form.
LEMMA ChartsAreRanges ==
    ASSUME NEW kind, NEW gender, NEW m \in {"height", "weight"}
    PROVE  LET rows == Bands(kind, gender)
           IN  /\ DOMAIN rows = 1..5
               /\ FiveRanges([i \in DOMAIN rows |-> rows[i][m]])
<1>1. \A rows \in {MenTops, WomenRows, MenBottoms} :
         /\ DOMAIN rows = 1..5
         /\ FiveRanges([i \in DOMAIN rows |-> rows[i][m]])
  <2>1. CASE m = "height"
    BY <2>1 DEF MenTops, WomenRows, MenBottoms, Band, FiveRanges
  <2>2. CASE m = "weight"
    BY <2>2 DEF MenTops, WomenRows, MenBottoms, Band, FiveRanges
  <2>3. QED
    BY <2>1, <2>2
<1>2. Bands(kind, gender) \in {MenTops, WomenRows, MenBottoms}
  BY DEF Bands
<1>3. QED
  BY <1>1, <1>2

LEMMA WaistsInOrder == InOrder(WaistRows, 8) /\ Len(WaistRows) = 8
BY DEF WaistRows, InOrder

LEMMA FeetInOrder ==
    ASSUME NEW gender
    PROVE  /\ InOrder(FootRows(gender), Len(FootRows(gender)))
           /\ Len(FootRows(gender)) \in {12, 14}
<1>1. CASE gender = "men"
  <2>1. FootRows(gender) = [i \in 1..14 |-> 470 + 10 * i]
    BY <1>1 DEF FootRows
  <2>2. InOrder(FootRows(gender), 14) /\ Len(FootRows(gender)) = 14
    BY <2>1 DEF InOrder
  <2>3. QED
    BY <2>2
<1>2. CASE gender # "men"
  <2>1. FootRows(gender) = [i \in 1..12 |-> 430 + 10 * i]
    BY <1>2 DEF FootRows
  <2>2. InOrder(FootRows(gender), 12) /\ Len(FootRows(gender)) = 12
    BY <2>1 DEF InOrder
  <2>3. QED
    BY <2>2
<1>3. QED
  BY <1>1, <1>2

\* One measure more, of the same measures.
Grown(m, mm) ==
    /\ m \in [Measures -> Nat] /\ mm \in [Measures -> Nat]
    /\ \A x \in Measures : m[x] <= mm[x] /\ (m[x] # 0 <=> mm[x] # 0)

\* What the advice of a chart comes to when a measure grows: a row that is not
\* before the old one, or none and a measure that no row has.
Follows(old, new, past) ==
    \/ old = NoSize
    \/ /\ old \in 1..14
       /\ \/ new \in 1..14 /\ new >= old
          \/ new = NoSize /\ past

Past(kind, gender, mm) ==
    \E x \in Measures : \/ mm[x] > Largest(kind, gender, x)
                        \/ BetweenRows(kind, gender, x, mm[x])

LEMMA BodyFollows ==
    ASSUME NEW kind, NEW gender, NEW m, NEW mm, Grown(m, mm)
    PROVE  /\ Follows(ByBody(kind, gender, m), ByBody(kind, gender, mm),
                      Past(kind, gender, mm))
           /\ ByBody(kind, gender, m) \in 1..5 \cup {NoSize}
<1> DEFINE rows == Bands(kind, gender)
           heights == [i \in DOMAIN rows |-> rows[i].height]
           weights == [i \in DOMAIN rows |-> rows[i].weight]
<1>1. DOMAIN rows = 1..5 /\ FiveRanges(heights) /\ FiveRanges(weights)
  BY ChartsAreRanges
<1>2. /\ m["height"] \in Nat /\ mm["height"] \in Nat /\ m["height"] <= mm["height"]
      /\ m["weight"] \in Nat /\ mm["weight"] \in Nat /\ m["weight"] <= mm["weight"]
      /\ "height" \in Measures /\ "weight" \in Measures
  BY SizeAssumption DEF Grown
<1>3. /\ Largest(kind, gender, "height") = heights[5][2]
      /\ Largest(kind, gender, "weight") = weights[5][2]
  BY <1>1 DEF Largest
<1>4. /\ BetweenRanges(heights, mm["height"]) => BetweenRows(kind, gender, "height", mm["height"])
      /\ BetweenRanges(weights, mm["weight"]) => BetweenRows(kind, gender, "weight", mm["weight"])
  BY <1>1 DEF BetweenRanges, BetweenRows
<1>5. /\ ByBody(kind, gender, m) =
           IF RowOf(heights, m["height"]) = 0 \/ RowOf(weights, m["weight"]) = 0
           THEN NoSize ELSE RowOf(weights, m["weight"])
      /\ ByBody(kind, gender, mm) =
           IF RowOf(heights, mm["height"]) = 0 \/ RowOf(weights, mm["weight"]) = 0
           THEN NoSize ELSE RowOf(weights, mm["weight"])
  BY DEF ByBody
<1> HIDE DEF heights, weights, rows
<1>6. CASE RowOf(heights, m["height"]) = 0 \/ RowOf(weights, m["weight"]) = 0
  BY <1>5, <1>6 DEF Follows
<1>7. CASE RowOf(heights, m["height"]) # 0 /\ RowOf(weights, m["weight"]) # 0
  <2>1. \/ RowOf(heights, mm["height"]) # 0
        \/ /\ RowOf(heights, mm["height"]) = 0
           /\ mm["height"] > heights[5][2] \/ BetweenRanges(heights, mm["height"])
    BY <1>1, <1>2, <1>7, RowGrows
  <2>2. /\ RowOf(weights, m["weight"]) \in 1..5
        /\ \/ /\ RowOf(weights, mm["weight"]) \in 1..5
              /\ RowOf(weights, m["weight"]) <= RowOf(weights, mm["weight"])
           \/ /\ RowOf(weights, mm["weight"]) = 0
              /\ mm["weight"] > weights[5][2] \/ BetweenRanges(weights, mm["weight"])
    BY <1>1, <1>2, <1>7, RowGrows
  <2>3. (\/ mm["height"] > heights[5][2] \/ BetweenRanges(heights, mm["height"])
         \/ mm["weight"] > weights[5][2] \/ BetweenRanges(weights, mm["weight"]))
           => Past(kind, gender, mm)
    BY <1>2, <1>3, <1>4 DEF Past
  <2>4. ByBody(kind, gender, m) = RowOf(weights, m["weight"])
    BY <1>5, <1>7
  <2>5. \/ /\ ByBody(kind, gender, mm) \in 1..5
           /\ ByBody(kind, gender, mm) >= RowOf(weights, m["weight"])
        \/ ByBody(kind, gender, mm) = NoSize /\ Past(kind, gender, mm)
    BY <1>5, <2>1, <2>2, <2>3
  <2>6. QED
    BY <2>2, <2>4, <2>5 DEF Follows
<1>8. QED
  BY <1>6, <1>7

\* Feet and waists: the nearest row between the first and the last.
LEMMA LengthFollows ==
    ASSUME NEW rows, NEW n \in 1..14, InOrder(rows, n), Len(rows) = n,
           NEW v \in Nat, NEW w \in Nat, v <= w
    PROVE  Follows(ByLength(rows, v), ByLength(rows, w), w > Ends(rows)[2])
<1>1. Ends(rows)[1] = rows[1] /\ Ends(rows)[2] = rows[n]
  BY DEF Ends
<1>2. rows[1] \in Nat /\ rows[n] \in Nat
  BY DEF InOrder
<1>3. CASE ~In(v, Ends(rows))
  BY <1>3 DEF ByLength, Follows
<1>4. CASE In(v, Ends(rows))
  <2>1. ByLength(rows, v) = Nearest(rows, v) /\ Nearest(rows, v) \in 1..14
    <3>1. Nearest(rows, v) \in 1..n
      BY NearestIsNear
    <3>2. QED
      BY <1>4, <3>1 DEF ByLength
  <2>2. CASE In(w, Ends(rows))
    <3>1. ByLength(rows, w) = Nearest(rows, w) /\ Nearest(rows, w) \in 1..14
      <4>1. Nearest(rows, w) \in 1..n
        BY NearestIsNear
      <4>2. QED
        BY <2>2, <4>1 DEF ByLength
    <3>2. Nearest(rows, v) <= Nearest(rows, w)
      BY NearestGrows
    <3>3. QED
      BY <2>1, <3>1, <3>2 DEF Follows
  <2>3. CASE ~In(w, Ends(rows))
    <3>1. w > Ends(rows)[2]
      BY <1>1, <1>2, <1>4, <2>3 DEF In
    <3>2. QED
      BY <2>1, <2>3, <3>1 DEF ByLength, Follows
  <2>4. QED
    BY <2>2, <2>3
<1>5. QED
  BY <1>3, <1>4

\* Heads: the range that has the value, or the nearest beginning.
LEMMA HeadIsPiecewise ==
    ASSUME NEW v \in Nat
    PROVE  HeadSize(v) = IF v < 1080 \/ v > 1220 THEN NoSize
                         ELSE IF v <= 1100 THEN 1 ELSE IF v <= 1140 THEN 2
                         ELSE IF v <= 1180 THEN 3 ELSE 4
<1> DEFINE starts == [i \in DOMAIN HeadRows |-> HeadRows[i][1]]
           hit == {i \in DOMAIN HeadRows : In(v, HeadRows[i])}
           row == RowOf(HeadRows, v)
<1>1. /\ DOMAIN HeadRows = 1..4
      /\ HeadRows[1] = <<1080, 1100>> /\ HeadRows[2] = <<1120, 1140>>
      /\ HeadRows[3] = <<1160, 1180>> /\ HeadRows[4] = <<1200, 1220>>
  BY DEF HeadRows
<1>2. InOrder(starts, 4) /\ starts[1] = 1080 /\ starts[2] = 1120 /\ starts[3] = 1160 /\ starts[4] = 1200
  BY <1>1 DEF InOrder
<1>3. \/ row \in 1..4 /\ In(v, HeadRows[row])
      \/ row = 0 /\ \A i \in 1..4 : ~In(v, HeadRows[i])
  <2>1. hit \subseteq 1..4 /\ row = IF hit = {} THEN 0 ELSE Min(hit)
    BY <1>1 DEF RowOf
  <2>2. hit # {} => Min(hit) \in hit
    BY <2>1, Least
  <2>3. QED
    BY <1>1, <2>1, <2>2
<1>4. HeadSize(v) = IF v < 1080 \/ v > 1220 THEN NoSize
                    ELSE IF row # 0 THEN row ELSE Nearest(starts, v)
  BY <1>1 DEF HeadSize, In
<1> HIDE DEF row, starts
<1>5. CASE row # 0
  BY <1>1, <1>3, <1>4, <1>5 DEF In
<1>6. CASE row = 0 /\ 1080 <= v /\ v <= 1220
  <2>1. /\ Nearest(starts, v) \in 1..4
        /\ \A j \in 1..4 : Gap(starts[Nearest(starts, v)], v) <= Gap(starts[j], v)
    BY <1>2, NearestIsNear
  <2>2. (1100 < v /\ v < 1120) \/ (1140 < v /\ v < 1160) \/ (1180 < v /\ v < 1200)
    BY <1>1, <1>3, <1>6 DEF In
  <2>3. /\ Nearest(starts, v) = 1 => Gap(1080, v) <= Gap(1120, v)
        /\ Nearest(starts, v) = 2 => Gap(1120, v) <= Gap(1080, v) /\ Gap(1120, v) <= Gap(1160, v)
        /\ Nearest(starts, v) = 3 => Gap(1160, v) <= Gap(1120, v) /\ Gap(1160, v) <= Gap(1200, v)
        /\ Nearest(starts, v) = 4 => Gap(1200, v) <= Gap(1160, v)
    BY <1>2, <2>1
  <2>4. Nearest(starts, v) = IF v <= 1140 THEN 2 ELSE IF v <= 1180 THEN 3 ELSE 4
    BY <2>1, <2>2, <2>3 DEF Gap
  <2>5. QED
    BY <1>4, <1>6, <2>2, <2>4
<1>7. QED
  BY <1>3, <1>4, <1>5, <1>6

LEMMA HeadFollows ==
    ASSUME NEW v \in Nat, NEW w \in Nat, v <= w
    PROVE  Follows(HeadSize(v), HeadSize(w), w > 1220)
BY HeadIsPiecewise DEF Follows

\* A brand's shift keeps the order.
LEMMA ShiftedIsRow ==
    ASSUME NEW size \in 1..5, NEW fit
    PROVE  LET d == IF fit = "small" THEN 1 ELSE IF fit = "large" THEN -1 ELSE 0
           IN  Shifted(size, fit) = IF size + d < 1 THEN 1
                                    ELSE IF size + d > 5 THEN 5 ELSE size + d
<1> DEFINE d == IF fit = "small" THEN 1 ELSE IF fit = "large" THEN -1 ELSE 0
           low == IF size + d > 5 THEN 5 ELSE size + d
<1>1. size # NoSize
  BY SizeAssumption
<1>2. d \in -1..1 /\ low \in Int
  OBVIOUS
<1>3. (CASE fit = "small" -> 1 [] fit = "large" -> -1 [] OTHER -> 0) = d
  OBVIOUS
<1>4. Shifted(size, fit) = Max({1, Min({5, size + d})})
  BY <1>1, <1>3 DEF Shifted
<1> HIDE DEF d
<1>5. Min({5, size + d}) = low
  BY <1>2 DEF Min
<1>6. Max({1, low}) = IF low < 1 THEN 1 ELSE low
  BY <1>2 DEF Max
<1>7. QED
  BY <1>2, <1>4, <1>5, <1>6 DEF d

LEMMA ShiftFollows ==
    ASSUME NEW old \in 1..5 \cup {NoSize}, NEW new, NEW past, NEW fit,
           Follows(old, new, past), new \in 1..5 \cup {NoSize}
    PROVE  Follows(Shifted(old, fit), Shifted(new, fit), past)
<1>1. CASE old = NoSize
  BY <1>1 DEF Follows, Shifted
<1>2. CASE old # NoSize /\ new = NoSize
  <2>1. Shifted(new, fit) = NoSize
    BY <1>2 DEF Shifted
  <2>2. Shifted(old, fit) \in 1..5
    BY <1>2, ShiftedIsRow
  <2>3. past
    BY <1>2, SizeAssumption DEF Follows
  <2>4. QED
    BY <2>1, <2>2, <2>3 DEF Follows
<1>3. CASE old # NoSize /\ new # NoSize
  BY <1>3, ShiftedIsRow, SizeAssumption DEF Follows
<1>4. QED
  BY <1>1, <1>2, <1>3

LEMMA BottomsFollow ==
    ASSUME NEW gender, NEW m, NEW mm, Grown(m, mm)
    PROVE  Follows(BottomsSize(gender, m), BottomsSize(gender, mm),
                   Past("bottoms", gender, mm))
<1> DEFINE old == ByBody("bottoms", gender, m)
           new == ByBody("bottoms", gender, mm)
<1>1. Follows(old, new, Past("bottoms", gender, mm))
  BY BodyFollows
<1>2. /\ m["waist"] \in Nat /\ mm["waist"] \in Nat /\ m["waist"] <= mm["waist"]
      /\ m["waist"] = 0 <=> mm["waist"] = 0
  BY SizeAssumption DEF Grown
<1>3. /\ Nearest(WaistRows, m["waist"]) \in 1..14
      /\ Nearest(WaistRows, mm["waist"]) \in 1..14
      /\ Nearest(WaistRows, m["waist"]) <= Nearest(WaistRows, mm["waist"])
  <2>1. /\ Nearest(WaistRows, m["waist"]) \in 1..8
        /\ Nearest(WaistRows, mm["waist"]) \in 1..8
    BY <1>2, WaistsInOrder, NearestIsNear
  <2>2. Nearest(WaistRows, m["waist"]) <= Nearest(WaistRows, mm["waist"])
    BY <1>2, WaistsInOrder, NearestGrows
  <2>3. QED
    BY <2>1, <2>2
<1>4. /\ BottomsSize(gender, m) = IF old = NoSize THEN NoSize
           ELSE IF m["waist"] = 0 THEN old ELSE Nearest(WaistRows, m["waist"])
      /\ BottomsSize(gender, mm) = IF new = NoSize THEN NoSize
           ELSE IF mm["waist"] = 0 THEN new ELSE Nearest(WaistRows, mm["waist"])
  BY DEF BottomsSize
<1> HIDE DEF old, new
<1>5. QED
  BY <1>1, <1>2, <1>3, <1>4, SizeAssumption DEF Follows

\* The advice of whoever grows, whatever the product.
LEMMA AdviceFollows ==
    ASSUME NEW i, NEW m, NEW mm, Grown(m, mm)
    PROVE  Follows(Advice(i, m), Advice(i, mm), Past(SizeKind(i), Gender(i), mm))
<1> DEFINE kind == SizeKind(i)
           gender == Gender(i)
           ready(x) == \A r \in Required(kind) : x[r] # 0
<1>1. \A x \in {"height", "weight", "foot", "waist", "head"} :
         x \in Measures /\ m[x] \in Nat /\ mm[x] \in Nat /\ m[x] <= mm[x]
  BY SizeAssumption DEF Grown
<1>2. Required(kind) \subseteq Measures
  BY SizeAssumption DEF Required
<1>3. ready(m) <=> ready(mm)
  BY <1>2 DEF Grown
<1>4. CASE ~ready(m)
  BY <1>4 DEF Advice, Follows
<1>5. CASE ready(m) /\ kind = "tops"
  <2>1. /\ Advice(i, m) = Shifted(ByBody(kind, gender, m), i.fit)
        /\ Advice(i, mm) = Shifted(ByBody(kind, gender, mm), i.fit)
    BY <1>3, <1>5 DEF Advice
  <2>2. Grown(mm, mm)
    BY DEF Grown
  <2>3. /\ ByBody(kind, gender, m) \in 1..5 \cup {NoSize}
        /\ ByBody(kind, gender, mm) \in 1..5 \cup {NoSize}
    BY <2>2, BodyFollows
  <2>4. Follows(ByBody(kind, gender, m), ByBody(kind, gender, mm), Past(kind, gender, mm))
    BY BodyFollows
  <2>5. QED
    BY <2>1, <2>3, <2>4, ShiftFollows
<1>6. CASE ready(m) /\ kind = "bottoms"
  <2>1. /\ Advice(i, m) = BottomsSize(gender, m)
        /\ Advice(i, mm) = BottomsSize(gender, mm)
    BY <1>3, <1>6 DEF Advice
  <2>2. QED
    BY <1>6, <2>1, BottomsFollow
<1>7. CASE ready(m) /\ kind = "dress"
  <2>1. /\ Advice(i, m) = ByBody(kind, gender, m)
        /\ Advice(i, mm) = ByBody(kind, gender, mm)
    BY <1>3, <1>7 DEF Advice
  <2>2. QED
    BY <2>1, BodyFollows
<1>8. CASE ready(m) /\ kind = "footwear"
  <2>1. /\ Advice(i, m) = ByLength(FootRows(gender), m["foot"])
        /\ Advice(i, mm) = ByLength(FootRows(gender), mm["foot"])
    BY <1>3, <1>8 DEF Advice
  <2>2. /\ InOrder(FootRows(gender), Len(FootRows(gender)))
        /\ Len(FootRows(gender)) \in 1..14
    BY FeetInOrder
  <2>3. Follows(ByLength(FootRows(gender), m["foot"]), ByLength(FootRows(gender), mm["foot"]),
                mm["foot"] > Ends(FootRows(gender))[2])
    BY <1>1, <2>2, LengthFollows
  <2>4. Largest(kind, gender, "foot") = Ends(FootRows(gender))[2]
    BY DEF Largest
  <2>5. mm["foot"] > Ends(FootRows(gender))[2] => Past(kind, gender, mm)
    BY <1>1, <2>4 DEF Past
  <2>6. QED
    BY <2>1, <2>3, <2>5 DEF Follows
<1>9. CASE ready(m) /\ kind = "belt"
  <2>1. /\ Advice(i, m) = ByLength(WaistRows, m["waist"])
        /\ Advice(i, mm) = ByLength(WaistRows, mm["waist"])
    BY <1>3, <1>9 DEF Advice
  <2>2. Follows(ByLength(WaistRows, m["waist"]), ByLength(WaistRows, mm["waist"]),
                mm["waist"] > Ends(WaistRows)[2])
    <3>1. 8 \in 1..14 /\ m["waist"] <= mm["waist"] /\ m["waist"] \in Nat /\ mm["waist"] \in Nat
      BY <1>1
    <3>2. QED
      BY <3>1, WaistsInOrder, LengthFollows
  <2>3. Largest(kind, gender, "waist") = Ends(WaistRows)[2]
    BY DEF Largest
  <2>4. mm["waist"] > Ends(WaistRows)[2] => Past(kind, gender, mm)
    BY <1>1, <2>3 DEF Past
  <2>5. QED
    BY <2>1, <2>2, <2>4 DEF Follows
<1>10. CASE ready(m) /\ kind = "headwear"
  <2>1. Advice(i, m) = HeadSize(m["head"]) /\ Advice(i, mm) = HeadSize(mm["head"])
    BY <1>3, <1>10 DEF Advice
  <2>2. Follows(HeadSize(m["head"]), HeadSize(mm["head"]), mm["head"] > 1220)
    BY <1>1, HeadFollows
  <2>3. Largest(kind, gender, "head") = 1220
    BY DEF Largest
  <2>4. mm["head"] > 1220 => Past(kind, gender, mm)
    BY <1>1, <2>3 DEF Past
  <2>5. QED
    BY <2>1, <2>2, <2>4 DEF Follows
<1>11. CASE ready(m) /\ kind = "one_size"
  <2>1. Advice(i, m) = 1 /\ Advice(i, mm) = 1
    BY <1>3, <1>11 DEF Advice
  <2>2. QED
    BY <2>1 DEF Follows
<1>12. CASE kind \notin {"tops", "bottoms", "dress", "footwear", "belt", "headwear", "one_size"}
  BY <1>12 DEF Advice, Follows
<1>13. QED
  BY <1>4, <1>5, <1>6, <1>7, <1>8, <1>9, <1>10, <1>11, <1>12

\* Whose measures do not change keeps the advice: it is a row or none.
LEMMA AdviceIsRow ==
    ASSUME NEW i, NEW m \in [Measures -> Nat]
    PROVE  Advice(i, m) \in 1..14 \cup {NoSize}
<1>1. Grown(m, m)
  BY DEF Grown
<1>2. QED
  BY <1>1, AdviceFollows DEF Follows

\* Children's clothes have no chart.
LEMMA NoneForKids ==
    ASSUME NEW i, NEW m, i.department \in Kids
    PROVE  Advice(i, m) = NoSize
<1>1. SizeKind(i) = "unsupported"
  BY DEF SizeKind
<1>2. QED
  BY <1>1 DEF Advice

\* What a shopper may tell: numbers, none of them 0, up to some n.
NumbersOnly(s) == \E n \in Nat : s \subseteq 1..n

LEMMA AroundIsBounded ==
    ASSUME NEW n \in Nat, NEW s, s # {}, \A x \in s : x \in Nat /\ 2 <= x /\ x <= n
    PROVE  NumbersOnly(Around(s))
<1>1. s \subseteq 1..n
  OBVIOUS
<1>2. Min(s) \in s /\ Max(s) \in s
  BY <1>1, Least, Greatest
<1>3. Around(s) \subseteq 1..(n + 1) /\ n + 1 \in Nat
  BY <1>2 DEF Around
<1>4. QED
  BY <1>3 DEF NumbersOnly

ShortOf(rows, n, far) == \A k \in 1..n : 3 <= rows[k] /\ rows[k] < far

LEMMA StepsAreBounded ==
    ASSUME NEW rows, NEW n \in Nat \ {0}, InOrder(rows, n), Len(rows) = n,
           NEW far \in Nat, ShortOf(rows, n, far)
    PROVE  NumbersOnly(Around(Steps(rows)))
<1>1. /\ DOMAIN rows = 1..n
      /\ \A k \in 1..n : rows[k] \in Nat /\ 3 <= rows[k] /\ rows[k] < far
  BY DEF InOrder, ShortOf
<1>2. rows[1] \in Steps(rows)
  <2>1. 1 \in DOMAIN rows
    BY <1>1
  <2>2. rows[1] \in {rows[k] : k \in DOMAIN rows}
    BY <2>1
  <2>3. QED
    BY <2>2 DEF Steps
<1>3. ASSUME NEW x \in Steps(rows) PROVE x \in Nat /\ 2 <= x /\ x <= far
  <2>1. CASE \E k \in DOMAIN rows : x = rows[k]
    BY <1>1, <2>1
  <2>2. CASE \E k \in 1..Len(rows) - 1, d \in {-1, 1} :
               x = (rows[k] + rows[k + 1]) \div 2 + d
    <3>1. PICK k \in 1..Len(rows) - 1, d \in {-1, 1} :
               x = (rows[k] + rows[k + 1]) \div 2 + d
      BY <2>2
    <3>2. k \in 1..n /\ k + 1 \in 1..n
      BY <3>1
    <3>3. /\ rows[k] \in Nat /\ 3 <= rows[k] /\ rows[k] < far
          /\ rows[k + 1] \in Nat /\ 3 <= rows[k + 1] /\ rows[k + 1] < far
      BY <1>1, <3>2
    <3>4. QED
      BY <3>1, <3>3
  <2>3. QED
    BY <2>1, <2>2 DEF Steps
<1>4. QED
  BY <1>2, <1>3, AroundIsBounded

LEMMA HeadsAreBounded == NumbersOnly(Around(HeadMarks))
<1>1. \A n \in 1..4 : /\ HeadRows[n][1] \in Nat /\ 2 <= HeadRows[n][1] /\ HeadRows[n][1] <= 1220
                      /\ HeadRows[n][2] \in Nat /\ 2 <= HeadRows[n][2] /\ HeadRows[n][2] <= 1220
  BY DEF HeadRows
<1>2. HeadRows[1][1] \in HeadMarks
  BY DEF HeadMarks
<1>3. \A x \in HeadMarks : x \in Nat /\ 2 <= x /\ x <= 1239
  BY <1>1 DEF HeadMarks
<1>4. 1239 \in Nat
  OBVIOUS
<1>5. QED
  BY <1>2, <1>3, <1>4, AroundIsBounded

LEMMA EndsAreBounded ==
    ASSUME NEW kind, NEW gender, NEW m \in {"height", "weight"}
    PROVE  NumbersOnly(Around(BandMarks(Bands(kind, gender), m)))
<1> DEFINE rows == Bands(kind, gender)
           ends == BandMarks(rows, m)
           OnChart(x) == x \in Nat /\ 2 <= x /\ x <= 5000
<1>1. \A r \in {MenTops, WomenRows, MenBottoms} : \A n \in 1..5 :
         OnChart(r[n][m][1]) /\ OnChart(r[n][m][2]) /\ OnChart(r[n][m][2] + 1)
  <2>1. CASE m = "height"
    BY <2>1 DEF MenTops, WomenRows, MenBottoms, Band
  <2>2. CASE m = "weight"
    BY <2>2 DEF MenTops, WomenRows, MenBottoms, Band
  <2>3. QED
    BY <2>1, <2>2
<1>2. rows \in {MenTops, WomenRows, MenBottoms}
  BY DEF Bands
<1> HIDE DEF rows
<1>3. \A n \in 1..5 : /\ \A e \in 1..2 : OnChart(rows[n][m][e])
                      /\ OnChart(rows[n][m][2] + 1)
  BY <1>1, <1>2
<1>4. \A x \in ends : OnChart(x)
  BY <1>3 DEF BandMarks
<1>5. rows[1][m][1] \in ends
  BY DEF BandMarks
<1>6. 5000 \in Nat
  OBVIOUS
<1> HIDE DEF ends
<1>7. NumbersOnly(Around(ends))
  BY <1>4, <1>5, <1>6, AroundIsBounded
<1>8. QED
  BY <1>7 DEF ends, rows

LEMMA MarksAreBounded ==
    ASSUME NEW i, NEW m \in Reads(i)
    PROVE  NumbersOnly(MarksOf(i, m)) /\ m \in Measures
<1> DEFINE kind == SizeKind(i)
           gender == Gender(i)
           ends == BandMarks(Bands(kind, gender), m)
           feet == Around(Steps(FootRows(gender)))
           waists == Around(Steps(WaistRows))
<1>1. m \in {"height", "weight", "foot", "waist", "head"}
  BY DEF Reads, Required
<1>2. m \in Measures
  BY <1>1, SizeAssumption
<1>3. NumbersOnly(feet)
  <2>1. PICK n \in {12, 14} : n = Len(FootRows(gender))
    BY FeetInOrder
  <2>2. InOrder(FootRows(gender), n) /\ n \in Nat \ {0}
    BY <2>1, FeetInOrder
  <2>3. ShortOf(FootRows(gender), n, 800)
    <3>1. CASE gender = "men"
      BY <2>1, <2>2, <3>1 DEF FootRows, InOrder, ShortOf
    <3>2. CASE gender # "men"
      BY <2>1, <2>2, <3>2 DEF FootRows, InOrder, ShortOf
    <3>3. QED
      BY <3>1, <3>2
  <2>4. 800 \in Nat
    OBVIOUS
  <2>5. QED
    BY <2>1, <2>2, <2>3, <2>4, StepsAreBounded
<1>4. NumbersOnly(waists)
  <2>1. ShortOf(WaistRows, 8, 2200)
    BY DEF WaistRows, ShortOf
  <2>2. PICK n \in Nat \ {0}, far \in Nat : n = 8 /\ far = 2200
    OBVIOUS
  <2>3. InOrder(WaistRows, n) /\ Len(WaistRows) = n /\ ShortOf(WaistRows, n, far)
    BY <2>1, <2>2, WaistsInOrder
  <2>4. QED
    BY <2>3, StepsAreBounded
<1>5. m \in {"height", "weight"} => NumbersOnly(Around(ends))
  BY EndsAreBounded
<1>6. MarksOf(i, m) = IF m = "foot" THEN feet ELSE IF m = "waist" THEN waists
                      ELSE IF m = "head" THEN Around(HeadMarks) ELSE Around(ends)
  <2>1. CASE m = "foot"
    BY <2>1 DEF MarksOf
  <2>2. CASE m = "waist"
    BY <2>2 DEF MarksOf
  <2>3. CASE m = "head"
    BY <2>3 DEF MarksOf
  <2>4. CASE m \in {"height", "weight"}
    BY <2>4 DEF MarksOf
  <2>5. QED
    BY <1>1, <2>1, <2>2, <2>3, <2>4
<1> HIDE DEF ends, feet, waists
<1>7. QED
  BY <1>1, <1>2, <1>3, <1>4, <1>5, <1>6, HeadsAreBounded

\* The inductive invariant: who tells what, of the measures the product's chart reads.
SizeInv ==
    /\ item \in Items /\ measured \in [Measures -> Nat]
    /\ \A m \in Measures : measured[m] # 0 => m \in Reads(item)

LEMMA InitSizeInv == InitSize => SizeInv
BY DEF InitSize, SizeInv

\* A step keeps the product; it tells one more measure, or the same ones grow.
LEMMA SizeStep ==
    ASSUME SizeInv, [NextSize]_sizeVars
    PROVE  /\ SizeInv' /\ item' = item
           /\ \/ Grown(measured, measured')
              \/ \E m \in Measures : measured[m] = 0 /\ measured'[m] # 0
<1>1. CASE UNCHANGED sizeVars
  BY <1>1 DEF sizeVars, SizeInv, Grown
<1>2. ASSUME NEW m \in Measures, TellMeasure(m)
      PROVE  /\ SizeInv' /\ item' = item /\ measured[m] = 0 /\ measured'[m] # 0
  <2>1. PICK v \in MarksOf(item, m) : measured' = [measured EXCEPT ![m] = v]
    BY <1>2 DEF TellMeasure
  <2>2. v \in Nat \ {0}
    BY <1>2, <2>1, MarksAreBounded DEF TellMeasure, NumbersOnly
  <2>3. QED
    BY <1>2, <2>1, <2>2 DEF TellMeasure, SizeInv
<1>3. ASSUME NEW m \in Measures, Grow(m)
      PROVE  SizeInv' /\ item' = item /\ Grown(measured, measured')
  <2>1. m \in Reads(item) /\ measured[m] \in Nat /\ measured[m] # 0
    BY <1>3 DEF Grow, SizeInv
  <2>2. PICK v \in MarksOf(item, m) :
           v > measured[m] /\ measured' = [measured EXCEPT ![m] = v] /\ item' = item
    BY <1>3 DEF Grow
  <2>3. v \in Nat
    BY <2>1, MarksAreBounded DEF NumbersOnly
  <2>4. QED
    BY <2>1, <2>2, <2>3 DEF SizeInv, Grown
<1>4. QED
  BY <1>1, <1>2, <1>3 DEF NextSize

LEMMA SizeAlways == SpecSize => []SizeInv
<1>1. SizeInv /\ [NextSize]_sizeVars => SizeInv'
  BY SizeStep
<1>2. QED
  BY <1>1, InitSizeInv, PTL DEF SpecSize

\* The type invariant of the sizing, recommend_size_core: what it advises is a row of
\* a chart, or that there is none.
THEOREM AdvicesAreRows == SpecSize => []SizeTypeOK
<1>1. SizeInv => SizeTypeOK
  BY AdviceIsRow DEF SizeInv, SizeTypeOK
<1>2. QED
  BY <1>1, SizeAlways, PTL

\* Who measures more never gets a smaller size, and loses the advice only past the end
\* of the chart or between two of its rows; children's clothes get none: over the gaps
\* between the ranges, the nearest rows, the waist that replaces the body's row and the
\* brands' shifts, for every product and all measures.
THEOREM SizesFollowTheBody == SpecSize => SizesFollowBody
<1> DEFINE old == Advice(item, measured)
           new == Advice(item', measured')
           Holds == /\ (\A m \in Measures : measured[m] # 0 <=> measured'[m] # 0) =>
                          \/ old = NoSize
                          \/ new # NoSize /\ new >= old
                          \/ new = NoSize /\ \E m \in Measures :
                                 \/ measured'[m] > Largest(SizeKind(item), Gender(item), m)
                                 \/ BetweenRows(SizeKind(item), Gender(item), m, measured'[m])
                    /\ item'.department \in Kids => new = NoSize
<1>1. ASSUME SizeInv, [NextSize]_sizeVars PROVE Holds
  <2>1. item'.department \in Kids => new = NoSize
    BY NoneForKids
  <2>2. ASSUME \A m \in Measures : measured[m] # 0 <=> measured'[m] # 0
        PROVE  \/ old = NoSize
               \/ new # NoSize /\ new >= old
               \/ new = NoSize /\ Past(SizeKind(item), Gender(item), measured')
    <3>1. Grown(measured, measured') /\ item' = item
      BY <1>1, <2>2, SizeStep
    <3>2. Follows(old, new, Past(SizeKind(item), Gender(item), measured'))
      BY <3>1, AdviceFollows
    <3> HIDE DEF old, new
    <3>3. QED
      BY <3>2, SizeAssumption DEF Follows
  <2>3. QED
    BY <2>1, <2>2 DEF Past
<1>2. SizeInv /\ [NextSize]_sizeVars => [Holds]_sizeVars
  BY <1>1
<1>3. QED
  BY <1>2, SizeAlways, PTL DEF SpecSize, SizesFollowBody

-----------------------------------------------------------------------------
(* The journeys of the simulator: what is stored passes for a shop's funnel. *)
(* The invariant says, of every stage of a journey, which rows it has, in   *)
(* which order and of which amounts.                                        *)

RowTypes == {"search", "view_product", "copilot_message", "copilot_product_click",
             "copilot_add_to_cart", "add_to_cart", "checkout_start", "purchase_mock",
             "order", "answered", "cart", "vote"}

RowSet == {r \in [table : TableSet, type : RowTypes, qty : Nat, price : Nat] :
              r.type = "order" => r.table = "orders"}

\* The first row of a type, and what the rows of a type come to.
FirstOf(rows, type)  == SelectInSeq(rows, LAMBDA r : r.type = type)
AmountIn(rows, type) ==
    SumOf([i \in DOMAIN rows |-> IF rows[i].type = type THEN rows[i].price ELSE 0])

Has(type) == FirstOf(log, type) # 0

Drawing == {"new", "slot 1", "slot 2", "slot 3", "tops up", "clicks", "adds"}
Ending  == {"votes", "built", "valid", "refused"}
Buying  == {"adds", "checks out", "orders"} \cup Ending

\* The rows that a journey has none of before it adds to the cart.
LateTypes == {"copilot_add_to_cart", "add_to_cart", "cart", "checkout_start", "order",
              "purchase_mock", "vote"}

JourneySet == [cohort : {"none", "baseline", "sizing", "policy", "outfit"},
               pc : Drawing \cup Buying, items : Seq(Catalog), budget : Nat]

\* Who shops, and for what: an outfit is within its budget.
Shops ==
    /\ journey \in JourneySet /\ log \in Seq(RowSet)
    /\ journey.pc = "new" <=> journey.cohort = "none"
    /\ journey.pc \in Drawing \ {"clicks", "adds"} => log = <<>>
    /\ journey.pc = "new" => journey.items = <<>>
    /\ journey.cohort \in {"baseline", "sizing", "policy"} => Len(journey.items) = 1
    /\ journey.pc \in Drawing \ {"new", "clicks", "adds"} => journey.cohort = "outfit"
    /\ journey.pc = "clicks" => journey.cohort = "policy"
    /\ journey.cohort = "outfit" =>
          journey.budget \in OutfitBudgets /\ Total(journey.items) <= journey.budget
    /\ journey.pc \in Buying => journey.items # <<>>

\* The stages of the funnel.
Adds      == 0 < FirstOf(log, "add_to_cart")
             /\ AmountIn(log, "add_to_cart") = Total(journey.items)
Checkouts == FirstOf(log, "add_to_cart") < FirstOf(log, "checkout_start")
             /\ AmountIn(log, "checkout_start") = Total(journey.items)
Purchases == FirstOf(log, "checkout_start") < FirstOf(log, "order")
             /\ AmountIn(log, "order") = Total(journey.items)
             /\ AmountIn(log, "purchase_mock") = Total(journey.items)

Funnel ==
    /\ journey.pc \in Drawing => \A t \in LateTypes : ~Has(t)
    /\ journey.pc = "checks out" =>
          Adds /\ \A t \in {"checkout_start", "order", "purchase_mock", "vote"} : ~Has(t)
    /\ journey.pc = "orders" =>
          Adds /\ Checkouts /\ \A t \in {"order", "purchase_mock", "vote"} : ~Has(t)
    /\ journey.pc \in Ending =>
          /\ Has("order") => Adds /\ Checkouts /\ Purchases
          /\ AmountIn(log, "add_to_cart") <= Total(journey.items)
    /\ journey.pc = "votes" => ~Has("vote")

\* The turns: the answer is there before what follows it.
Talks ==
    /\ journey.cohort \notin {"none", "baseline"} /\ journey.pc \in Buying \cup {"clicks"}
          => Has("answered")
    /\ Has("cart") => FirstOf(log, "copilot_add_to_cart") \in 1..FirstOf(log, "cart")
    /\ Has("vote") => FirstOf(log, "answered") \in 1..FirstOf(log, "vote")

\* What validate_simulation has seen, and that nothing else is stored.
Validated ==
    /\ journey.pc = "valid" /\ journey.cohort = "outfit" /\ Has("order") =>
          Len(journey.items) >= 2
    /\ journey.pc # "valid" => \A t \in TableSet : stored[t] \cap Runs = {}

JourneyInv == Shops /\ Funnel /\ Talks /\ Validated

-----------------------------------------------------------------------------
(* Sums and first places of lists.                                          *)

\* The sum of a list is that of its first places, one after the other.
IsSum(f, s) ==
    /\ f \in [0..Len(s) -> Nat]
    /\ f[0] = 0 /\ SumOf(s) = f[Len(s)]
    /\ \A i \in 1..Len(s) : f[i] = f[i - 1] + s[i]

HasSum(s) == \E f : IsSum(f, s)

LEMMA SumIsRecursion ==
    ASSUME NEW s \in Seq(Nat)
    PROVE  HasSum(s)
<1> DEFINE n == Len(s)
           step == [i \in 1..n |-> [x \in Nat |-> x + s[i]]]
           h == CHOOSE h : h = [u \in SUBSET (DOMAIN s) |->
                        IF u = {} THEN 0 ELSE h[u \ {Max(u)}] + s[Max(u)]]
<1>1. n \in Nat /\ DOMAIN s = 1..n /\ \A i \in 1..n : s[i] \in Nat
  OBVIOUS
<1>2. SumOf(s) = h[DOMAIN s]
  BY DEF SumOf, FoldLeft, MapThenFoldSet
<1> HIDE DEF n
<1>3. \A i \in 1..n, x \in Nat : step[i][x] = x + s[i] /\ step[i][x] \in Nat
  BY <1>1
<1> HIDE DEF step
<1>4. PICK g : IsFold(g, 1..n, Nat, 0, NumbersUpto(n), step)
  <2>1. HasFold(1..n, Nat, 0, NumbersUpto(n), step)
    BY <1>1, <1>3, NumbersFold
  <2>2. QED
    BY <2>1 DEF HasFold
<1>5. /\ g \in [SUBSET (1..n) -> Nat]
      /\ \A u \in SUBSET (1..n) :
             g[u] = IF u = {} THEN 0 ELSE g[u \ {Max(u)}] + s[Max(u)]
  <2>1. /\ g \in [SUBSET (1..n) -> Nat]
        /\ \A u \in SUBSET (1..n) :
               g[u] = IF u = {} THEN 0 ELSE step[Max(u)][g[u \ {Max(u)}]]
    BY <1>4 DEF IsFold, NumbersUpto
  <2>2. ASSUME NEW u \in SUBSET (1..n), u # {}
        PROVE  step[Max(u)][g[u \ {Max(u)}]] = g[u \ {Max(u)}] + s[Max(u)]
    <3>1. Max(u) \in u
      BY <1>1, <2>2, Greatest
    <3>2. Max(u) \in 1..n /\ g[u \ {Max(u)}] \in Nat
      BY <2>1, <3>1
    <3>3. QED
      BY <1>3, <3>2
  <2>3. QED
    BY <2>1, <2>2
<1>6. g = [u \in SUBSET (DOMAIN s) |-> IF u = {} THEN 0 ELSE g[u \ {Max(u)}] + s[Max(u)]]
  <2>1. g = [u \in SUBSET (1..n) |-> g[u]]
    BY <1>5
  <2>2. QED
    BY <1>1, <1>5, <2>1
<1>7. h = [u \in SUBSET (DOMAIN s) |-> IF u = {} THEN 0 ELSE h[u \ {Max(u)}] + s[Max(u)]]
  BY <1>6
<1> HIDE DEF h
<1> DEFINE S == {i \in 0..n : g[1..i] = h[1..i]}
<1>8. 0 \in S
  <2>1. 1..0 = {} /\ {} \in SUBSET (1..n)
    OBVIOUS
  <2>2. h[{}] = 0 /\ g[{}] = 0
    BY <1>1, <1>5, <1>7, <2>1
  <2>3. QED
    BY <1>1, <2>1, <2>2
<1>9. ASSUME NEW i \in 1..n
      PROVE  /\ g[1..i] = g[1..(i - 1)] + s[i] /\ h[1..i] = h[1..(i - 1)] + s[i]
  <2>1. 1..i \in SUBSET (1..n) /\ 1..i # {} /\ Max(1..i) = i
        /\ (1..i) \ {Max(1..i)} = 1..(i - 1)
    BY <1>1, GreatestOfFirst
  <2>2. h[1..i] = h[(1..i) \ {Max(1..i)}] + s[Max(1..i)]
    BY <1>1, <1>7, <2>1
  <2>3. QED
    BY <1>5, <2>1, <2>2
<1>10. n \in S
  <2>1. \A i \in 1..n : i - 1 \in S => i \in S
    BY <1>1, <1>9
  <2> HIDE DEF S
  <2>2. 0..n \subseteq S
    BY <1>1, <1>8, <2>1, Induction
  <2>3. QED
    BY <1>1, <2>2
<1> DEFINE f == [i \in 0..n |-> g[1..i]]
<1>11. f \in [0..n -> Nat]
  <2>1. \A i \in 0..n : 1..i \in SUBSET (1..n)
    BY <1>1
  <2>2. QED
    BY <1>5, <2>1
<1>12. f[0] = 0 /\ SumOf(s) = f[n] /\ \A i \in 1..n : f[i] = f[i - 1] + s[i]
  <2>1. f[0] = g[1..0] /\ 1..0 = {} /\ {} \in SUBSET (1..n) /\ f[n] = g[1..n]
    BY <1>1
  <2>2. f[0] = 0
    BY <1>5, <2>1
  <2>3. SumOf(s) = f[n]
    BY <1>1, <1>2, <1>10, <2>1
  <2>4. ASSUME NEW i \in 1..n PROVE f[i] = f[i - 1] + s[i]
    <3>1. f[i] = g[1..i] /\ f[i - 1] = g[1..(i - 1)]
      BY <1>1
    <3> HIDE DEF f
    <3>2. QED
      BY <1>9, <3>1
  <2> HIDE DEF f
  <2>5. QED
    BY <2>2, <2>3, <2>4
<1> HIDE DEF f
<1>13. QED
  BY <1>11, <1>12 DEF n, HasSum, IsSum

\* So the sum of two lists, one after the other, is that of both.
LEMMA SumTogether ==
    ASSUME NEW s \in Seq(Nat), NEW t \in Seq(Nat)
    PROVE  SumOf(s) \in Nat /\ SumOf(t) \in Nat /\ SumOf(s \o t) = SumOf(s) + SumOf(t)
<1> DEFINE m == Len(s)
           n == Len(t)
           q == s \o t
<1>1. /\ m \in Nat /\ n \in Nat /\ q \in Seq(Nat) /\ Len(q) = m + n
      /\ \A i \in 1..m : q[i] = s[i] /\ s[i] \in Nat
      /\ \A i \in 1..n : q[m + i] = t[i] /\ t[i] \in Nat
  OBVIOUS
<1>2. PICK f : IsSum(f, s)
  BY SumIsRecursion DEF HasSum
<1>3. PICK g : IsSum(g, t)
  BY SumIsRecursion DEF HasSum
<1>4. PICK h : IsSum(h, q)
  BY <1>1, SumIsRecursion DEF HasSum
<1> HIDE DEF q
<1>5. /\ f \in [0..m -> Nat] /\ f[0] = 0 /\ SumOf(s) = f[m]
      /\ \A i \in 1..m : f[i] = f[i - 1] + s[i]
      /\ g \in [0..n -> Nat] /\ g[0] = 0 /\ SumOf(t) = g[n]
      /\ \A i \in 1..n : g[i] = g[i - 1] + t[i]
  BY <1>2, <1>3 DEF IsSum
<1>6. /\ h \in [0..(m + n) -> Nat] /\ h[0] = 0 /\ SumOf(q) = h[m + n]
      /\ \A i \in 1..(m + n) : h[i] = h[i - 1] + q[i]
  BY <1>1, <1>4 DEF IsSum
<1> HIDE DEF m, n
<1> DEFINE S == {i \in 0..m : h[i] = f[i]}
           T == {i \in 0..n : h[m + i] = f[m] + g[i]}
<1>7. m \in S
  <2>1. 0 \in S
    BY <1>1, <1>5, <1>6
  <2>2. ASSUME NEW i \in 1..m, i - 1 \in S PROVE i \in S
    <3>1. i \in 1..(m + n) /\ h[i] = h[i - 1] + q[i]
      BY <1>1, <1>6
    <3>2. h[i - 1] = f[i - 1]
      BY <2>2
    <3>3. f[i] = f[i - 1] + s[i] /\ q[i] = s[i]
      BY <1>1, <1>5
    <3>4. h[i] = f[i]
      BY <3>1, <3>2, <3>3
    <3>5. QED
      BY <1>1, <3>4
  <2> HIDE DEF S
  <2>3. 0..m \subseteq S
    BY <1>1, <2>1, <2>2, Induction
  <2>4. QED
    BY <1>1, <2>3
<1>8. n \in T
  <2>1. 0 \in T
    BY <1>1, <1>5, <1>7
  <2>2. ASSUME NEW i \in 1..n, i - 1 \in T PROVE i \in T
    <3>1. PICK k \in 1..(m + n) : k = m + i /\ k - 1 = m + (i - 1)
      BY <1>1
    <3>2. h[m + i] = h[m + (i - 1)] + q[m + i]
      BY <1>6, <3>1
    <3>3. h[m + (i - 1)] = f[m] + g[i - 1] /\ g[i - 1] \in Nat /\ f[m] \in Nat
      BY <1>1, <1>5, <2>2
    <3>4. g[i] = g[i - 1] + t[i] /\ q[m + i] = t[i] /\ t[i] \in Nat
      BY <1>1, <1>5
    <3>5. h[m + i] = f[m] + g[i]
      BY <3>2, <3>3, <3>4
    <3>6. QED
      BY <3>5
  <2> HIDE DEF T
  <2>3. 0..n \subseteq T
    BY <1>1, <2>1, <2>2, Induction
  <2>4. QED
    BY <1>1, <2>3
<1>9. SumOf(q) = SumOf(s) + SumOf(t) /\ SumOf(s) \in Nat /\ SumOf(t) \in Nat
  BY <1>1, <1>5, <1>6, <1>8
<1>10. QED
  BY <1>9 DEF q

LEMMA SumOfOne ==
    ASSUME NEW x \in Nat
    PROVE  SumOf(<<x>>) = x /\ SumOf(<<>>) = 0
<1>1. SumOf(<<x>>) = x
  <2>1. <<x>> \in Seq(Nat) /\ Len(<<x>>) = 1
    OBVIOUS
  <2>2. PICK f : IsSum(f, <<x>>)
    BY <2>1, SumIsRecursion DEF HasSum
  <2>3. QED
    BY <2>1, <2>2 DEF IsSum
<1>2. SumOf(<<>>) = 0
  <2>1. <<>> \in Seq(Nat) /\ Len(<<>>) = 0
    OBVIOUS
  <2>2. PICK f : IsSum(f, <<>>)
    BY <2>1, SumIsRecursion DEF HasSum
  <2>3. QED
    BY <2>1, <2>2 DEF IsSum
<1>3. QED
  BY <1>1, <1>2

\* A list of zeros comes to nothing.
LEMMA SumOfZeros ==
    ASSUME NEW s \in Seq(Nat), \A i \in 1..Len(s) : s[i] = 0
    PROVE  SumOf(s) = 0
<1> DEFINE n == Len(s)
<1>1. PICK f : IsSum(f, s)
  BY SumIsRecursion DEF HasSum
<1>2. /\ n \in Nat /\ f \in [0..n -> Nat] /\ f[0] = 0 /\ SumOf(s) = f[n]
      /\ \A i \in 1..n : f[i] = f[i - 1] + s[i] /\ s[i] = 0
  BY <1>1 DEF IsSum
<1> HIDE DEF n
<1> DEFINE S == {i \in 0..n : f[i] = 0}
<1>3. 0 \in S
  BY <1>2
<1>4. ASSUME NEW i \in 1..n, i - 1 \in S PROVE i \in S
  <2>1. f[i] = f[i - 1] + s[i] /\ s[i] = 0 /\ f[i - 1] = 0
    BY <1>2, <1>4
  <2>2. f[i] = 0
    BY <2>1
  <2>3. QED
    BY <1>2, <2>2
<1> HIDE DEF S
<1>5. 0..n \subseteq S
  BY <1>2, <1>3, <1>4, Induction
<1>6. QED
  <2>1. n \in S
    BY <1>2, <1>5
  <2>2. QED
    BY <1>2, <2>1 DEF S

\* The prices that a list has of a type.
PricesOf(rows, type) == [i \in DOMAIN rows |-> IF rows[i].type = type THEN rows[i].price ELSE 0]

LEMMA PricesOfType ==
    ASSUME NEW rows \in Seq(RowSet), NEW type
    PROVE  /\ PricesOf(rows, type) \in Seq(Nat) /\ Len(PricesOf(rows, type)) = Len(rows)
           /\ AmountIn(rows, type) = SumOf(PricesOf(rows, type))
           /\ AmountIn(rows, type) \in Nat
<1>1. \A i \in DOMAIN rows : rows[i] \in RowSet
  OBVIOUS
<1>2. \A i \in DOMAIN rows : rows[i].price \in Nat
  BY <1>1 DEF RowSet
<1>3. DOMAIN rows = 1..Len(rows) /\ Len(rows) \in Nat
  OBVIOUS
<1>4. PricesOf(rows, type) \in Seq(Nat) /\ Len(PricesOf(rows, type)) = Len(rows)
  BY <1>2, <1>3 DEF PricesOf
<1>5. AmountIn(rows, type) = SumOf(PricesOf(rows, type))
  BY DEF AmountIn, PricesOf
<1>6. SumOf(PricesOf(rows, type)) \in Nat
  <2>1. <<>> \in Seq(Nat)
    OBVIOUS
  <2>2. QED
    BY <1>4, <2>1, SumTogether
<1>7. QED
  BY <1>4, <1>5, <1>6

LEMMA AmountsTogether ==
    ASSUME NEW rows \in Seq(RowSet), NEW more \in Seq(RowSet), NEW type
    PROVE  AmountIn(rows \o more, type) = AmountIn(rows, type) + AmountIn(more, type)
<1> DEFINE s == PricesOf(rows, type)
           t == PricesOf(more, type)
           q == rows \o more
<1>1. /\ s \in Seq(Nat) /\ Len(s) = Len(rows) /\ AmountIn(rows, type) = SumOf(s)
      /\ t \in Seq(Nat) /\ Len(t) = Len(more) /\ AmountIn(more, type) = SumOf(t)
      /\ q \in Seq(RowSet)
  BY PricesOfType
<1>2. PricesOf(q, type) \in Seq(Nat) /\ Len(PricesOf(q, type)) = Len(q)
      /\ AmountIn(q, type) = SumOf(PricesOf(q, type))
  BY <1>1, PricesOfType
<1> DEFINE p == PricesOf(q, type)
           m == Len(rows)
           n == Len(more)
<1>3. /\ m \in Nat /\ n \in Nat /\ Len(q) = m + n
      /\ \A i \in 1..m : q[i] = rows[i]
      /\ \A i \in 1..n : q[m + i] = more[i]
  OBVIOUS
<1>4. /\ \A i \in 1..m : s[i] = IF rows[i].type = type THEN rows[i].price ELSE 0
      /\ \A i \in 1..n : t[i] = IF more[i].type = type THEN more[i].price ELSE 0
      /\ \A i \in 1..(m + n) : p[i] = IF q[i].type = type THEN q[i].price ELSE 0
  BY <1>1, <1>3 DEF PricesOf
<1> HIDE DEF q, s, t, p, m, n
<1> DEFINE r == s \o t
<1>5. p = r
  <2>1. r \in Seq(Nat) /\ Len(r) = m + n /\ p \in Seq(Nat) /\ Len(p) = m + n
    BY <1>1, <1>2, <1>3 DEF p, m, n
  <2>2. ASSUME NEW i \in 1..(m + n) PROVE p[i] = r[i]
    <3>1. CASE i <= m
      <4>1. i \in 1..m
        BY <1>3, <3>1
      <4>2. r[i] = s[i]
        <5>1. \A k \in 1..Len(s) : (s \o t)[k] = s[k]
          BY <1>1
        <5>2. QED
          BY <1>1, <4>1, <5>1 DEF m
      <4>3. q[i] = rows[i]
        <5>1. \A k \in 1..m : q[k] = rows[k]
          BY <1>3
        <5>2. QED
          BY <4>1, <5>1
      <4>4. p[i] = IF q[i].type = type THEN q[i].price ELSE 0
        BY <1>4
      <4>5. s[i] = IF rows[i].type = type THEN rows[i].price ELSE 0
        BY <1>4, <4>1
      <4>6. QED
        BY <4>2, <4>3, <4>4, <4>5
    <3>2. CASE i > m
      <4>1. PICK k \in 1..n : i = m + k
        <5>1. m \in Nat /\ n \in Nat /\ i \in Nat /\ i <= m + n
          BY <1>3
        <5>2. i - m \in 1..n /\ i = m + (i - m)
          BY <3>2, <5>1
        <5>3. QED
          BY <5>2
      <4>2. r[m + k] = t[k]
        <5>1. \A k0 \in 1..Len(t) : (s \o t)[Len(s) + k0] = t[k0]
          BY <1>1
        <5>2. QED
          BY <1>1, <5>1 DEF m, n
      <4>3. q[m + k] = more[k]
        BY <1>3
      <4>4. p[i] = IF q[i].type = type THEN q[i].price ELSE 0
        BY <1>4
      <4>5. t[k] = IF more[k].type = type THEN more[k].price ELSE 0
        BY <1>4
      <4>6. QED
        BY <4>1, <4>2, <4>3, <4>4, <4>5
    <3> HIDE DEF r
    <3>3. i <= m \/ i > m
      BY <1>3
    <3>4. QED
      BY <3>1, <3>2, <3>3
  <2> HIDE DEF r
  <2>3. DOMAIN p = 1..(m + n) /\ DOMAIN r = 1..(m + n)
        /\ p = [i \in DOMAIN p |-> p[i]] /\ r = [i \in DOMAIN r |-> r[i]]
    BY <1>3, <2>1
  <2>4. QED
    BY <2>2, <2>3
<1>6. AmountIn(q, type) = SumOf(s) + SumOf(t)
  BY <1>1, <1>2, <1>5, SumTogether DEF p, r
<1>7. QED
  BY <1>1, <1>6 DEF q

LEMMA AmountOfOne ==
    ASSUME NEW r \in RowSet, NEW type
    PROVE  AmountIn(<<r>>, type) = IF r.type = type THEN r.price ELSE 0
<1> DEFINE x == IF r.type = type THEN r.price ELSE 0
<1>1. x \in Nat
  BY DEF RowSet
<1>2. [i \in DOMAIN <<r>> |-> IF <<r>>[i].type = type THEN <<r>>[i].price ELSE 0] = <<x>>
  OBVIOUS
<1> HIDE DEF x
<1>3. AmountIn(<<r>>, type) = SumOf(<<x>>)
  BY <1>2 DEF AmountIn
<1>4. QED
  BY <1>1, <1>3, SumOfOne DEF x

\* The first row of a type is one of that type, if there is any.
LEMMA FirstFacts ==
    ASSUME NEW rows \in Seq(RowSet), NEW type
    PROVE  /\ FirstOf(rows, type) \in 0..Len(rows)
           /\ FirstOf(rows, type) # 0 => rows[FirstOf(rows, type)].type = type
           /\ \A i \in 1..Len(rows) : rows[i].type = type =>
                 FirstOf(rows, type) \in 1..i
<1> DEFINE places == {i \in 1..Len(rows) : rows[i].type = type}
<1>1. FirstOf(rows, type) = IF places # {} THEN Min(places) ELSE 0
  BY DEF FirstOf, SelectInSeq
<1>2. Len(rows) \in Nat /\ places \subseteq 1..Len(rows)
  OBVIOUS
<1>3. places # {} => Min(places) \in places /\ \A y \in places : Min(places) <= y
  BY <1>2, Least
<1>4. \A i \in 1..Len(rows) : rows[i].type = type => i \in places
  OBVIOUS
<1>5. \A i \in places : i \in 1..Len(rows) /\ rows[i].type = type
  OBVIOUS
<1> HIDE DEF places
<1>6. CASE places = {}
  <2>1. FirstOf(rows, type) = 0
    BY <1>1, <1>6
  <2>2. QED
    BY <1>2, <1>4, <1>6, <2>1
<1>7. CASE places # {}
  <2> DEFINE x == FirstOf(rows, type)
  <2>1. x \in places /\ \A y \in places : x <= y
    BY <1>1, <1>3, <1>7
  <2> HIDE DEF x
  <2>2. x \in 1..Len(rows) /\ rows[x].type = type
    BY <1>5, <2>1
  <2>3. ASSUME NEW i \in 1..Len(rows), rows[i].type = type PROVE x \in 1..i
    <3>1. x <= i
      BY <1>4, <2>1, <2>3
    <3>2. QED
      BY <1>2, <2>2, <3>1
  <2>4. x \in 0..Len(rows)
    BY <1>2, <2>2
  <2>5. QED
    BY <2>2, <2>3, <2>4 DEF x
<1>8. QED
  BY <1>6, <1>7

LEMMA AmountOfNone ==
    ASSUME NEW rows \in Seq(RowSet), NEW type, FirstOf(rows, type) = 0
    PROVE  AmountIn(rows, type) = 0
<1>1. \A i \in 1..Len(rows) : rows[i].type # type
  BY FirstFacts
<1>2. /\ PricesOf(rows, type) \in Seq(Nat) /\ Len(PricesOf(rows, type)) = Len(rows)
      /\ AmountIn(rows, type) = SumOf(PricesOf(rows, type))
  BY PricesOfType
<1>3. \A i \in 1..Len(rows) : PricesOf(rows, type)[i] = 0
  BY <1>1 DEF PricesOf
<1>4. QED
  BY <1>2, <1>3, SumOfZeros

\* What is written later does not come first.
LEMMA FirstTogether ==
    ASSUME NEW rows \in Seq(RowSet), NEW more \in Seq(RowSet), NEW type
    PROVE  FirstOf(rows \o more, type) =
               IF FirstOf(rows, type) # 0 THEN FirstOf(rows, type)
               ELSE IF FirstOf(more, type) # 0 THEN Len(rows) + FirstOf(more, type) ELSE 0
<1> DEFINE q == rows \o more
           m == Len(rows)
           n == Len(more)
           x == FirstOf(rows, type)
           y == FirstOf(more, type)
           z == FirstOf(q, type)
<1>1. /\ q \in Seq(RowSet) /\ Len(q) = m + n /\ m \in Nat /\ n \in Nat
      /\ \A i \in 1..m : q[i] = rows[i]
      /\ \A i \in 1..n : q[m + i] = more[i]
  OBVIOUS
<1>2. /\ x \in 0..m /\ (x # 0 => rows[x].type = type)
      /\ \A i \in 1..m : rows[i].type = type => x \in 1..i
      /\ y \in 0..n /\ (y # 0 => more[y].type = type)
      /\ \A i \in 1..n : more[i].type = type => y \in 1..i
  BY FirstFacts
<1>3. /\ z \in 0..(m + n) /\ (z # 0 => q[z].type = type)
      /\ \A i \in 1..(m + n) : q[i].type = type => z \in 1..i
  BY <1>1, FirstFacts
<1> HIDE DEF q, x, y, z, m, n
<1>4. CASE x # 0
  <2>1. x \in 1..m /\ x \in 1..(m + n) /\ q[x].type = type
    BY <1>1, <1>2, <1>4
  <2>2. z \in 1..x /\ z \in 1..m /\ z # 0
    BY <1>1, <1>3, <2>1
  <2>3. rows[z].type = type
    BY <1>1, <1>3, <2>2
  <2>4. z = x
    BY <1>1, <1>2, <2>1, <2>2, <2>3
  <2>5. QED
    BY <1>4, <2>4 DEF q, x, y, z
<1>5. CASE x = 0 /\ z # 0
  <2>1. z \notin 1..m
    BY <1>1, <1>2, <1>3, <1>5
  <2>2. PICK k \in 1..n : z = m + k
    <3>1. z \in Nat /\ m < z /\ z <= m + n /\ m \in Nat /\ n \in Nat
      BY <1>1, <1>3, <1>5, <2>1
    <3>2. z - m \in 1..n /\ z = m + (z - m)
      BY <3>1
    <3>3. QED
      BY <3>2
  <2>3. more[k].type = type
    BY <1>1, <1>3, <1>5, <2>2
  <2>4. y \in 1..k /\ y # 0
    BY <1>2, <2>3
  <2>5. PICK l \in 1..(m + n) : l = m + y
    BY <1>1, <1>2, <2>4
  <2>6. q[l].type = type
    BY <1>1, <1>2, <2>4, <2>5
  <2>7. z = m + y
    <3>1. z \in 1..l
      BY <1>3, <2>6
    <3>2. m \in Nat /\ y \in Nat /\ k \in Nat /\ y <= k
      BY <1>1, <1>2, <2>4
    <3>3. z <= m + y /\ z = m + k
      BY <2>2, <2>5, <3>1
    <3>4. QED
      BY <3>2, <3>3
  <2>8. QED
    BY <1>5, <2>4, <2>7 DEF q, x, y, z, m
<1>6. CASE x = 0 /\ z = 0
  <2>1. y = 0
    <3> SUFFICES ASSUME y # 0 PROVE FALSE
      OBVIOUS
    <3>1. PICK l \in 1..(m + n) : l = m + y
      BY <1>1, <1>2
    <3>2. q[l].type = type
      BY <1>1, <1>2, <3>1
    <3>3. QED
      BY <1>3, <1>6, <3>2
  <2>2. QED
    BY <1>6, <2>1 DEF q, x, y, z
<1>7. QED
  BY <1>4, <1>5, <1>6

LEMMA FirstOfOne ==
    ASSUME NEW r \in RowSet, NEW type
    PROVE  FirstOf(<<r>>, type) = IF r.type = type THEN 1 ELSE 0
<1>1. <<r>> \in Seq(RowSet) /\ Len(<<r>>) = 1 /\ <<r>>[1] = r
  OBVIOUS
<1>2. /\ FirstOf(<<r>>, type) \in 0..1
      /\ FirstOf(<<r>>, type) # 0 => <<r>>[FirstOf(<<r>>, type)].type = type
      /\ \A i \in 1..1 : <<r>>[i].type = type => FirstOf(<<r>>, type) \in 1..i
  BY <1>1, FirstFacts
<1>3. QED
  BY <1>1, <1>2

\* The types of a list's rows: there is a first one of those, and of no other.
TypesOf(rows) == {rows[i].type : i \in DOMAIN rows}

LEMMA FirstOfTypes ==
    ASSUME NEW rows \in Seq(RowSet), NEW type
    PROVE  type \in TypesOf(rows) <=> FirstOf(rows, type) # 0
<1> DEFINE x == FirstOf(rows, type)
<1>1. /\ x \in 0..Len(rows) /\ (x # 0 => rows[x].type = type)
      /\ \A i \in 1..Len(rows) : rows[i].type = type => x \in 1..i
  BY FirstFacts
<1>2. DOMAIN rows = 1..Len(rows) /\ Len(rows) \in Nat
  OBVIOUS
<1> HIDE DEF x
<1>3. type \in TypesOf(rows) => x # 0
  BY <1>1, <1>2 DEF TypesOf
<1>4. x # 0 => type \in TypesOf(rows)
  <2>1. x # 0 => x \in DOMAIN rows
    BY <1>1, <1>2
  <2>2. QED
    BY <1>1, <2>1 DEF TypesOf
<1>5. QED
  BY <1>3, <1>4 DEF x

LEMMA TypesTogether ==
    ASSUME NEW rows \in Seq(RowSet), NEW more \in Seq(RowSet)
    PROVE  TypesOf(rows \o more) = TypesOf(rows) \cup TypesOf(more)
<1>1. rows \o more \in Seq(RowSet) /\ \A t :
          FirstOf(rows \o more, t) # 0 <=> FirstOf(rows, t) # 0 \/ FirstOf(more, t) # 0
  <2>1. rows \o more \in Seq(RowSet) /\ Len(rows) \in Nat
    OBVIOUS
  <2>2. ASSUME NEW t
        PROVE  FirstOf(rows \o more, t) # 0 <=>
                   FirstOf(rows, t) # 0 \/ FirstOf(more, t) # 0
    <3>1. FirstOf(rows, t) \in Nat /\ FirstOf(more, t) \in Nat
      <4>1. FirstOf(rows, t) \in 0..Len(rows) /\ FirstOf(more, t) \in 0..Len(more)
        BY FirstFacts
      <4>2. QED
        BY <4>1
    <3>2. QED
      BY <2>1, <3>1, FirstTogether
  <2>3. QED
    BY <2>1, <2>2
<1>2. \A t : t \in TypesOf(rows \o more) <=> t \in TypesOf(rows) \cup TypesOf(more)
  BY <1>1, FirstOfTypes
<1>3. QED
  BY <1>2

LEMMA TypesOfOne ==
    ASSUME NEW r
    PROVE  TypesOf(<<r>>) = {r.type} /\ TypesOf(<<>>) = {}
  BY DEF TypesOf

LEMMA NothingWritten ==
    ASSUME NEW rows, rows = <<>>
    PROVE  rows \in Seq(RowSet) /\ \A t : FirstOf(rows, t) = 0
<1>1. <<>> \in Seq(RowSet)
  OBVIOUS
<1>2. \A t : t \notin TypesOf(<<>>)
  BY DEF TypesOf
<1>3. \A t : FirstOf(<<>>, t) = 0
  BY <1>1, <1>2, FirstOfTypes
<1>4. QED
  BY <1>1, <1>3

\* What a row that is written changes, and what it leaves.
LEMMA Written ==
    ASSUME NEW rows \in Seq(RowSet), NEW more \in Seq(RowSet), NEW type
    PROVE  /\ rows \o more \in Seq(RowSet)
           /\ type \notin TypesOf(more) =>
                 /\ FirstOf(rows \o more, type) = FirstOf(rows, type)
                 /\ AmountIn(rows \o more, type) = AmountIn(rows, type)
           /\ FirstOf(rows, type) # 0 =>
                 FirstOf(rows \o more, type) = FirstOf(rows, type)
           /\ FirstOf(rows, type) = 0 =>
                 AmountIn(rows \o more, type) = AmountIn(more, type)
           /\ FirstOf(rows, type) = 0 /\ type \in TypesOf(more) =>
                 FirstOf(rows \o more, type) = Len(rows) + FirstOf(more, type)
<1>1. /\ FirstOf(rows, type) \in 0..Len(rows) /\ FirstOf(more, type) \in 0..Len(more)
      /\ Len(rows) \in Nat /\ Len(more) \in Nat
  BY FirstFacts
<1>2. AmountIn(rows, type) \in Nat /\ AmountIn(more, type) \in Nat
  BY PricesOfType
<1>3. type \in TypesOf(more) <=> FirstOf(more, type) # 0
  BY FirstOfTypes
<1>4. /\ FirstOf(more, type) = 0 => AmountIn(more, type) = 0
      /\ FirstOf(rows, type) = 0 => AmountIn(rows, type) = 0
  BY AmountOfNone
<1>5. /\ AmountIn(rows \o more, type) = AmountIn(rows, type) + AmountIn(more, type)
      /\ FirstOf(rows \o more, type) =
             IF FirstOf(rows, type) # 0 THEN FirstOf(rows, type)
             ELSE IF FirstOf(more, type) # 0 THEN Len(rows) + FirstOf(more, type) ELSE 0
  BY AmountsTogether, FirstTogether
<1>6. rows \o more \in Seq(RowSet)
  OBVIOUS
<1>7. QED
  BY <1>1, <1>2, <1>3, <1>4, <1>5, <1>6

-----------------------------------------------------------------------------
(* Products and rows.                                                       *)

LEMMA TotalIsNumber ==
    ASSUME NEW items \in Seq(Catalog)
    PROVE  Total(items) \in Nat /\ Total(<<>>) = 0
<1> DEFINE prices == [i \in DOMAIN items |-> items[i].price]
<1>1. \A q \in Catalog : q.price \in Nat
  BY TrafficAssumption
<1>2. /\ Len(items) \in Nat /\ DOMAIN items = 1..Len(items)
      /\ \A i \in 1..Len(items) : items[i] \in Catalog
  OBVIOUS
<1>3. prices \in Seq(Nat) /\ <<>> \in Seq(Nat)
  BY <1>1, <1>2
<1>4. Total(items) = SumOf(prices)
  BY DEF Total
<1> HIDE DEF prices
<1>5. SumOf(prices) \in Nat
  BY <1>3, SumTogether
<1>6. Total(<<>>) = 0
  <2>1. [i \in DOMAIN <<>> |-> <<>>[i].price] = <<>>
    OBVIOUS
  <2>2. SumOf(<<>>) = 0
    BY SumOfOne, 0 \in Nat
  <2>3. QED
    BY <2>1, <2>2 DEF Total
<1>7. QED
  BY <1>4, <1>5, <1>6

LEMMA TotalFacts ==
    ASSUME NEW items \in Seq(Catalog), NEW p \in Catalog
    PROVE  /\ Total(<<p>>) = p.price
           /\ Total(Append(items, p)) = Total(items) + p.price
<1> DEFINE prices == [i \in DOMAIN items |-> items[i].price]
           more   == [i \in DOMAIN Append(items, p) |-> Append(items, p)[i].price]
<1>1. \A q \in Catalog : q.price \in Nat
  BY TrafficAssumption
<1>2. /\ Len(items) \in Nat /\ DOMAIN items = 1..Len(items)
      /\ \A i \in 1..Len(items) : items[i] \in Catalog
  OBVIOUS
<1>3. prices \in Seq(Nat) /\ Len(prices) = Len(items)
  BY <1>1, <1>2
<1>4. more = prices \o <<p.price>>
  <2>1. /\ DOMAIN Append(items, p) = 1..(Len(items) + 1)
        /\ \A i \in 1..Len(items) : Append(items, p)[i] = items[i]
        /\ Append(items, p)[Len(items) + 1] = p
    OBVIOUS
  <2>2. /\ prices \o <<p.price>> \in Seq(Nat) /\ Len(prices \o <<p.price>>) = Len(items) + 1
        /\ \A i \in 1..Len(items) : (prices \o <<p.price>>)[i] = prices[i]
        /\ (prices \o <<p.price>>)[Len(items) + 1] = p.price
    <3>1. <<p.price>> \in Seq(Nat) /\ Len(<<p.price>>) = 1 /\ <<p.price>>[1] = p.price
      BY <1>1
    <3> HIDE DEF prices
    <3>2. QED
      BY <1>2, <1>3, <3>1
  <2> DEFINE r == prices \o <<p.price>>
  <2>3. r = [i \in 1..(Len(items) + 1) |-> r[i]]
    BY <2>2
  <2>4. more = [i \in 1..(Len(items) + 1) |-> Append(items, p)[i].price]
    BY <2>1
  <2>5. \A i \in 1..Len(items) : prices[i] = items[i].price
    BY <1>2
  <2> HIDE DEF r, prices, more
  <2>6. \A i \in 1..(Len(items) + 1) : r[i] = Append(items, p)[i].price
    BY <1>2, <2>1, <2>2, <2>5 DEF r
  <2>7. QED
    BY <2>3, <2>4, <2>6 DEF r
<1>5. p.price \in Nat /\ <<p.price>> \in Seq(Nat)
  BY <1>1
<1>6. Total(Append(items, p)) = SumOf(more) /\ Total(items) = SumOf(prices)
  BY DEF Total
<1> HIDE DEF prices, more
<1>7. /\ SumOf(prices) \in Nat
      /\ SumOf(prices \o <<p.price>>) = SumOf(prices) + SumOf(<<p.price>>)
  BY <1>3, <1>5, SumTogether
<1>8. SumOf(<<p.price>>) = p.price /\ SumOf(<<>>) = 0
  BY <1>5, SumOfOne
<1>9. Total(<<p>>) = p.price
  <2>1. [i \in DOMAIN <<p>> |-> <<p>>[i].price] = <<p.price>>
    OBVIOUS
  <2>2. QED
    BY <1>8, <2>1 DEF Total
<1>10. QED
  BY <1>4, <1>6, <1>7, <1>8, <1>9

LEMMA TablesNamed ==
    "feedback" \in TableSet /\ "turns" \in TableSet /\ "events" \in TableSet
    /\ "orders" \in TableSet
  BY TableFacts

\* The rows that are not events.
LEMMA RowsAreRows ==
    /\ TurnRow("answered") \in RowSet /\ TurnRow("answered").type = "answered"
    /\ TurnRow("cart") \in RowSet /\ TurnRow("cart").type = "cart"
    /\ Vote \in RowSet /\ Vote.type = "vote"
<1>1. ASSUME NEW outcome \in RowTypes, outcome # "order"
      PROVE  TurnRow(outcome) \in RowSet /\ TurnRow(outcome).type = outcome
  BY <1>1, TablesNamed DEF TurnRow, RowSet
<1>2. Vote \in RowSet /\ Vote.type = "vote"
  BY TablesNamed DEF Vote, RowSet, RowTypes
<1>3. \A outcome \in {"answered", "cart"} :
          TurnRow(outcome) \in RowSet /\ TurnRow(outcome).type = outcome
  BY <1>1 DEF RowTypes
<1>4. QED
  BY <1>2, <1>3

LEMMA EventIsRow ==
    ASSUME NEW items \in Seq(Catalog), NEW type \in RowTypes, type # "order"
    PROVE  /\ Event(type, items) \in RowSet /\ Event(type, items).type = type
           /\ Event(type, items).price = Total(items)
<1>1. Total(items) \in Nat /\ Len(items) \in Nat
  BY TotalIsNumber
<1>2. QED
  BY <1>1, TablesNamed DEF Event, RowSet

\* The row of an order.
OrderRow(items) == [Event("order", items) EXCEPT !.table = "orders"]

LEMMA OrderIsRow ==
    ASSUME NEW items \in Seq(Catalog)
    PROVE  /\ OrderRow(items) \in RowSet /\ OrderRow(items).type = "order"
           /\ OrderRow(items).price = Total(items) /\ OrderRow(items).table = "orders"
<1>1. Total(items) \in Nat /\ Len(items) \in Nat
  BY TotalIsNumber
<1>2. OrderRow(items) = [table |-> "orders", type |-> "order",
                         qty |-> Len(items), price |-> Total(items)]
  BY DEF Event, OrderRow
<1>3. QED
  BY <1>1, <1>2, TablesNamed DEF RowSet, RowTypes

LEMMA TwoRows ==
    ASSUME NEW r \in RowSet, NEW q \in RowSet
    PROVE  /\ <<r>> \in Seq(RowSet) /\ <<q>> \in Seq(RowSet) /\ <<r, q>> \in Seq(RowSet)
           /\ <<r, q>> = <<r>> \o <<q>> /\ TypesOf(<<r, q>>) = {r.type, q.type}
<1>1. /\ <<r>> \in Seq(RowSet) /\ <<q>> \in Seq(RowSet) /\ <<r, q>> \in Seq(RowSet)
      /\ <<r, q>> = <<r>> \o <<q>>
  <2>1. <<r>> \in Seq(RowSet) /\ <<q>> \in Seq(RowSet)
    OBVIOUS
  <2>2. <<r, q>> \in Seq(RowSet)
    OBVIOUS
  <2>3. <<r, q>> = <<r>> \o <<q>>
    <3> DEFINE a == <<r>>
               b == <<q>>
               c == a \o b
    <3>1. a \in Seq(RowSet) /\ Len(a) = 1 /\ b \in Seq(RowSet) /\ Len(b) = 1
          /\ a[1] = r /\ b[1] = q
      OBVIOUS
    <3> HIDE DEF a, b
    <3>2. c \in Seq(RowSet) /\ Len(c) = 2 /\ c[1] = r /\ c[2] = q
      <4>0. ASSUME NEW u \in Seq(RowSet), NEW v \in Seq(RowSet)
            PROVE  /\ u \o v \in Seq(RowSet) /\ Len(u \o v) = Len(u) + Len(v)
                   /\ \A i \in 1..Len(u) : (u \o v)[i] = u[i]
                   /\ \A i \in 1..Len(v) : (u \o v)[Len(u) + i] = v[i]
        OBVIOUS
      <4>1. /\ a \o b \in Seq(RowSet) /\ Len(a \o b) = Len(a) + Len(b)
            /\ \A i \in 1..Len(a) : (a \o b)[i] = a[i]
            /\ \A i \in 1..Len(b) : (a \o b)[Len(a) + i] = b[i]
        BY <3>1, <4>0
      <4>2. PICK i \in 1..Len(a) : i = 1
        BY <3>1
      <4>3. PICK j \in 1..Len(b) : j = 1 /\ Len(a) + j = 2
        BY <3>1
      <4> HIDE DEF c
      <4>4. c[i] = a[i] /\ c[Len(a) + j] = b[j]
        BY <4>1 DEF c
      <4>5. c \in Seq(RowSet) /\ Len(c) = 2
        BY <3>1, <4>1 DEF c
      <4>6. QED
        BY <3>1, <4>2, <4>3, <4>4, <4>5
    <3> HIDE DEF c
    <3>3. c = <<r, q>>
      <4> DEFINE d == <<r, q>>
      <4>1. d \in Seq(RowSet) /\ Len(d) = 2 /\ d[1] = r /\ d[2] = q
        OBVIOUS
      <4> HIDE DEF d
      <4>2. DOMAIN c = 1..2 /\ DOMAIN d = 1..2 /\ \A i \in 1..2 : c[i] = d[i]
        BY <3>2, <4>1
      <4>3. c = [i \in DOMAIN c |-> c[i]] /\ d = [i \in DOMAIN d |-> d[i]]
        BY <3>2, <4>1
      <4>4. c = d
        BY <4>2, <4>3
      <4>5. QED
        BY <4>4 DEF d
    <3>4. QED
      BY <3>3 DEF a, b, c
  <2>4. QED
    BY <2>1, <2>2, <2>3
<1>2. TypesOf(<<r, q>>) = TypesOf(<<r>>) \cup TypesOf(<<q>>)
  BY <1>1, TypesTogether
<1>3. TypesOf(<<r>>) = {r.type} /\ TypesOf(<<q>>) = {q.type}
  BY TypesOfOne
<1>4. QED
  BY <1>1, <1>2, <1>3

\* A question and its answer.
LEMMA AsksRows ==
    Asks("answered") \in Seq(RowSet)
    /\ TypesOf(Asks("answered")) = {"copilot_message", "answered"}
<1>1. <<>> \in Seq(Catalog) /\ "copilot_message" \in RowTypes
  BY DEF RowTypes
<1>2. Event("copilot_message", <<>>) \in RowSet
      /\ Event("copilot_message", <<>>).type = "copilot_message"
  <2>1. "copilot_message" # "order"
    OBVIOUS
  <2>2. QED
    BY <1>1, <2>1, EventIsRow
<1>3. QED
  BY <1>2, RowsAreRows, TwoRows DEF Asks

\* The rows that a journey may have before it adds to the cart.
EarlyTypes == {"search", "view_product", "copilot_message", "copilot_product_click", "answered"}

LEMMA EventAlone ==
    ASSUME NEW items \in Seq(Catalog), NEW type \in RowTypes, type # "order"
    PROVE  /\ <<Event(type, items)>> \in Seq(RowSet)
           /\ TypesOf(<<Event(type, items)>>) = {type}
           /\ FirstOf(<<Event(type, items)>>, type) = 1
           /\ AmountIn(<<Event(type, items)>>, type) = Total(items)
<1>1. Event(type, items) \in RowSet /\ Event(type, items).type = type
      /\ Event(type, items).price = Total(items)
  BY EventIsRow
<1>2. <<Event(type, items)>> \in Seq(RowSet)
  BY <1>1
<1>3. QED
  BY <1>1, <1>2, TypesOfOne, FirstOfOne, AmountOfOne

\* What a shopper does first.
Opens(cohort, p) ==
    /\ Opening(cohort, p) \in Seq(RowSet) /\ TypesOf(Opening(cohort, p)) \subseteq EarlyTypes
    /\ cohort # "baseline" => "answered" \in TypesOf(Opening(cohort, p))

LEMMA OpeningRows ==
    ASSUME NEW p \in Catalog
    PROVE  Opens("baseline", p) /\ Opens("sizing", p) /\ Opens("policy", p)
<1> DEFINE views == <<Event("view_product", <<p>>)>>
           search == <<Event("search", <<>>)>>
           click == <<Event("copilot_product_click", <<p>>)>>
           asks == Asks("answered")
<1>1. <<>> \in Seq(Catalog) /\ <<p>> \in Seq(Catalog)
  OBVIOUS
<1>2. ASSUME NEW items \in Seq(Catalog),
             NEW type \in {"view_product", "search", "copilot_product_click"}
      PROVE  /\ <<Event(type, items)>> \in Seq(RowSet)
             /\ TypesOf(<<Event(type, items)>>) = {type}
  <2>1. type \in RowTypes /\ type # "order"
    BY DEF RowTypes
  <2>2. QED
    BY <2>1, EventAlone
<1>3. /\ views \in Seq(RowSet) /\ TypesOf(views) = {"view_product"}
      /\ search \in Seq(RowSet) /\ TypesOf(search) = {"search"}
      /\ click \in Seq(RowSet) /\ TypesOf(click) = {"copilot_product_click"}
  BY <1>1, <1>2
<1>4. asks \in Seq(RowSet) /\ TypesOf(asks) = {"copilot_message", "answered"}
  BY AsksRows
<1>5. /\ Opening("baseline", p) = search \o views
      /\ Opening("sizing", p) = views \o asks \o click
      /\ Opening("policy", p) = views \o asks
  BY Zenon DEF Opening
<1> HIDE DEF views, search, click, asks
<1>6. /\ search \o views \in Seq(RowSet) /\ views \o asks \in Seq(RowSet)
      /\ TypesOf(search \o views) = {"search", "view_product"}
      /\ TypesOf(views \o asks) = {"view_product", "copilot_message", "answered"}
  BY <1>3, <1>4, TypesTogether
<1>7. /\ views \o asks \o click \in Seq(RowSet)
      /\ TypesOf(views \o asks \o click) =
             TypesOf(views \o asks) \cup {"copilot_product_click"}
  <2> DEFINE asked == views \o asks
  <2>1. asked \in Seq(RowSet)
    BY <1>6
  <2> HIDE DEF asked
  <2>2. asked \o click \in Seq(RowSet)
    BY <1>3, <2>1
  <2>3. TypesOf(asked \o click) = TypesOf(asked) \cup TypesOf(click)
    BY <1>3, <2>1, TypesTogether
  <2>4. QED
    BY <1>3, <2>2, <2>3 DEF asked
<1>8. QED
  BY <1>5, <1>6, <1>7 DEF Opens, EarlyTypes

\* An event of each product.
LEMMA EventsOfEach ==
    ASSUME NEW items \in Seq(Catalog), NEW type \in RowTypes, type # "order"
    PROVE  /\ EventOfEach(type, items) \in Seq(RowSet)
           /\ TypesOf(EventOfEach(type, items)) \subseteq {type}
           /\ Len(items) = 1 => EventOfEach(type, items) = <<Event(type, items)>>
<1>1. /\ Len(items) \in Nat /\ DOMAIN items = 1..Len(items)
      /\ \A i \in 1..Len(items) : items[i] \in Catalog /\ <<items[i]>> \in Seq(Catalog)
  OBVIOUS
<1>2. \A i \in 1..Len(items) :
          Event(type, <<items[i]>>) \in RowSet /\ Event(type, <<items[i]>>).type = type
  BY <1>1, EventIsRow
<1>3. EventOfEach(type, items) = [i \in 1..Len(items) |-> Event(type, <<items[i]>>)]
  BY <1>1 DEF EventOfEach
<1>4. EventOfEach(type, items) \in Seq(RowSet)
  BY <1>1, <1>2, <1>3
<1>5. TypesOf(EventOfEach(type, items)) \subseteq {type}
  BY <1>2, <1>3 DEF TypesOf
<1>6. ASSUME Len(items) = 1 PROVE EventOfEach(type, items) = <<Event(type, items)>>
  <2>1. items = <<items[1]>>
    BY <1>6
  <2>2. EventOfEach(type, items) = [i \in 1..1 |-> Event(type, <<items[i]>>)]
    BY <1>3, <1>6
  <2>3. Event(type, <<items[1]>>) = Event(type, items)
    BY <2>1
  <2>4. QED
    BY <2>2, <2>3
<1>7. QED
  BY <1>4, <1>5, <1>6

\* The order, and the event of it.
LEMMA OrderRowsAre ==
    ASSUME NEW items \in Seq(Catalog)
    PROVE  /\ OrderRows(items) \in Seq(RowSet)
           /\ TypesOf(OrderRows(items)) = {"order", "purchase_mock"}
           /\ FirstOf(OrderRows(items), "order") = 1
           /\ AmountIn(OrderRows(items), "order") = Total(items)
           /\ AmountIn(OrderRows(items), "purchase_mock") = Total(items)
<1> DEFINE r == OrderRow(items)
           q == Event("purchase_mock", items)
<1>1. r \in RowSet /\ r.type = "order" /\ r.price = Total(items)
  BY OrderIsRow
<1>2. q \in RowSet /\ q.type = "purchase_mock" /\ q.price = Total(items)
  <2>1. "purchase_mock" \in RowTypes /\ "purchase_mock" # "order"
    BY DEF RowTypes
  <2>2. QED
    BY <2>1, EventIsRow
<1>3. OrderRows(items) = <<r, q>>
  BY DEF OrderRows, OrderRow
<1> HIDE DEF r, q
<1>4. <<r>> \in Seq(RowSet) /\ <<q>> \in Seq(RowSet) /\ <<r, q>> \in Seq(RowSet)
      /\ <<r, q>> = <<r>> \o <<q>> /\ TypesOf(<<r, q>>) = {r.type, q.type}
  BY <1>1, <1>2, TwoRows
<1>5. /\ FirstOf(<<r>>, "order") = 1 /\ FirstOf(<<r>>, "purchase_mock") = 0
      /\ AmountIn(<<r>>, "order") = Total(items) /\ AmountIn(<<r>>, "purchase_mock") = 0
      /\ AmountIn(<<q>>, "purchase_mock") = Total(items) /\ AmountIn(<<q>>, "order") = 0
  BY <1>1, <1>2, FirstOfOne, AmountOfOne
<1>6. FirstOf(<<r>> \o <<q>>, "order") = 1
  BY <1>4, <1>5, FirstTogether
<1>7. \A type : AmountIn(<<r>> \o <<q>>, type) = AmountIn(<<r>>, type) + AmountIn(<<q>>, type)
  BY <1>4, AmountsTogether
<1>8. Total(items) \in Nat
  BY TotalIsNumber
<1>9. \A type \in {"order", "purchase_mock"} :
          AmountIn(<<r>> \o <<q>>, type) = Total(items)
  <2>1. \A type \in {"order", "purchase_mock"} :
            AmountIn(<<r>>, type) + AmountIn(<<q>>, type) = Total(items)
    BY <1>5, <1>8
  <2>2. QED
    BY <1>7, <2>1
<1>10. QED
  BY <1>1, <1>2, <1>3, <1>4, <1>6, <1>9

-----------------------------------------------------------------------------
(* The rows of a cart.                                                       *)

\* What the copilot's add of a product writes.
AddsOf(p) == << Event("copilot_add_to_cart", <<p>>), Event("add_to_cart", <<p>>) >>

LEMMA AddsOfOne ==
    ASSUME NEW p \in Catalog
    PROVE  /\ AddsOf(p) \in Seq(RowSet)
           /\ TypesOf(AddsOf(p)) = {"copilot_add_to_cart", "add_to_cart"}
           /\ FirstOf(AddsOf(p), "copilot_add_to_cart") = 1
           /\ AmountIn(AddsOf(p), "add_to_cart") = p.price
<1> DEFINE r == Event("copilot_add_to_cart", <<p>>)
           q == Event("add_to_cart", <<p>>)
<1>1. <<p>> \in Seq(Catalog) /\ Total(<<p>>) = p.price /\ p.price \in Nat
  <2>1. <<>> \in Seq(Catalog) /\ <<p>> \in Seq(Catalog)
    OBVIOUS
  <2>2. QED
    BY <2>1, TotalFacts, TrafficAssumption
<1>2. \A type \in {"copilot_add_to_cart", "add_to_cart"} :
          /\ Event(type, <<p>>) \in RowSet /\ Event(type, <<p>>).type = type
          /\ Event(type, <<p>>).price = Total(<<p>>)
  <2>1. \A type \in {"copilot_add_to_cart", "add_to_cart"} : type \in RowTypes /\ type # "order"
    BY DEF RowTypes
  <2>2. QED
    BY <1>1, <2>1, EventIsRow
<1>3. /\ r \in RowSet /\ r.type = "copilot_add_to_cart"
      /\ q \in RowSet /\ q.type = "add_to_cart" /\ q.price = p.price
  BY <1>1, <1>2
<1>4. AddsOf(p) = <<r, q>>
  BY DEF AddsOf
<1> HIDE DEF r, q
<1>5. <<r>> \in Seq(RowSet) /\ <<q>> \in Seq(RowSet) /\ <<r, q>> \in Seq(RowSet)
      /\ <<r, q>> = <<r>> \o <<q>> /\ TypesOf(<<r, q>>) = {r.type, q.type}
  BY <1>3, TwoRows
<1>6. /\ FirstOf(<<r>>, "copilot_add_to_cart") = 1
      /\ AmountIn(<<r>>, "add_to_cart") = 0 /\ AmountIn(<<q>>, "add_to_cart") = p.price
  BY <1>3, FirstOfOne, AmountOfOne
<1>7. FirstOf(<<r>> \o <<q>>, "copilot_add_to_cart") = 1
  BY <1>5, <1>6, FirstTogether
<1>8. AmountIn(<<r>> \o <<q>>, "add_to_cart") = p.price
  <2>1. \A type : AmountIn(<<r>> \o <<q>>, type) =
                      AmountIn(<<r>>, type) + AmountIn(<<q>>, type)
    BY <1>5, AmountsTogether
  <2>2. PICK type : type = "add_to_cart"
    OBVIOUS
  <2>3. AmountIn(<<r>> \o <<q>>, type) = AmountIn(<<r>>, type) + AmountIn(<<q>>, type)
    BY <2>1
  <2>4. QED
    BY <1>1, <1>6, <2>2, <2>3
<1>9. QED
  BY <1>3, <1>4, <1>5, <1>7, <1>8

\* Those of an outfit, the first i pieces of which come to the first i prices.
OutfitRows(items) == FlattenSeq([i \in DOMAIN items |-> AddsOf(items[i])])

LEMMA OutfitRowsAre ==
    ASSUME NEW items \in Seq(Catalog), items # <<>>
    PROVE  /\ OutfitRows(items) \in Seq(RowSet)
           /\ TypesOf(OutfitRows(items)) = {"copilot_add_to_cart", "add_to_cart"}
           /\ FirstOf(OutfitRows(items), "copilot_add_to_cart") = 1
           /\ AmountIn(OutfitRows(items), "add_to_cart") = Total(items)
<1> DEFINE n == Len(items)
           seqs == [i \in DOMAIN items |-> AddsOf(items[i])]
           prices == [i \in DOMAIN items |-> items[i].price]
<1>1. n \in Nat /\ n # 0 /\ DOMAIN items = 1..n /\ \A i \in 1..n : items[i] \in Catalog
  OBVIOUS
<1>2. \A i \in 1..n : items[i].price \in Nat
  BY <1>1, TrafficAssumption
<1>3. /\ prices \in Seq(Nat) /\ Len(prices) = n
      /\ \A i \in 1..n : prices[i] = items[i].price
  BY <1>1, <1>2
<1>4. \A i \in 1..n : AddsOf(items[i]) \in Seq(RowSet)
  BY <1>1, AddsOfOne
<1>5. seqs \in Seq(Seq(RowSet)) /\ Len(seqs) = n
  BY <1>1, <1>4
<1>adds. \A i \in 1..n : seqs[i] = AddsOf(items[i])
  BY <1>1
<1>6. PICK f : IsSum(f, prices)
  <2> HIDE DEF prices
  <2> QED
    BY <1>3, SumIsRecursion DEF HasSum
<1>7. PICK h : IsFlat(h, seqs, RowSet)
  <2> HIDE DEF seqs
  <2> QED
    BY <1>5, FlattenGrows DEF HasFlat
<1>8. Total(items) = SumOf(prices) /\ OutfitRows(items) = FlattenSeq(seqs)
  BY DEF Total, OutfitRows
<1> HIDE DEF n, seqs, prices
<1>9. /\ f \in [0..n -> Nat] /\ f[0] = 0 /\ Total(items) = f[n]
      /\ \A i \in 1..n : f[i] = f[i - 1] + items[i].price
  BY <1>3, <1>6, <1>8 DEF IsSum
<1>10. /\ h \in [0..n -> Seq(RowSet)] /\ h[0] = <<>> /\ OutfitRows(items) = h[n]
       /\ \A i \in 1..n : h[i] = h[i - 1] \o AddsOf(items[i])
  BY <1>5, <1>adds, <1>7, <1>8 DEF IsFlat
<1> DEFINE Pieces(i) ==
        /\ AmountIn(h[i], "add_to_cart") = f[i]
        /\ i # 0 => /\ TypesOf(h[i]) = {"copilot_add_to_cart", "add_to_cart"}
                    /\ FirstOf(h[i], "copilot_add_to_cart") = 1
           S == {i \in 0..n : Pieces(i)}
<1>11. 0 \in S
  <2>1. AmountIn(<<>>, "add_to_cart") = 0
    <3>1. <<>> \in Seq(RowSet) /\ \A type : type \notin TypesOf(<<>>)
      BY DEF TypesOf
    <3>2. FirstOf(<<>>, "add_to_cart") = 0
      BY <3>1, FirstOfTypes
    <3>3. QED
      BY <3>1, <3>2, AmountOfNone
  <2>2. QED
    BY <1>1, <1>9, <1>10, <2>1
<1>12. ASSUME NEW i \in 1..n, i - 1 \in S PROVE i \in S
  <2> DEFINE a == h[i - 1]
             b == AddsOf(items[i])
  <2>1. /\ i - 1 \in 0..n /\ h[i] = a \o b /\ a \in Seq(RowSet)
        /\ f[i] = f[i - 1] + items[i].price
    <3>1. i - 1 \in 0..n
      BY <1>1
    <3>2. h[i - 1] \in Seq(RowSet)
      BY <1>10, <3>1
    <3>3. h[i] = h[i - 1] \o AddsOf(items[i])
      BY <1>10
    <3>4. f[i] = f[i - 1] + items[i].price
      BY <1>9
    <3>5. QED
      BY <3>1, <3>2, <3>3, <3>4
  <2>2. /\ b \in Seq(RowSet) /\ TypesOf(b) = {"copilot_add_to_cart", "add_to_cart"}
        /\ FirstOf(b, "copilot_add_to_cart") = 1
        /\ AmountIn(b, "add_to_cart") = items[i].price
    BY <1>1, AddsOfOne
  <2>3. Pieces(i - 1)
    BY <1>12
  <2>first. (i = 1 => a = <<>>) /\ (i # 1 => i - 1 # 0) /\ i # 0 /\ i \in 0..n
    BY <1>1, <1>10
  <2> HIDE DEF a, b
  <2>4. AmountIn(a \o b, "add_to_cart") = f[i]
    <3>1. PICK type : type = "add_to_cart"
      OBVIOUS
    <3>2. AmountIn(a \o b, type) = AmountIn(a, type) + AmountIn(b, type)
      BY <2>1, <2>2, AmountsTogether
    <3>3. QED
      BY <2>1, <2>2, <2>3, <3>1, <3>2 DEF a
  <2>5. TypesOf(a \o b) = TypesOf(a) \cup TypesOf(b)
    BY <2>1, <2>2, TypesTogether
  <2>6. CASE i = 1
    <3>1. TypesOf(a) = {} /\ Len(a) = 0
      BY <2>first, <2>6 DEF TypesOf
    <3>2. FirstOf(a, "copilot_add_to_cart") = 0
      BY <2>1, <3>1, FirstOfTypes
    <3>3. FirstOf(a \o b, "copilot_add_to_cart") = 1
      BY <2>1, <2>2, <3>1, <3>2, FirstTogether
    <3>4. QED
      BY <2>1, <2>2, <2>first, <2>4, <2>5, <3>1, <3>3
  <2>7. CASE i # 1
    <3>1. TypesOf(a) = {"copilot_add_to_cart", "add_to_cart"}
          /\ FirstOf(a, "copilot_add_to_cart") = 1
      BY <2>3, <2>first, <2>7 DEF a
    <3>2. FirstOf(a \o b, "copilot_add_to_cart") = 1
      BY <2>1, <2>2, <3>1, FirstTogether
    <3>3. QED
      BY <2>1, <2>2, <2>first, <2>4, <2>5, <3>1, <3>2
  <2>8. QED
    BY <2>6, <2>7
<1>13. Pieces(n)
  <2>1. n \in 0..n
    BY <1>1
  <2>2. 0..n \subseteq S
    <3> HIDE DEF S
    <3> QED
      BY <1>1, <1>11, <1>12, Induction
  <2>3. QED
    BY <2>1, <2>2
<1>14. OutfitRows(items) \in Seq(RowSet)
  BY <1>1, <1>10
<1>15. QED
  BY <1>1, <1>9, <1>10, <1>13, <1>14

\* What is written when the journey adds to the cart, its turn behind the adds.
CartRows(cohort, items) ==
    IF cohort = "outfit" THEN OutfitRows(items) \o <<TurnRow("cart")>>
    ELSE EventOfEach("add_to_cart", items)

LEMMA CartRowsAre ==
    ASSUME NEW items \in Seq(Catalog), items # <<>>,
           NEW cohort, cohort # "outfit" => Len(items) = 1
    PROVE  LET rows == CartRows(cohort, items)
           IN  /\ rows \in Seq(RowSet) /\ "add_to_cart" \in TypesOf(rows)
               /\ TypesOf(rows) \subseteq {"copilot_add_to_cart", "add_to_cart", "cart"}
               /\ AmountIn(rows, "add_to_cart") = Total(items)
               /\ "cart" \in TypesOf(rows) =>
                     FirstOf(rows, "copilot_add_to_cart") \in 1..FirstOf(rows, "cart")
<1> DEFINE rows == CartRows(cohort, items)
<1>1. CASE cohort = "outfit"
  <2> DEFINE a == OutfitRows(items)
             b == <<TurnRow("cart")>>
  <2>1. /\ a \in Seq(RowSet) /\ TypesOf(a) = {"copilot_add_to_cart", "add_to_cart"}
        /\ FirstOf(a, "copilot_add_to_cart") = 1
        /\ AmountIn(a, "add_to_cart") = Total(items)
    BY OutfitRowsAre
  <2>2. /\ b \in Seq(RowSet) /\ TypesOf(b) = {"cart"} /\ FirstOf(b, "cart") = 1
    BY RowsAreRows, TypesOfOne, FirstOfOne
  <2>3. rows = a \o b
    BY <1>1 DEF CartRows
  <2> HIDE DEF a, b, rows
  <2>4. a \o b \in Seq(RowSet)
    BY <2>1, <2>2
  <2>5. TypesOf(a \o b) = {"copilot_add_to_cart", "add_to_cart", "cart"}
    BY <2>1, <2>2, TypesTogether
  <2>6. FirstOf(a \o b, "copilot_add_to_cart") = 1
    BY <2>1, <2>2, Written
  <2>7. FirstOf(a, "cart") = 0 /\ Len(a) \in Nat
    BY <2>1, FirstOfTypes
  <2>8. FirstOf(a \o b, "cart") = Len(a) + 1
    BY <2>1, <2>2, <2>7, FirstTogether
  <2>9. AmountIn(a \o b, "add_to_cart") = Total(items)
    BY <2>1, <2>2, Written
  <2>10. FirstOf(rows, "copilot_add_to_cart") \in 1..FirstOf(rows, "cart")
    BY <2>3, <2>6, <2>7, <2>8
  <2>11. QED
    BY <2>3, <2>4, <2>5, <2>9, <2>10 DEF rows
<1>2. CASE cohort # "outfit"
  <2>1. "add_to_cart" \in RowTypes /\ "add_to_cart" # "order"
    BY DEF RowTypes
  <2>2. rows = <<Event("add_to_cart", items)>>
    BY <1>2, <2>1, EventsOfEach DEF CartRows
  <2>3. /\ <<Event("add_to_cart", items)>> \in Seq(RowSet)
        /\ TypesOf(<<Event("add_to_cart", items)>>) = {"add_to_cart"}
        /\ AmountIn(<<Event("add_to_cart", items)>>, "add_to_cart") = Total(items)
    BY <2>1, EventAlone
  <2> HIDE DEF rows
  <2>4. QED
    BY <2>2, <2>3 DEF rows
<1>3. QED
  BY <1>1, <1>2

-----------------------------------------------------------------------------
(* Outfits keep within their budgets.                                        *)

\* There is a cheapest product, and no other costs less.
LEMMA LeastNumber ==
    ASSUME NEW S \in SUBSET Nat, S # {}
    PROVE  \E x \in S : \A y \in S : x <= y
<1> DEFINE R == OpToRel(<, Nat)
<1>1. PICK x \in S : \A y \in S : ~(<<y, x>> \in R)
  BY NatLessThanWellFounded, WFMin
<1>2. \A y \in S : ~(y < x)
  BY <1>1 DEF OpToRel
<1>3. QED
  BY <1>2

LEMMA CheapestIsLeast ==
    ASSUME NEW products \in SUBSET Catalog, products # {}
    PROVE  Cheapest(products) \in products
           /\ \A q \in products : Cheapest(products).price <= q.price
<1>1. \A p \in products : p.price \in Nat /\ p.id \in Nat
  BY TrafficAssumption
<1> DEFINE prices == {p.price : p \in products}
           Cheaper(p, q) == p.price < q.price \/ (p.price = q.price /\ p.id <= q.id)
<1>2. PICK x \in prices : \A y \in prices : x <= y
  <2>1. prices \subseteq Nat /\ prices # {}
    BY <1>1
  <2> HIDE DEF prices
  <2>2. QED
    BY <2>1, LeastNumber
<1> DEFINE same == {p \in products : p.price = x}
           ids == {p.id : p \in same}
<1>3. PICK k \in ids : \A y \in ids : k <= y
  <2>1. ids \subseteq Nat /\ ids # {}
    BY <1>1
  <2> HIDE DEF ids
  <2>2. QED
    BY <2>1, LeastNumber
<1>4. PICK p \in products : p.price = x /\ p.id = k
  BY <1>3
<1>5. \A q \in products : Cheaper(p, q)
  <2> SUFFICES ASSUME NEW q \in products PROVE Cheaper(p, q)
    OBVIOUS
  <2>1. p.price <= q.price /\ (q.price = x => k <= q.id)
    BY <1>2, <1>3, <1>4
  <2>2. QED
    BY <1>1, <1>4, <2>1
<1>6. Cheapest(products) = CHOOSE p0 \in products : \A q \in products : Cheaper(p0, q)
  BY DEF Cheapest
<1>7. Cheapest(products) \in products /\ \A q \in products : Cheaper(Cheapest(products), q)
  <2> HIDE DEF Cheaper
  <2> QED
    BY <1>5, <1>6
<1>8. QED
  BY <1>1, <1>7

\* A product more that the budget allows.
FitsBudget(items) ==
    items \in Seq(Catalog) /\ Total(items) <= journey.budget

LEMMA PieceMore ==
    ASSUME NEW items, FitsBudget(items), NEW p \in Catalog, journey.budget \in Nat,
           Total(items) + p.price <= journey.budget
    PROVE  FitsBudget(Append(items, p)) /\ Append(items, p) # <<>>
<1>1. Append(items, p) \in Seq(Catalog) /\ Append(items, p) # <<>>
  BY DEF FitsBudget
<1>2. Total(Append(items, p)) = Total(items) + p.price
  BY TotalFacts DEF FitsBudget
<1>3. QED
  BY <1>1, <1>2 DEF FitsBudget

LEMMA TopUpFits ==
    ASSUME NEW items, FitsBudget(items), journey.budget \in OutfitBudgets,
           NEW products \in SUBSET Catalog
    PROVE  /\ FitsBudget(TopUp(items, products))
           /\ items # <<>> \/ products = Catalog => TopUp(items, products) # <<>>
<1> DEFINE left == products \ ToSet(items)
           x == Cheapest(left)
           fits == Len(items) < 2 /\ left # {} /\ Total(items) + x.price <= journey.budget
<1>1. TopUp(items, products) = IF fits THEN Append(items, x) ELSE items
  BY DEF TopUp
<1>2. left \in SUBSET Catalog /\ journey.budget \in Nat
  BY TrafficAssumption
<1>3. left # {} => x \in Catalog /\ \A q \in left : x.price <= q.price
  BY <1>2, CheapestIsLeast
<1>4. fits => FitsBudget(Append(items, x)) /\ Append(items, x) # <<>>
  BY <1>2, <1>3, PieceMore
<1>5. ASSUME items = <<>>, products = Catalog PROVE fits
  <2>1. left = Catalog
    BY <1>5 DEF ToSet
  <2>2. PICK q \in Catalog : q.price <= journey.budget
    BY BudgetAssumption
  <2>3. left # {} /\ x.price <= q.price
    BY <1>3, <2>1, <2>2
  <2>4. Len(items) = 0 /\ Total(items) = 0
    BY <1>5, TotalIsNumber DEF FitsBudget
  <2>5. x.price \in Nat /\ q.price \in Nat
    BY <1>3, <2>2, <2>3, TrafficAssumption
  <2>6. QED
    BY <1>2, <2>2, <2>3, <2>4, <2>5
<1> HIDE DEF fits
<1>6. QED
  BY <1>1, <1>4, <1>5

\* The pieces an outfit is made of when it is complete.
PickedItems ==
    CheapestThatFit(CheapestThatFit(journey.items, {p \in Catalog : p.home}), Catalog)

LEMMA PickedFits ==
    ASSUME FitsBudget(journey.items), journey.budget \in OutfitBudgets
    PROVE  FitsBudget(PickedItems) /\ PickedItems # <<>>
<1> DEFINE home == {p \in Catalog : p.home}
           a == TopUp(journey.items, home)
           b == TopUp(a, home)
           c == TopUp(b, Catalog)
<1>1. home \in SUBSET Catalog /\ Catalog \in SUBSET Catalog
  OBVIOUS
<1> HIDE DEF home
<1>2. FitsBudget(a)
  BY <1>1, TopUpFits
<1> HIDE DEF a
<1>3. FitsBudget(b)
  BY <1>1, <1>2, TopUpFits
<1> HIDE DEF b
<1>4. FitsBudget(c) /\ c # <<>>
  BY <1>1, <1>3, TopUpFits
<1> HIDE DEF c
<1>5. FitsBudget(TopUp(c, Catalog)) /\ TopUp(c, Catalog) # <<>>
  BY <1>1, <1>4, TopUpFits
<1>6. PickedItems = TopUp(c, Catalog)
  BY DEF PickedItems, CheapestThatFit, c, b, a, home
<1>7. QED
  BY <1>5, <1>6

\* No piece is dearer than what is left of the budget.
LEMMA PoolFits ==
    ASSUME FitsBudget(journey.items), journey.budget \in Nat,
           NEW n \in 1..3, NEW p \in Pool(n)
    PROVE  p \in Catalog /\ Total(journey.items) + p.price <= journey.budget
<1>1. Total(journey.items) \in Nat /\ Total(journey.items) <= journey.budget
  BY TotalIsNumber DEF FitsBudget
<1> DEFINE r == Remaining
<1>2. r \in Nat /\ r = journey.budget - Total(journey.items)
  BY <1>1 DEF Remaining
<1>3. MaxPrice(n) = IF n = 3 THEN r ELSE (r * 115) \div ((4 - n) * 100)
  BY DEF MaxPrice
<1> HIDE DEF r
<1>4. MaxPrice(n) <= r
  <2>1. CASE n = 1
    <3>1. MaxPrice(n) = (r * 115) \div 300
      BY <1>3, <2>1
    <3>2. QED
      BY <1>2, <3>1
  <2>2. CASE n = 2
    <3>1. MaxPrice(n) = (r * 115) \div 200
      BY <1>3, <2>2
    <3>2. QED
      BY <1>2, <3>1
  <2>3. CASE n = 3
    BY <1>2, <1>3, <2>3
  <2>4. QED
    BY <2>1, <2>2, <2>3
<1>5. p \in Catalog /\ (p.price <= MaxPrice(n) \/ p.price <= r)
  BY DEF Pool, r
<1>6. p.price \in Nat /\ MaxPrice(n) \in Int
  <2>1. n = 1 \/ n = 2 \/ n = 3
    OBVIOUS
  <2>2. MaxPrice(n) \in Int
    <3>1. n = 1 => MaxPrice(n) = (r * 115) \div 300
      BY <1>3
    <3>2. n = 2 => MaxPrice(n) = (r * 115) \div 200
      BY <1>3
    <3>3. QED
      BY <1>2, <1>3, <2>1, <3>1, <3>2
  <2>3. QED
    BY <1>5, <2>2, TrafficAssumption
<1>7. p.price <= r
  BY <1>2, <1>4, <1>5, <1>6
<1>8. QED
  BY <1>1, <1>2, <1>5, <1>6, <1>7

-----------------------------------------------------------------------------
(* The steps of a journey.                                                   *)

LEMMA InitJourney == InitTraffic => JourneyInv
<1> SUFFICES ASSUME InitTraffic PROVE JourneyInv
  OBVIOUS
<1>1. /\ journey = [cohort |-> "none", pc |-> "new", items |-> <<>>, budget |-> 0]
      /\ log = <<>> /\ stored \in {[t \in TableSet |-> {}], [t \in TableSet |-> {0}]}
  BY DEF InitTraffic
<1>2. <<>> \in Seq(Catalog) /\ <<>> \in Seq(RowSet)
  OBVIOUS
<1>3. \A t : FirstOf(log, t) = 0
  BY <1>1, NothingWritten
<1>4. Shops
  <2>1. journey \in JourneySet
    BY <1>1, <1>2 DEF JourneySet, Drawing
  <2>2. QED
    BY <1>1, <1>2, <2>1 DEF Shops, Buying, Ending
<1>5. Funnel
  BY <1>1, <1>3 DEF Funnel, Has, Ending
<1>6. Talks
  BY <1>1, <1>3 DEF Talks, Has
<1>7. Validated
  <2>1. \A t \in TableSet : stored[t] \cap Runs = {}
    BY <1>1, TrafficAssumption
  <2>2. QED
    BY <1>1, <2>1 DEF Validated
<1>8. QED
  BY <1>4, <1>5, <1>6, <1>7 DEF JourneyInv

\* Before the journey is valid nothing of it is stored.
LEMMA NothingStored ==
    ASSUME JourneyInv, journey.pc # "valid", journey'.pc # "valid", stored' = stored
    PROVE  Validated'
  BY DEF JourneyInv, Validated

\* A journey that goes on to buy.
LEMMA BuyingShops ==
    ASSUME Shops, journey.pc # "new", NEW pc \in Buying, journey.items # <<>>,
           journey' = [journey EXCEPT !.pc = pc], log' \in Seq(RowSet)
    PROVE  Shops'
<1>1. /\ journey \in JourneySet /\ journey'.pc = pc /\ journey'.cohort = journey.cohort
      /\ journey'.items = journey.items /\ journey'.budget = journey.budget
  BY DEF Shops, JourneySet
<1>2. journey' \in JourneySet
  BY <1>1 DEF JourneySet
<1>3. pc # "new" /\ pc # "clicks" /\ pc \notin Drawing \ {"clicks", "adds"}
  BY DEF Buying, Ending, Drawing
<1>4. QED
  BY <1>1, <1>2, <1>3 DEF Shops

\* The log is written.
LEMMA LogWritten ==
    ASSUME Shops, NEW rows \in Seq(RowSet), log' = log \o rows
    PROVE  /\ log' \in Seq(RowSet)
           /\ \A t : FirstOf(log, t) \in 0..Len(log) /\ AmountIn(log, t) \in Nat
           /\ \A t : t \notin TypesOf(rows) =>
                 FirstOf(log', t) = FirstOf(log, t) /\ AmountIn(log', t) = AmountIn(log, t)
           /\ \A t : FirstOf(log, t) # 0 => FirstOf(log', t) = FirstOf(log, t)
           /\ \A t : FirstOf(log, t) = 0 => AmountIn(log', t) = AmountIn(rows, t)
           /\ \A t : FirstOf(log, t) = 0 /\ t \in TypesOf(rows) =>
                 FirstOf(log', t) = Len(log) + FirstOf(rows, t)
<1>1. log \in Seq(RowSet)
  BY DEF Shops
<1>2. QED
  BY <1>1, Written, FirstFacts, PricesOfType

\* A journey begins.
LEMMA BeginKeeps ==
    ASSUME JourneyInv, NEW p \in Catalog, NEW cohort \in {"baseline", "sizing", "policy"},
           NEW pc \in {"adds", "votes", "clicks"}, cohort # "policy" => pc = "adds",
           Begins(cohort, p, pc)
    PROVE  JourneyInv'
<1>1. /\ journey.pc = "new" /\ log' = Opening(cohort, p) /\ stored' = stored
      /\ journey' = [cohort |-> cohort, pc |-> pc, items |-> <<p>>, budget |-> 0]
  BY DEF Begins
<1>2. Opens(cohort, p)
  BY OpeningRows
<1>3. log' \in Seq(RowSet) /\ TypesOf(log') \subseteq EarlyTypes
  BY <1>1, <1>2 DEF Opens
<1>4. \A t \in LateTypes : FirstOf(log', t) = 0 /\ AmountIn(log', t) = 0
  <2>1. \A t \in LateTypes : t \notin TypesOf(log')
    BY <1>3 DEF LateTypes, EarlyTypes
  <2>2. QED
    BY <1>3, <2>1, FirstOfTypes, AmountOfNone
<1>5. cohort # "baseline" => FirstOf(log', "answered") # 0
  BY <1>1, <1>2, <1>3, FirstOfTypes DEF Opens
<1>6. <<p>> \in Seq(Catalog) /\ Len(<<p>>) = 1 /\ <<p>> # <<>> /\ Total(<<p>>) \in Nat
  <2>1. <<p>> \in Seq(Catalog) /\ Len(<<p>>) = 1 /\ <<p>> # <<>>
    OBVIOUS
  <2>2. QED
    BY <2>1, TotalIsNumber
<1>7. Shops'
  <2>1. journey' \in JourneySet
    BY <1>1, <1>6 DEF JourneySet, Drawing, Buying, Ending
  <2>2. pc # "new" /\ pc \notin Drawing \ {"clicks", "adds"}
    BY DEF Drawing
  <2>3. QED
    BY <1>1, <1>3, <1>6, <2>1, <2>2 DEF Shops
<1>8. Funnel'
  <2>1. /\ FirstOf(log', "order") = 0 /\ FirstOf(log', "vote") = 0
        /\ AmountIn(log', "add_to_cart") = 0
    BY <1>4 DEF LateTypes
  <2>2. journey'.pc = pc /\ journey'.items = <<p>>
        /\ pc # "checks out" /\ pc # "orders"
    BY <1>1
  <2>3. AmountIn(log', "add_to_cart") <= Total(journey'.items)
    <3>1. Total(journey'.items) = Total(<<p>>)
      BY <2>2, Zenon
    <3>2. QED
      BY <1>6, <2>1, <3>1
  <2>4. \A t \in LateTypes : ~Has(t)'
    BY <1>4 DEF Has
  <2>5. ~Has("order")' /\ ~Has("vote")'
    BY <2>1 DEF Has
  <2>6. QED
    BY <2>2, <2>3, <2>4, <2>5 DEF Funnel
<1>9. Talks'
  BY <1>1, <1>4, <1>5 DEF Talks, Has, LateTypes
<1>10. Validated'
  BY <1>1, NothingStored
<1>11. QED
  BY <1>7, <1>8, <1>9, <1>10 DEF JourneyInv

LEMMA BeginOutfitKeeps ==
    ASSUME JourneyInv, NEW b \in OutfitBudgets, BeginOutfit(b)
    PROVE  JourneyInv'
<1>1. /\ journey.pc = "new" /\ log' = log /\ stored' = stored
      /\ journey' = [cohort |-> "outfit", pc |-> "slot 1", items |-> <<>>, budget |-> b]
  BY DEF BeginOutfit
<1>2. log = <<>> /\ log \in Seq(RowSet)
  BY <1>1 DEF JourneyInv, Shops, Drawing
<1>3. <<>> \in Seq(Catalog) /\ Total(<<>>) = 0 /\ b \in Nat
  <2>1. <<>> \in Seq(Catalog)
    OBVIOUS
  <2>2. QED
    BY <2>1, TotalIsNumber, TrafficAssumption
<1>4. \A t : FirstOf(log', t) = 0
  <2>1. \A t : FirstOf(log, t) = 0
    BY <1>2, NothingWritten
  <2>2. QED
    BY <1>1, <2>1
<1>5. Shops'
  <2>1. journey' \in JourneySet
    BY <1>1, <1>3 DEF JourneySet, Drawing
  <2>2. /\ journey'.pc = "slot 1" /\ journey'.cohort = "outfit" /\ journey'.budget = b
        /\ Total(journey'.items) <= journey'.budget
    <3>1. journey'.items = <<>> /\ journey'.pc = "slot 1" /\ journey'.cohort = "outfit"
          /\ journey'.budget = b
      BY <1>1
    <3>2. Total(journey'.items) = Total(<<>>)
      BY <3>1, Zenon
    <3>3. Total(journey'.items) = 0 /\ 0 <= b
      BY <1>3, <3>2
    <3>4. QED
      BY <3>1, <3>3
  <2>3. journey'.pc \notin Buying
    BY <2>2 DEF Buying, Ending
  <2>4. QED
    BY <1>1, <1>2, <2>1, <2>2, <2>3 DEF Shops
<1>6. Funnel'
  BY <1>1, <1>4 DEF Funnel, Has, Ending
<1>7. Talks'
  BY <1>1, <1>4 DEF Talks, Has, Buying, Ending
<1>8. Validated'
  BY <1>1, NothingStored
<1>9. QED
  BY <1>5, <1>6, <1>7, <1>8 DEF JourneyInv

\* Drawing goes on: nothing is written.
LEMMA DrawingJourney ==
    ASSUME JourneyInv, journey.pc \in {"slot 1", "slot 2", "slot 3"},
           NEW pc \in {"slot 2", "slot 3", "tops up"}, NEW items, FitsBudget(items),
           journey' = [journey EXCEPT !.pc = pc, !.items = items],
           log' = log, stored' = stored
    PROVE  JourneyInv'
<1>1. /\ journey \in JourneySet /\ journey'.pc = pc /\ journey'.cohort = journey.cohort
      /\ journey'.items = items /\ journey'.budget = journey.budget
  BY DEF JourneyInv, Shops, JourneySet
<1>2. /\ journey.cohort = "outfit" /\ journey.budget \in OutfitBudgets
      /\ log = <<>> /\ log \in Seq(RowSet)
  BY DEF JourneyInv, Shops, Drawing
<1>3. \A t : FirstOf(log', t) = 0
  <2>1. \A t : FirstOf(log, t) = 0
    BY <1>2, NothingWritten
  <2>2. QED
    BY <2>1
<1>4. pc \in Drawing /\ pc \notin Buying /\ pc \notin Ending
  BY DEF Drawing, Buying, Ending
<1>5. Shops'
  <2>1. journey' \in JourneySet
    BY <1>1, <1>4 DEF JourneySet, FitsBudget
  <2>2. Total(journey'.items) <= journey'.budget
    BY <1>1 DEF FitsBudget
  <2>3. /\ journey'.cohort = "outfit" /\ journey'.budget \in OutfitBudgets
        /\ journey'.pc # "new" /\ journey'.pc # "clicks" /\ journey'.pc \notin Buying
        /\ log' = <<>> /\ log' \in Seq(RowSet)
    BY <1>1, <1>2, <1>4
  <2>4. QED
    BY <2>1, <2>2, <2>3 DEF Shops
<1>6. Funnel'
  BY <1>1, <1>3, <1>4 DEF Funnel, Has
<1>7. Talks'
  BY <1>1, <1>3, <1>4 DEF Talks, Has
<1>8. Validated'
  BY <1>1, NothingStored
<1>9. QED
  BY <1>5, <1>6, <1>7, <1>8 DEF JourneyInv

LEMMA FillOutfitKeeps ==
    ASSUME JourneyInv, NEW n \in 1..3, FillOutfitSlot(n)
    PROVE  JourneyInv'
<1>1. /\ SlotName(1) = "slot 1" /\ SlotName(2) = "slot 2" /\ SlotName(3) = "slot 3"
      /\ SlotName(4) = "tops up"
  BY DEF SlotName
<1>2. n = 1 \/ n = 2 \/ n = 3
  OBVIOUS
<1>3. /\ SlotName(n) \in {"slot 1", "slot 2", "slot 3"}
      /\ SlotName(n + 1) \in {"slot 2", "slot 3", "tops up"}
  <2>1. CASE n = 1
    <3>1. n + 1 = 2
      BY <2>1
    <3>2. QED
      BY <1>1, <2>1, <3>1
  <2>2. CASE n = 2
    <3>1. n + 1 = 3
      BY <2>2
    <3>2. QED
      BY <1>1, <2>2, <3>1
  <2>3. CASE n = 3
    <3>1. n + 1 = 4
      BY <2>3
    <3>2. QED
      BY <1>1, <2>3, <3>1
  <2>4. QED
    BY <1>2, <2>1, <2>2, <2>3
<1>4. journey.pc \in {"slot 1", "slot 2", "slot 3"} /\ log' = log /\ stored' = stored
  BY <1>3 DEF FillOutfitSlot
<1>5. journey.cohort = "outfit" /\ journey.budget \in OutfitBudgets
      /\ journey \in JourneySet /\ FitsBudget(journey.items)
  <2>1. journey.cohort = "outfit" /\ journey \in JourneySet
        /\ journey.budget \in OutfitBudgets /\ Total(journey.items) <= journey.budget
    BY <1>4 DEF JourneyInv, Shops, Drawing
  <2>2. journey.items \in Seq(Catalog)
    BY <2>1 DEF JourneySet
  <2>3. QED
    BY <2>1, <2>2 DEF FitsBudget
<1>6. journey.budget \in Nat
  BY <1>5, TrafficAssumption
<1>7. CASE Pool(n) = {} /\ journey' = [journey EXCEPT !.pc = "tops up"]
  <2>1. journey' = [journey EXCEPT !.pc = "tops up", !.items = journey.items]
    BY <1>5, <1>7 DEF JourneySet
  <2>2. QED
    BY <1>4, <1>5, <2>1, DrawingJourney
<1>8. ASSUME NEW p \in Pool(n),
             journey' = [journey EXCEPT !.pc = SlotName(n + 1), !.items = Append(@, p)]
      PROVE  JourneyInv'
  <2>1. FitsBudget(Append(journey.items, p))
    <3>1. p \in Catalog /\ Total(journey.items) + p.price <= journey.budget
      BY <1>5, <1>6, PoolFits
    <3>2. QED
      BY <1>5, <1>6, <3>1, PieceMore
  <2>2. journey' = [journey EXCEPT !.pc = SlotName(n + 1),
                                   !.items = Append(journey.items, p)]
    BY <1>8
  <2>3. QED
    BY <1>3, <1>4, <2>1, <2>2, DrawingJourney
<1>9. QED
  BY <1>7, <1>8 DEF FillOutfitSlot

\* A journey that is about to add to the cart has written no late rows.
LEMMA AddingFunnel ==
    ASSUME Shops, Funnel, Talks, journey.pc \in Drawing, journey'.pc \in {"adds"},
           NEW rows \in Seq(RowSet), log' = log \o rows, TypesOf(rows) \subseteq EarlyTypes,
           FirstOf(log', "answered") # 0
    PROVE  Funnel' /\ Talks'
<1>1. \A t \in LateTypes : t \notin TypesOf(rows)
  BY DEF LateTypes, EarlyTypes
<1>2. \A t \in LateTypes : FirstOf(log, t) = 0
  BY DEF Funnel, Has
<1>3. \A t \in LateTypes : FirstOf(log', t) = 0
  BY <1>1, <1>2, LogWritten
<1>4. FirstOf(log', "cart") = 0 /\ FirstOf(log', "vote") = 0
  BY <1>3 DEF LateTypes
<1>5. journey'.pc = "adds" /\ "adds" \notin Ending
  BY DEF Ending
<1>6. Funnel'
  BY <1>3, <1>5 DEF Funnel, Has
<1>7. Talks'
  BY <1>4 DEF Talks, Has
<1>8. QED
  BY <1>6, <1>7

LEMMA PolicyClicksKeeps ==
    ASSUME JourneyInv, PolicyClicks
    PROVE  JourneyInv'
<1> DEFINE rows == <<Event("copilot_product_click", journey.items)>>
<1>1. /\ journey.pc = "clicks" /\ journey' = [journey EXCEPT !.pc = "adds"]
      /\ log' = log \o rows /\ stored' = stored
  BY DEF PolicyClicks, Goes
<1>2. journey \in JourneySet /\ journey.items \in Seq(Catalog) /\ journey'.pc = "adds"
      /\ Shops /\ Funnel /\ Talks
  BY <1>1 DEF JourneyInv, Shops, JourneySet
<1>3. rows \in Seq(RowSet) /\ TypesOf(rows) = {"copilot_product_click"}
  <2>1. "copilot_product_click" \in RowTypes /\ "copilot_product_click" # "order"
    BY DEF RowTypes
  <2>2. QED
    BY <1>2, <2>1, EventAlone
<1> HIDE DEF rows
<1>4. /\ journey.cohort = "policy" /\ journey.items # <<>>
      /\ FirstOf(log, "answered") # 0
  <2>1. journey.cohort = "policy"
    BY <1>1, <1>2 DEF Shops
  <2>2. Len(journey.items) = 1
    BY <1>2, <2>1 DEF Shops
  <2>3. journey.items # <<>>
    <3>1. \A list \in Seq(Catalog) : Len(list) = 1 => list # <<>>
      OBVIOUS
    <3>2. QED
      BY <1>2, <2>2, <3>1
  <2>4. FirstOf(log, "answered") # 0
    BY <1>1, <1>2, <2>1 DEF Talks, Has
  <2>5. QED
    BY <2>1, <2>3, <2>4
<1>5. log' \in Seq(RowSet) /\ FirstOf(log', "answered") # 0
  BY <1>1, <1>2, <1>3, <1>4, LogWritten
<1>6. Shops'
  <2>1. "adds" \in Buying
    BY DEF Buying
  <2>2. QED
    BY <1>1, <1>2, <1>4, <1>5, <2>1, BuyingShops
<1>7. Funnel' /\ Talks'
  <2>1. TypesOf(rows) \subseteq EarlyTypes /\ journey.pc \in Drawing
    BY <1>1, <1>3 DEF EarlyTypes, Drawing
  <2>2. QED
    BY <1>1, <1>2, <1>3, <1>5, <2>1, AddingFunnel
<1>8. Validated'
  BY <1>1, <1>2, NothingStored
<1>9. QED
  BY <1>6, <1>7, <1>8 DEF JourneyInv

LEMMA PickOutfitKeeps ==
    ASSUME JourneyInv, PickOutfit
    PROVE  JourneyInv'
<1> DEFINE items == PickedItems
           clicks == EventOfEach("copilot_product_click", items)
           asks == Asks("answered")
           rows == asks \o clicks
<1>1. /\ journey.pc = "tops up" /\ journey' = [journey EXCEPT !.pc = "adds", !.items = items]
      /\ log' = log \o asks \o clicks /\ stored' = stored
  BY DEF PickOutfit, PickedItems
<1> HIDE DEF items
<1>2. /\ journey \in JourneySet /\ journey.items \in Seq(Catalog)
      /\ journey.cohort = "outfit" /\ log = <<>> /\ log \in Seq(RowSet)
      /\ journey.budget \in OutfitBudgets /\ Total(journey.items) <= journey.budget
      /\ Shops /\ Funnel /\ Talks
  BY <1>1 DEF JourneyInv, Shops, JourneySet, Drawing
<1>3. items \in Seq(Catalog) /\ items # <<>> /\ Total(items) <= journey.budget
  BY <1>2, PickedFits DEF items, FitsBudget
<1>4. /\ journey'.pc = "adds" /\ journey'.items = items /\ journey'.cohort = "outfit"
      /\ journey'.budget = journey.budget
  BY <1>1, <1>2 DEF JourneySet
<1>5. asks \in Seq(RowSet) /\ TypesOf(asks) = {"copilot_message", "answered"}
  BY AsksRows
<1>6. clicks \in Seq(RowSet) /\ TypesOf(clicks) \subseteq {"copilot_product_click"}
  <2>1. "copilot_product_click" \in RowTypes /\ "copilot_product_click" # "order"
    BY DEF RowTypes
  <2>2. QED
    BY <1>3, <2>1, EventsOfEach
<1> HIDE DEF asks, clicks
<1>7. /\ rows \in Seq(RowSet) /\ TypesOf(rows) \subseteq EarlyTypes
      /\ "answered" \in TypesOf(rows)
  <2>1. TypesOf(rows) = TypesOf(asks) \cup TypesOf(clicks)
    BY <1>5, <1>6, TypesTogether
  <2>2. rows \in Seq(RowSet)
    BY <1>5, <1>6
  <2> HIDE DEF rows
  <2>3. QED
    BY <1>5, <1>6, <2>1, <2>2 DEF EarlyTypes
<1>8. log' = log \o rows
  <2>1. \A list \in Seq(RowSet) : <<>> \o list = list
    OBVIOUS
  <2>2. log \o asks = asks /\ log \o rows = rows
    BY <1>2, <1>5, <1>7, <2>1
  <2>3. QED
    BY <1>1, <2>2
<1> HIDE DEF rows
<1>9. log' \in Seq(RowSet) /\ FirstOf(log', "answered") # 0
  <2>1. log' \in Seq(RowSet)
    BY <1>2, <1>7, <1>8, LogWritten
  <2>2. "answered" \in TypesOf(log')
    BY <1>2, <1>7, <1>8, TypesTogether
  <2>3. QED
    BY <2>1, <2>2, FirstOfTypes
<1>10. Shops'
  <2>1. journey' \in JourneySet
    BY <1>1, <1>2, <1>3 DEF JourneySet, Drawing
  <2>2. Total(journey'.items) <= journey'.budget
    BY <1>3, <1>4
  <2>3. QED
    BY <1>2, <1>3, <1>4, <1>9, <2>1, <2>2 DEF Shops
<1>11. Funnel' /\ Talks'
  <2>1. journey.pc \in Drawing
    BY <1>1 DEF Drawing
  <2>2. QED
    BY <1>2, <1>4, <1>7, <1>8, <1>9, <2>1, AddingFunnel
<1>12. Validated'
  BY <1>1, <1>4, NothingStored
<1>13. QED
  BY <1>10, <1>11, <1>12 DEF JourneyInv

\* Who buys has something to buy, and spoke with the copilot unless it is the baseline.
LEMMA BuyerFacts ==
    ASSUME JourneyInv, journey.pc \in Buying
    PROVE  /\ Shops /\ Funnel /\ Talks /\ Validated /\ journey \in JourneySet
           /\ log \in Seq(RowSet) /\ journey.pc # "new"
           /\ journey.items \in Seq(Catalog) /\ journey.items # <<>>
           /\ Total(journey.items) \in Nat
           /\ journey.cohort # "outfit" => Len(journey.items) = 1
           /\ journey.cohort # "baseline" => FirstOf(log, "answered") # 0
<1>1. Shops /\ Funnel /\ Talks /\ Validated
  BY DEF JourneyInv
<1>2. /\ journey \in JourneySet /\ log \in Seq(RowSet) /\ journey.items # <<>>
  BY <1>1 DEF Shops
<1>3. journey.pc # "new" /\ journey.cohort # "none"
  BY <1>1 DEF Shops, Buying, Ending
<1>4. journey.cohort \in {"baseline", "sizing", "policy", "outfit"}
      /\ journey.items \in Seq(Catalog)
  BY <1>2, <1>3 DEF JourneySet
<1>5. journey.cohort # "outfit" => Len(journey.items) = 1
  BY <1>1, <1>4 DEF Shops
<1>6. journey.cohort # "baseline" => FirstOf(log, "answered") # 0
  BY <1>1, <1>3 DEF Talks, Has
<1>7. QED
  BY <1>1, <1>2, <1>3, <1>4, <1>5, <1>6, TotalIsNumber

\* The turns of a journey that goes on without a cart turn or a vote.
LEMMA TalksOn ==
    ASSUME JourneyInv, journey.pc \in Buying, journey'.cohort = journey.cohort,
           NEW rows \in Seq(RowSet), log' = log \o rows,
           TypesOf(rows) \cap {"cart", "vote", "copilot_add_to_cart", "answered"} = {}
    PROVE  Talks'
<1>1. Shops /\ Talks /\ (journey.cohort # "baseline" => FirstOf(log, "answered") # 0)
  BY BuyerFacts
<1>2. \A t \in {"cart", "vote", "copilot_add_to_cart", "answered"} :
          FirstOf(log', t) = FirstOf(log, t)
  BY <1>1, LogWritten
<1>3. /\ FirstOf(log', "cart") = FirstOf(log, "cart")
      /\ FirstOf(log', "vote") = FirstOf(log, "vote")
      /\ FirstOf(log', "answered") = FirstOf(log, "answered")
      /\ FirstOf(log', "copilot_add_to_cart") = FirstOf(log, "copilot_add_to_cart")
  BY <1>2
<1>4. journey.cohort # "none" => journey'.cohort # "none"
  OBVIOUS
<1>5. QED
  BY <1>1, <1>3 DEF Talks, Has

LEMMA AddsToCartKeeps ==
    ASSUME JourneyInv, AddsToCart
    PROVE  JourneyInv'
<1> DEFINE rows == CartRows(journey.cohort, journey.items)
           items == journey.items
<1>1. /\ journey.pc = "adds" /\ journey' = [journey EXCEPT !.pc = "checks out"]
      /\ log' = log \o rows /\ stored' = stored
  BY DEF AddsToCart, Goes, CartRows, OutfitRows, AddsOf
<1>2. journey.pc \in Buying /\ journey.pc \in Drawing /\ "checks out" \in Buying
  BY <1>1 DEF Buying, Drawing
<1>3. /\ Shops /\ Funnel /\ Talks /\ journey \in JourneySet
      /\ log \in Seq(RowSet) /\ journey.pc # "new"
      /\ items \in Seq(Catalog) /\ items # <<>> /\ Total(items) \in Nat
      /\ journey.cohort # "outfit" => Len(items) = 1
      /\ journey.cohort # "baseline" => FirstOf(log, "answered") # 0
  BY <1>2, BuyerFacts
<1>4. /\ rows \in Seq(RowSet) /\ "add_to_cart" \in TypesOf(rows)
      /\ TypesOf(rows) \subseteq {"copilot_add_to_cart", "add_to_cart", "cart"}
      /\ AmountIn(rows, "add_to_cart") = Total(items)
      /\ "cart" \in TypesOf(rows) =>
            FirstOf(rows, "copilot_add_to_cart") \in 1..FirstOf(rows, "cart")
  BY <1>3, CartRowsAre
<1>5. /\ journey'.pc = "checks out" /\ journey'.items = items
      /\ journey'.cohort = journey.cohort
  BY <1>1, <1>3 DEF JourneySet
<1> HIDE DEF rows, items
<1>6. \A t \in LateTypes : FirstOf(log, t) = 0
  BY <1>2, <1>3 DEF Funnel, Has
<1>7. log' \in Seq(RowSet) /\ Len(log) \in Nat
      /\ \A t : FirstOf(rows, t) \in Nat /\ (t \in TypesOf(rows) <=> FirstOf(rows, t) # 0)
  <2>1. \A t : FirstOf(rows, t) \in 0..Len(rows)
    BY <1>4, FirstFacts
  <2>2. Len(rows) \in Nat /\ Len(log) \in Nat
    BY <1>3, <1>4
  <2>3. \A t : t \in TypesOf(rows) <=> FirstOf(rows, t) # 0
    BY <1>4, FirstOfTypes
  <2>4. log' \in Seq(RowSet)
    BY <1>1, <1>3, <1>4, LogWritten
  <2>5. QED
    BY <2>1, <2>2, <2>3, <2>4
<1>8. \A t \in LateTypes :
          /\ t \in TypesOf(rows) => FirstOf(log', t) = Len(log) + FirstOf(rows, t)
          /\ t \notin TypesOf(rows) => FirstOf(log', t) = 0
          /\ AmountIn(log', t) = AmountIn(rows, t)
  BY <1>1, <1>3, <1>4, <1>6, LogWritten
<1>9. /\ FirstOf(log', "add_to_cart") = Len(log) + FirstOf(rows, "add_to_cart")
      /\ AmountIn(log', "add_to_cart") = Total(items)
  <2>1. "add_to_cart" \in LateTypes
    BY DEF LateTypes
  <2>2. QED
    BY <1>4, <1>8, <2>1
<1>10. 0 < FirstOf(log', "add_to_cart")
  <2>1. FirstOf(rows, "add_to_cart") \in Nat /\ FirstOf(rows, "add_to_cart") # 0
    BY <1>4, <1>7
  <2>2. QED
    BY <1>7, <1>9, <2>1
<1>11. \A t \in {"checkout_start", "order", "purchase_mock", "vote"} : FirstOf(log', t) = 0
  <2>1. \A t \in {"checkout_start", "order", "purchase_mock", "vote"} :
            t \in LateTypes /\ t \notin TypesOf(rows)
    BY <1>4 DEF LateTypes
  <2>2. QED
    BY <1>8, <2>1
<1>12. Funnel'
  <2>1. Adds'
    BY <1>5, <1>9, <1>10 DEF Adds
  <2>2. \A t \in {"checkout_start", "order", "purchase_mock", "vote"} : ~Has(t)'
    BY <1>11 DEF Has
  <2>3. journey'.pc \notin Drawing /\ journey'.pc \notin Ending
    BY <1>5 DEF Drawing, Ending
  <2>4. QED
    BY <1>5, <2>1, <2>2, <2>3 DEF Funnel
<1>13. Talks'
  <2>1. FirstOf(log', "vote") = 0
    BY <1>11
  <2>2. journey.cohort # "baseline" => FirstOf(log', "answered") # 0
    BY <1>1, <1>3, <1>4, LogWritten
  <2>3. ASSUME FirstOf(log', "cart") # 0
        PROVE  FirstOf(log', "copilot_add_to_cart") \in 1..FirstOf(log', "cart")
    <3>1. "cart" \in LateTypes /\ "copilot_add_to_cart" \in LateTypes
      BY DEF LateTypes
    <3>2. "cart" \in TypesOf(rows)
      BY <1>8, <2>3, <3>1
    <3> DEFINE x == FirstOf(rows, "cart")
               y == FirstOf(rows, "copilot_add_to_cart")
    <3>3. x \in Nat /\ y \in 1..x
      BY <1>4, <1>7, <3>2
    <3>4. "copilot_add_to_cart" \in TypesOf(rows)
      BY <1>7, <3>3
    <3>5. FirstOf(log', "cart") = Len(log) + x
          /\ FirstOf(log', "copilot_add_to_cart") = Len(log) + y
      BY <1>8, <3>1, <3>2, <3>4
    <3> HIDE DEF x, y
    <3>6. QED
      BY <1>7, <3>3, <3>5
  <2>4. QED
    BY <1>5, <2>1, <2>2, <2>3 DEF Talks, Has
<1>14. Shops'
  BY <1>1, <1>2, <1>3, <1>7, BuyingShops DEF items
<1>15. Validated'
  BY <1>1, <1>5, NothingStored
<1>16. QED
  BY <1>12, <1>13, <1>14, <1>15 DEF JourneyInv

LEMMA ChecksOutKeeps ==
    ASSUME JourneyInv, ChecksOut
    PROVE  JourneyInv'
<1> DEFINE rows == <<Event("checkout_start", journey.items)>>
           items == journey.items
<1>1. /\ journey.pc = "checks out" /\ journey' = [journey EXCEPT !.pc = "orders"]
      /\ log' = log \o rows /\ stored' = stored
  BY DEF ChecksOut, Goes
<1>2. journey.pc \in Buying /\ "orders" \in Buying
  BY <1>1 DEF Buying
<1>3. /\ Shops /\ Funnel /\ journey \in JourneySet
      /\ log \in Seq(RowSet) /\ journey.pc # "new"
      /\ items \in Seq(Catalog) /\ items # <<>> /\ Total(items) \in Nat
  BY <1>2, BuyerFacts
<1>4. /\ rows \in Seq(RowSet) /\ TypesOf(rows) = {"checkout_start"}
      /\ FirstOf(rows, "checkout_start") = 1
      /\ AmountIn(rows, "checkout_start") = Total(items)
  <2>1. "checkout_start" \in RowTypes /\ "checkout_start" # "order"
    BY DEF RowTypes
  <2>2. QED
    BY <1>3, <2>1, EventAlone
<1>5. /\ journey'.pc = "orders" /\ journey'.items = items
      /\ journey'.cohort = journey.cohort
  BY <1>1, <1>3 DEF JourneySet
<1> HIDE DEF rows, items
<1>6. /\ 0 < FirstOf(log, "add_to_cart") /\ AmountIn(log, "add_to_cart") = Total(items)
      /\ \A t \in {"checkout_start", "order", "purchase_mock", "vote"} : FirstOf(log, t) = 0
  BY <1>1, <1>3 DEF Funnel, Adds, Has, items
<1>7. log' \in Seq(RowSet) /\ Len(log) \in Nat /\ FirstOf(log, "add_to_cart") \in 0..Len(log)
  <2>1. log' \in Seq(RowSet)
    BY <1>1, <1>3, <1>4, LogWritten
  <2>2. Len(log) \in Nat
    BY <1>3
  <2>3. FirstOf(log, "add_to_cart") \in 0..Len(log)
    BY <1>3, FirstFacts
  <2>4. QED
    BY <2>1, <2>2, <2>3
<1>8. \A t : t # "checkout_start" =>
          FirstOf(log', t) = FirstOf(log, t) /\ AmountIn(log', t) = AmountIn(log, t)
  BY <1>1, <1>3, <1>4, LogWritten
<1>9. /\ FirstOf(log', "add_to_cart") = FirstOf(log, "add_to_cart")
      /\ AmountIn(log', "add_to_cart") = Total(items)
  <2>1. PICK t : t = "add_to_cart"
    OBVIOUS
  <2>2. FirstOf(log', t) = FirstOf(log, t) /\ AmountIn(log', t) = AmountIn(log, t)
    BY <1>8, <2>1
  <2>3. QED
    BY <1>6, <2>1, <2>2
<1>10. \A t \in {"order", "purchase_mock", "vote"} : FirstOf(log', t) = 0
  BY <1>6, <1>8
<1>11. /\ FirstOf(log', "checkout_start") = Len(log) + 1
       /\ AmountIn(log', "checkout_start") = Total(items)
  <2>1. PICK t \in {"checkout_start"} : t = "checkout_start"
    OBVIOUS
  <2>2. FirstOf(log, t) = 0 /\ t \in TypesOf(rows)
    BY <1>4, <1>6, <2>1
  <2>3. FirstOf(log', t) = Len(log) + FirstOf(rows, t) /\ AmountIn(log', t) = AmountIn(rows, t)
    BY <1>1, <1>3, <1>4, <2>2, LogWritten
  <2>4. QED
    BY <1>4, <2>1, <2>3
<1>12. Funnel'
  <2>1. Adds'
    BY <1>5, <1>6, <1>9 DEF Adds
  <2>2. Checkouts'
    BY <1>5, <1>7, <1>9, <1>11 DEF Checkouts
  <2>3. \A t \in {"order", "purchase_mock", "vote"} : ~Has(t)'
    BY <1>10 DEF Has
  <2>4. journey'.pc \notin Drawing /\ journey'.pc \notin Ending
    BY <1>5 DEF Drawing, Ending
  <2>5. QED
    BY <1>5, <2>1, <2>2, <2>3, <2>4 DEF Funnel
<1>13. Talks'
  <2>1. TypesOf(rows) \cap {"cart", "vote", "copilot_add_to_cart", "answered"} = {}
    BY <1>4
  <2>2. QED
    BY <1>1, <1>2, <1>4, <1>5, <2>1, TalksOn
<1>14. Shops'
  BY <1>1, <1>2, <1>3, <1>7, BuyingShops DEF items
<1>15. Validated'
  BY <1>1, <1>5, NothingStored
<1>16. QED
  BY <1>12, <1>13, <1>14, <1>15 DEF JourneyInv

LEMMA OrdersKeeps ==
    ASSUME JourneyInv, Orders
    PROVE  JourneyInv'
<1> DEFINE rows == OrderRows(journey.items)
           items == journey.items
<1>1. /\ journey.pc = "orders" /\ journey' = [journey EXCEPT !.pc = "votes"]
      /\ log' = log \o rows /\ stored' = stored
  BY DEF Orders, Goes
<1>2. journey.pc \in Buying /\ "votes" \in Buying
  BY <1>1 DEF Buying, Ending
<1>3. /\ Shops /\ Funnel /\ journey \in JourneySet
      /\ log \in Seq(RowSet) /\ journey.pc # "new"
      /\ items \in Seq(Catalog) /\ items # <<>> /\ Total(items) \in Nat
  BY <1>2, BuyerFacts
<1>4. /\ rows \in Seq(RowSet) /\ TypesOf(rows) = {"order", "purchase_mock"}
      /\ FirstOf(rows, "order") = 1
      /\ \A t \in {"order", "purchase_mock"} : AmountIn(rows, t) = Total(items)
  BY <1>3, OrderRowsAre
<1>5. /\ journey'.pc = "votes" /\ journey'.items = items
      /\ journey'.cohort = journey.cohort
  BY <1>1, <1>3 DEF JourneySet
<1> HIDE DEF rows, items
<1>6. /\ 0 < FirstOf(log, "add_to_cart") /\ AmountIn(log, "add_to_cart") = Total(items)
      /\ FirstOf(log, "add_to_cart") < FirstOf(log, "checkout_start")
      /\ AmountIn(log, "checkout_start") = Total(items)
      /\ \A t \in {"order", "purchase_mock", "vote"} : FirstOf(log, t) = 0
  BY <1>1, <1>3 DEF Funnel, Adds, Checkouts, Has, items
<1>7. log' \in Seq(RowSet) /\ Len(log) \in Nat
      /\ FirstOf(log, "checkout_start") \in 0..Len(log)
  <2>1. log' \in Seq(RowSet)
    BY <1>1, <1>3, <1>4, LogWritten
  <2>2. Len(log) \in Nat
    BY <1>3
  <2>3. FirstOf(log, "checkout_start") \in 0..Len(log)
    BY <1>3, FirstFacts
  <2>4. QED
    BY <2>1, <2>2, <2>3
<1>8. \A t \in {"add_to_cart", "checkout_start", "vote"} :
          FirstOf(log', t) = FirstOf(log, t) /\ AmountIn(log', t) = AmountIn(log, t)
  <2>1. \A t \in {"add_to_cart", "checkout_start", "vote"} : t \notin TypesOf(rows)
    BY <1>4
  <2>2. QED
    BY <1>1, <1>3, <1>4, <2>1, LogWritten
<1>9. /\ FirstOf(log', "add_to_cart") = FirstOf(log, "add_to_cart")
      /\ FirstOf(log', "checkout_start") = FirstOf(log, "checkout_start")
      /\ AmountIn(log', "add_to_cart") = Total(items)
      /\ AmountIn(log', "checkout_start") = Total(items)
      /\ FirstOf(log', "vote") = 0
  BY <1>6, <1>8
<1>10. \A t \in {"order", "purchase_mock"} : AmountIn(log', t) = Total(items)
  BY <1>1, <1>3, <1>4, <1>6, LogWritten
<1>11. FirstOf(log', "order") = Len(log) + 1
  <2>1. PICK t \in {"order"} : t = "order"
    OBVIOUS
  <2>2. FirstOf(log, t) = 0 /\ t \in TypesOf(rows)
    BY <1>4, <1>6, <2>1
  <2>3. FirstOf(log', t) = Len(log) + FirstOf(rows, t)
    BY <1>1, <1>3, <1>4, <2>2, LogWritten
  <2>4. QED
    BY <1>4, <2>1, <2>3
<1>12. Funnel'
  <2>1. Adds' /\ Checkouts'
    BY <1>5, <1>6, <1>9 DEF Adds, Checkouts
  <2>2. Purchases'
    BY <1>5, <1>7, <1>9, <1>10, <1>11 DEF Purchases
  <2>3. AmountIn(log', "add_to_cart") <= Total(journey'.items)
    BY <1>3, <1>5, <1>9
  <2>4. journey'.pc \notin Drawing
    BY <1>5 DEF Drawing
  <2>5. QED
    BY <1>5, <1>9, <2>1, <2>2, <2>3, <2>4 DEF Funnel, Has
<1>13. Talks'
  <2>1. TypesOf(rows) \cap {"cart", "vote", "copilot_add_to_cart", "answered"} = {}
    BY <1>4
  <2>2. QED
    BY <1>1, <1>2, <1>4, <1>5, <2>1, TalksOn
<1>14. Shops'
  BY <1>1, <1>2, <1>3, <1>7, BuyingShops DEF items
<1>15. Validated'
  BY <1>1, <1>5, NothingStored
<1>16. QED
  BY <1>12, <1>13, <1>14, <1>15 DEF JourneyInv

LEMMA GivesUpKeeps ==
    ASSUME JourneyInv, GivesUp
    PROVE  JourneyInv'
<1> DEFINE items == journey.items
<1>1. /\ journey.pc \in {"adds", "checks out", "orders"}
      /\ journey' = [journey EXCEPT !.pc = "votes"]
      /\ log' = log \o <<>> /\ stored' = stored
  BY DEF GivesUp, Goes
<1>2. journey.pc \in Buying /\ "votes" \in Buying
  BY <1>1 DEF Buying, Ending
<1>3. /\ Shops /\ Funnel /\ journey \in JourneySet
      /\ log \in Seq(RowSet) /\ journey.pc # "new"
      /\ items # <<>> /\ Total(items) \in Nat
  BY <1>2, BuyerFacts
<1>4. log' = log
  <2>1. \A list \in Seq(RowSet) : list \o <<>> = list
    OBVIOUS
  <2>2. QED
    BY <1>1, <1>3, <2>1
<1>5. /\ journey'.pc = "votes" /\ journey'.items = items
      /\ journey'.cohort = journey.cohort
  BY <1>1, <1>3 DEF JourneySet
<1>6. /\ FirstOf(log, "order") = 0 /\ FirstOf(log, "vote") = 0
      /\ AmountIn(log, "add_to_cart") <= Total(items)
  <2>1. CASE journey.pc = "adds"
    <3>1. \A t \in LateTypes : FirstOf(log, t) = 0
      BY <1>3, <2>1 DEF Funnel, Has, Drawing
    <3>2. /\ FirstOf(log, "order") = 0 /\ FirstOf(log, "vote") = 0
          /\ FirstOf(log, "add_to_cart") = 0
      BY <3>1 DEF LateTypes
    <3>3. AmountIn(log, "add_to_cart") = 0
      BY <1>3, <3>2, AmountOfNone
    <3>4. QED
      BY <1>3, <3>2, <3>3
  <2>2. CASE journey.pc = "checks out"
    <3>1. Adds /\ \A t \in {"checkout_start", "order", "purchase_mock", "vote"} :
                      FirstOf(log, t) = 0
      BY <1>3, <2>2 DEF Funnel, Has
    <3>2. FirstOf(log, "order") = 0 /\ FirstOf(log, "vote") = 0
      BY <3>1
    <3>3. AmountIn(log, "add_to_cart") = Total(items)
      BY <3>1 DEF Adds
    <3>4. QED
      BY <1>3, <3>2, <3>3
  <2>3. CASE journey.pc = "orders"
    <3>1. Adds /\ \A t \in {"order", "purchase_mock", "vote"} : FirstOf(log, t) = 0
      BY <1>3, <2>3 DEF Funnel, Has
    <3>2. FirstOf(log, "order") = 0 /\ FirstOf(log, "vote") = 0
      BY <3>1
    <3>3. AmountIn(log, "add_to_cart") = Total(items)
      BY <3>1 DEF Adds
    <3>4. QED
      BY <1>3, <3>2, <3>3
  <2>4. QED
    BY <1>1, <2>1, <2>2, <2>3
<1> HIDE DEF items
<1>7. Funnel'
  <2>1. journey'.pc \notin Drawing
    BY <1>5 DEF Drawing
  <2>2. QED
    BY <1>4, <1>5, <1>6, <2>1 DEF Funnel, Has
<1>8. Talks'
  <2>1. <<>> \in Seq(RowSet) /\ TypesOf(<<>>) = {}
    BY DEF TypesOf
  <2>2. QED
    BY <1>1, <1>2, <1>5, <2>1, TalksOn
<1>9. Shops'
  BY <1>1, <1>2, <1>3, <1>4, BuyingShops DEF items
<1>10. Validated'
  BY <1>1, <1>5, NothingStored
<1>11. QED
  BY <1>7, <1>8, <1>9, <1>10 DEF JourneyInv

\* A vote is behind the answer it is about.
LEMMA FeedbackKeeps ==
    ASSUME JourneyInv, MaybeFeedback
    PROVE  JourneyInv'
<1> DEFINE items == journey.items
<1>1. /\ journey.pc = "votes" /\ journey' = [journey EXCEPT !.pc = "built"]
      /\ log' = log \/ (journey.cohort # "baseline" /\ log' = Append(log, Vote))
      /\ stored' = stored
  BY DEF MaybeFeedback
<1>2. journey.pc \in Buying /\ "built" \in Buying
  BY <1>1 DEF Buying, Ending
<1>3. /\ Shops /\ Funnel /\ Talks /\ journey \in JourneySet
      /\ log \in Seq(RowSet) /\ journey.pc # "new" /\ items # <<>>
      /\ journey.cohort # "baseline" => FirstOf(log, "answered") # 0
  BY <1>2, BuyerFacts
<1>4. /\ journey'.pc = "built" /\ journey'.items = items
      /\ journey'.cohort = journey.cohort
  BY <1>1, <1>3 DEF JourneySet
<1>5. /\ <<Vote>> \in Seq(RowSet) /\ TypesOf(<<Vote>>) = {"vote"}
      /\ FirstOf(<<Vote>>, "vote") = 1
  BY RowsAreRows, TypesOfOne, FirstOfOne
<1>6. log' = log \/ (journey.cohort # "baseline" /\ log' = log \o <<Vote>>)
  <2>1. \A list \in Seq(RowSet), r \in RowSet : Append(list, r) = list \o <<r>>
    OBVIOUS
  <2>2. QED
    BY <1>1, <1>3, <2>1, RowsAreRows
<1>7. log' \in Seq(RowSet)
  BY <1>3, <1>5, <1>6, LogWritten
<1> HIDE DEF items
<1>8. \A t : t # "vote" =>
          FirstOf(log', t) = FirstOf(log, t) /\ AmountIn(log', t) = AmountIn(log, t)
  BY <1>3, <1>5, <1>6, LogWritten
<1>9. \A t \in LateTypes \cup {"answered"} : t # "vote" =>
          FirstOf(log', t) = FirstOf(log, t) /\ AmountIn(log', t) = AmountIn(log, t)
  BY <1>8
<1>10. \A t \in {"answered", "cart", "copilot_add_to_cart", "add_to_cart",
                 "checkout_start", "order", "purchase_mock"} :
           FirstOf(log', t) = FirstOf(log, t) /\ AmountIn(log', t) = AmountIn(log, t)
  BY <1>9 DEF LateTypes
<1>11. /\ FirstOf(log', "answered") = FirstOf(log, "answered")
       /\ FirstOf(log', "cart") = FirstOf(log, "cart")
       /\ FirstOf(log', "copilot_add_to_cart") = FirstOf(log, "copilot_add_to_cart")
       /\ FirstOf(log', "add_to_cart") = FirstOf(log, "add_to_cart")
       /\ FirstOf(log', "checkout_start") = FirstOf(log, "checkout_start")
       /\ FirstOf(log', "order") = FirstOf(log, "order")
  BY <1>10
<1>12. /\ AmountIn(log', "add_to_cart") = AmountIn(log, "add_to_cart")
       /\ AmountIn(log', "checkout_start") = AmountIn(log, "checkout_start")
       /\ AmountIn(log', "order") = AmountIn(log, "order")
       /\ AmountIn(log', "purchase_mock") = AmountIn(log, "purchase_mock")
  BY <1>10
<1>13. Funnel'
  <2>1. /\ FirstOf(log, "order") # 0 => Adds /\ Checkouts /\ Purchases
        /\ AmountIn(log, "add_to_cart") <= Total(items)
    BY <1>1, <1>3 DEF Funnel, Ending, Has, items
  <2>2. FirstOf(log, "order") # 0 => Adds' /\ Checkouts' /\ Purchases'
    BY <1>4, <1>11, <1>12, <2>1 DEF Adds, Checkouts, Purchases, items
  <2>3. journey'.pc \notin Drawing
    BY <1>4 DEF Drawing
  <2>4. QED
    BY <1>4, <1>11, <1>12, <2>1, <2>2, <2>3 DEF Funnel, Has
<1>14. Talks'
  <2>1. ASSUME FirstOf(log', "vote") # 0
        PROVE  FirstOf(log', "answered") \in 1..FirstOf(log', "vote")
    <3>1. FirstOf(log, "vote") = 0
      BY <1>1, <1>3 DEF Funnel, Has
    <3>2. journey.cohort # "baseline" /\ log' = log \o <<Vote>>
      BY <1>6, <2>1, <3>1
    <3>3. FirstOf(log', "vote") = Len(log) + 1
      <4>1. PICK t \in {"vote"} : t = "vote"
        OBVIOUS
      <4>2. FirstOf(log, t) = 0 /\ t \in TypesOf(<<Vote>>)
        BY <1>5, <3>1, <4>1
      <4>3. FirstOf(log', t) = Len(log) + FirstOf(<<Vote>>, t)
        BY <1>3, <1>5, <3>2, <4>2, LogWritten
      <4>4. QED
        BY <1>5, <4>1, <4>3
    <3>4. FirstOf(log, "answered") \in 0..Len(log) /\ FirstOf(log, "answered") # 0
          /\ Len(log) \in Nat
      BY <1>3, <3>2, FirstFacts
    <3>5. QED
      BY <1>11, <3>3, <3>4
  <2>2. /\ journey.cohort \notin {"none", "baseline"} => FirstOf(log', "answered") # 0
        /\ FirstOf(log', "cart") # 0 =>
              FirstOf(log', "copilot_add_to_cart") \in 1..FirstOf(log', "cart")
    BY <1>3, <1>11 DEF Talks, Has
  <2>3. QED
    BY <1>4, <2>1, <2>2 DEF Talks, Has
<1>15. Shops'
  BY <1>1, <1>2, <1>3, <1>7, BuyingShops DEF items
<1>16. Validated'
  BY <1>1, <1>4, NothingStored
<1>17. QED
  BY <1>13, <1>14, <1>15, <1>16 DEF JourneyInv

\* An order has its row among those of the orders.
LEMMA OrderHasRow ==
    ASSUME log \in Seq(RowSet), FirstOf(log, "order") # 0
    PROVE  HasRows("orders")
<1> DEFINE x == FirstOf(log, "order")
<1>1. x \in 0..Len(log) /\ log[x].type = "order" /\ Len(log) \in Nat
  BY FirstFacts
<1>2. x \in DOMAIN log
  <2>1. x # 0
    OBVIOUS
  <2> HIDE DEF x
  <2>2. QED
    BY <1>1, <2>1
<1> HIDE DEF x
<1>3. log[x].table = "orders"
  <2>1. log[x] \in RowSet
    BY <1>2
  <2>2. QED
    BY <1>1, <2>1 DEF RowSet
<1>4. QED
  BY <1>2, <1>3 DEF HasRows

LEMMA ValidateKeeps ==
    ASSUME JourneyInv, ValidateSimulation
    PROVE  JourneyInv'
<1> DEFINE items == journey.items
<1> PICK pc \in {"valid", "refused"} :
        /\ journey' = [journey EXCEPT !.pc = pc]
        /\ pc = "valid" => Valid
  <2>1. CASE Valid
    BY <2>1 DEF ValidateSimulation
  <2>2. CASE ~Valid
    BY <2>2 DEF ValidateSimulation
  <2>3. QED
    BY <2>1, <2>2
<1>1. journey.pc = "built" /\ log' = log /\ stored' = stored
  BY DEF ValidateSimulation
<1>2. journey.pc \in Buying /\ pc \in Buying
  BY <1>1 DEF Buying, Ending
<1>3. /\ Shops /\ Funnel /\ Talks /\ Validated /\ journey \in JourneySet
      /\ log \in Seq(RowSet) /\ journey.pc # "new" /\ items # <<>>
  BY <1>2, BuyerFacts
<1>4. /\ journey'.pc = pc /\ journey'.items = items
      /\ journey'.cohort = journey.cohort
  BY <1>3 DEF JourneySet
<1> HIDE DEF items
<1>5. Funnel'
  <2>1. /\ FirstOf(log, "order") # 0 => Adds /\ Checkouts /\ Purchases
        /\ AmountIn(log, "add_to_cart") <= Total(items)
    BY <1>1, <1>3 DEF Funnel, Ending, Has, items
  <2>2. FirstOf(log, "order") # 0 => Adds' /\ Checkouts' /\ Purchases'
    BY <1>1, <1>4, <2>1 DEF Adds, Checkouts, Purchases, items
  <2>3. pc \notin Drawing /\ pc # "checks out" /\ pc # "orders" /\ pc # "votes"
    BY DEF Drawing
  <2>4. QED
    BY <1>1, <1>4, <2>1, <2>2, <2>3 DEF Funnel, Has
<1>6. Talks'
  <2>1. /\ <<>> \in Seq(RowSet) /\ TypesOf(<<>>) = {}
        /\ \A list \in Seq(RowSet) : list \o <<>> = list
    BY DEF TypesOf
  <2>2. log' = log \o <<>>
    BY <1>1, <1>3, <2>1
  <2>3. QED
    BY <1>2, <1>4, <2>1, <2>2, TalksOn
<1>7. Shops'
  BY <1>1, <1>2, <1>3, BuyingShops DEF items
<1>8. Validated'
  <2>1. ASSUME pc = "valid", journey.cohort = "outfit", FirstOf(log, "order") # 0
        PROVE  Len(items) >= 2
    <3>1. HasRows("orders")
      BY <1>3, <2>1, OrderHasRow
    <3>2. QED
      BY <2>1, <3>1 DEF Valid, OutfitHolds, items
  <2>2. \A t \in TableSet : stored[t] \cap Runs = {}
    BY <1>1, <1>3 DEF Validated
  <2>3. QED
    BY <1>1, <1>4, <2>1, <2>2 DEF Validated, Has
<1>9. QED
  BY <1>5, <1>6, <1>7, <1>8 DEF JourneyInv

\* A valid journey stays as it is, whatever is stored of it.
LEMMA JourneyRests ==
    ASSUME JourneyInv, journey' = journey, log' = log,
           stored' = stored \/ journey.pc = "valid"
    PROVE  JourneyInv'
<1>1. Shops' /\ Talks'
  BY DEF JourneyInv, Shops, Talks, Has
<1>2. Funnel'
  BY DEF JourneyInv, Funnel, Adds, Checkouts, Purchases, Has
<1>3. Validated'
  BY DEF JourneyInv, Validated, Has
<1>4. QED
  BY <1>1, <1>2, <1>3 DEF JourneyInv

LEMMA NextJourney ==
    SimulationInv /\ JourneyInv /\ [NextTraffic]_trafficVars => JourneyInv'
<1> SUFFICES ASSUME SimulationInv, JourneyInv, [NextTraffic]_trafficVars
             PROVE  JourneyInv'
  OBVIOUS
<1>1. CASE UNCHANGED trafficVars
  BY <1>1, JourneyRests DEF trafficVars
<1>2. ASSUME NEW p \in Catalog, Baseline(p) \/ Sizes(p) \/ Policy(p)
      PROVE  JourneyInv'
  <2>1. PICK cohort \in {"baseline", "sizing", "policy"}, pc \in {"adds", "votes", "clicks"} :
            Begins(cohort, p, pc) /\ (cohort # "policy" => pc = "adds")
    BY <1>2 DEF Baseline, Sizes, Policy
  <2>2. QED
    BY <2>1, BeginKeeps
<1>3. ASSUME NEW b \in OutfitBudgets, BeginOutfit(b) PROVE JourneyInv'
  BY <1>3, BeginOutfitKeeps
<1>4. ASSUME NEW n \in 1..3, FillOutfitSlot(n) PROVE JourneyInv'
  BY <1>4, FillOutfitKeeps
<1>5. ASSUME \/ PolicyClicks \/ PickOutfit \/ AddsToCart \/ ChecksOut \/ Orders \/ GivesUp
             \/ MaybeFeedback \/ ValidateSimulation
      PROVE  JourneyInv'
  BY <1>5, PolicyClicksKeeps, PickOutfitKeeps, AddsToCartKeeps, ChecksOutKeeps, OrdersKeeps,
     GivesUpKeeps, FeedbackKeeps, ValidateKeeps
<1>6. ASSUME NEW w \in Runs,
             \/ CountRows(w) \/ BeginReset(w) \/ FindRows(w) \/ DeleteRows(w)
             \/ InsertRows(w) \/ WriteFails(w)
      PROVE  JourneyInv'
  <2>1. UNCHANGED <<journey, log, stored>>
    BY <1>6 DEF CountRows, BeginReset, Starts, FindRows, DeleteRows, InsertRows, WriteFails
  <2>2. QED
    BY <2>1, JourneyRests
<1>7. ASSUME NEW w \in Runs, CommitRows(w) PROVE JourneyInv'
  <2>1. UNCHANGED <<journey, log>> /\ writer[w].pc # "new"
    BY <1>7 DEF CommitRows
  <2>2. QED
    BY <2>1, WritingIsValid, JourneyRests
<1>8. QED
  BY <1>1, <1>2, <1>3, <1>4, <1>5, <1>6, <1>7 DEF NextTraffic

\* Whatever is drawn: what the simulator stores passes for a shop's funnel.  Each
\* order follows a checkout of the same amount, and that the cart it is of; an
\* outfit keeps within its budget; the copilot's cart turn follows its adds, and a
\* vote the answer it is about.
THEOREM StoredJourneysAreSound == SpecTraffic => []StoredIsSound
<1>1. ASSUME JourneyInv, NEW t \in TableSet, stored[t] \cap Runs # {}
      PROVE  JourneyHolds
  <2>1. /\ Shops /\ Funnel /\ Talks /\ Validated
        /\ \A type : RowAt(type) = FirstOf(log, type) /\ Amount(type) = AmountIn(log, type)
    BY <1>1 DEF JourneyInv, RowAt, FirstOf, Amount, AmountIn
  <2>2. journey.pc = "valid" /\ journey \in JourneySet /\ log \in Seq(RowSet)
    BY <1>1, <2>1 DEF Validated, Shops
  <2>3. /\ FirstOf(log, "order") # 0 => Adds /\ Checkouts /\ Purchases
        /\ AmountIn(log, "add_to_cart") <= Total(journey.items)
    BY <2>1, <2>2 DEF Funnel, Ending, Has
  <2>4. ASSUME RowAt("order") # 0
        PROVE  /\ 0 < RowAt("add_to_cart") /\ RowAt("add_to_cart") < RowAt("checkout_start")
               /\ RowAt("checkout_start") < RowAt("order")
               /\ Amount("add_to_cart") = Amount("order")
               /\ Amount("checkout_start") = Amount("order")
               /\ Amount("purchase_mock") = Amount("order")
               /\ journey.cohort = "outfit" => Len(journey.items) >= 2
    <3>1. FirstOf(log, "order") # 0
      BY <2>1, <2>4
    <3>2. Adds /\ Checkouts /\ Purchases
      BY <2>3, <3>1
    <3>3. journey.cohort = "outfit" => Len(journey.items) >= 2
      BY <2>1, <2>2, <3>1 DEF Validated, Has
    <3>4. QED
      BY <2>1, <3>2, <3>3 DEF Adds, Checkouts, Purchases
  <2>5. ASSUME journey.cohort = "outfit" PROVE Amount("add_to_cart") <= journey.budget
    <3>1. Total(journey.items) <= journey.budget /\ journey.budget \in Nat
          /\ journey.items \in Seq(Catalog)
      BY <2>1, <2>2, <2>5 DEF Shops, JourneySet
    <3>2. AmountIn(log, "add_to_cart") \in Nat /\ Total(journey.items) \in Nat
      BY <2>2, <3>1, PricesOfType, TotalIsNumber
    <3>3. Amount("add_to_cart") <= Total(journey.items)
      BY <2>1, <2>3
    <3>4. QED
      BY <2>1, <3>1, <3>2, <3>3
  <2>6. /\ RowAt("cart") # 0 => RowAt("copilot_add_to_cart") \in 1..RowAt("cart")
        /\ RowAt("vote") # 0 => RowAt("answered") \in 1..RowAt("vote")
    BY <2>1 DEF Talks, Has
  <2>7. QED
    BY <2>4, <2>5, <2>6 DEF JourneyHolds
<1>2. JourneyInv => StoredIsSound
  BY <1>1 DEF StoredIsSound
<1>3. QED
  BY <1>2, InitSimulation, NextSimulation, InitJourney, NextJourney, PTL DEF SpecTraffic

-----------------------------------------------------------------------------
(* Pages of results.  For any catalog, titles, rankings and page sizes: the  *)
(* pages a shopper turns are pages of one list, which has each title once    *)
(* and stands for all that was found.                                        *)

\* A product of each title.
OneOfEach(products) == \A p, q \in products : SameTitle(p, q) => p = q

\* What is ranked does not depend on what is gone.
Firm == gone = {} \/ (ask.mode = "bm25" /\ ask.rerank = "off" /\ ask.filter = {})

\* The inductive invariant: as long as the pages are pages of one list, they show
\* what it begins with, without what is gone by then.
SearchInv ==
    /\ SearchTypeOK
    /\ ask.asker = "copilot" => Distinct(shown)
    /\ ask.asker = "shop" /\ OneList =>
          /\ Distinct(shown)
          /\ ToSet(shown) \subseteq ToSet(First(offset, Found(0)))
          /\ ToSet(First(offset, Found(0))) \subseteq ToSet(shown) \cup gone

\* Nothing is a list.
LEMMA NoList ==
    ASSUME NEW V
    PROVE  << >> \in Seq(V) /\ Distinct(<< >>) /\ ToSet(<< >>) = {}
BY DEF Distinct, ToSet

\* A list at all of its places.
LEMMA AllPlaces ==
    ASSUME NEW V, NEW list \in Seq(V)
    PROVE  At(list, DOMAIN list) = list
<1> DEFINE n == Len(list)
           S == 1..n
           o == Ascending(S)
<1>1. n \in Nat /\ DOMAIN list = S /\ S \subseteq Nat
  OBVIOUS
<1>2. IsFiniteSet(S) /\ Cardinality(S) = n
  BY <1>1, FS_Interval
<1> DEFINE R == {pair \in S \X S : pair[1] < pair[2]}
<1>3. ASSUME NEW a \in S
      PROVE  Cardinality({b \in S : <<b, a>> \in R}) = a - 1
  <2>1. {b \in S : <<b, a>> \in R} = 1..a - 1
    BY <1>1
  <2>2. Cardinality(1..a - 1) = a - 1
    BY <1>1, FS_Interval
  <2>3. QED
    BY <2>1, <2>2
<1>4. o = [k \in 1..n |-> CHOOSE a \in S : Cardinality({b \in S : <<b, a>> \in R}) = k - 1]
  BY <1>2 DEF Ascending, Ordered
<1>5. DOMAIN o = S /\ \A k \in S : o[k] = k
  <2> SUFFICES ASSUME NEW k \in S PROVE o[k] = k
    BY <1>4
  <2>1. o[k] = CHOOSE a \in S : Cardinality({b \in S : <<b, a>> \in R}) = k - 1
    BY <1>4
  <2> HIDE DEF R, o
  <2>2. o[k] \in S /\ Cardinality({b \in S : <<b, o[k]>> \in R}) = k - 1
    BY <1>3, <2>1
  <2>3. o[k] - 1 = k - 1
    BY <1>3, <2>2
  <2>4. QED
    BY <1>1, <2>2, <2>3
<1> HIDE DEF R, o
<1>6. At(list, DOMAIN list) = [k \in S |-> list[k]]
  <2>1. At(list, S) = [k \in DOMAIN o |-> list[o[k]]]
    BY DEF At, o
  <2>2. QED
    BY <1>1, <1>5, <2>1
<1>7. list = [k \in S |-> list[k]]
  BY <1>1
<1>8. QED
  BY <1>6, <1>7

\* All that is left of a list of which nothing is gone.
LEMMA OnlyAll ==
    ASSUME NEW V, NEW list \in Seq(V)
    PROVE  Only(list, V) = list
<1>1. {i \in DOMAIN list : list[i] \in V} = DOMAIN list
  <2>1. \A i \in DOMAIN list : list[i] \in V
    OBVIOUS
  <2>2. QED
    BY <2>1, Zenon
<1>2. QED
  BY <1>1, AllPlaces DEF Only

\* What is at a place of two lists together.
LEMMA JoinedAt ==
    ASSUME NEW V, NEW s \in Seq(V), NEW t \in Seq(V)
    PROVE  /\ \A i \in 1..Len(s) : (s \o t)[i] = s[i]
           /\ \A i \in Len(s) + 1..Len(s) + Len(t) : (s \o t)[i] = t[i - Len(s)]
OBVIOUS

\* The first m of a list are cut in two after a places.
IsCut(list, a, m, front, rest) ==
    /\ a \in Nat /\ m \in Nat /\ m <= Len(list)
    /\ front = SubSeq(list, 1, IF a < m THEN a ELSE m)
    /\ rest = SubSeq(list, a + 1, m)

\* Both parts are what the list has there.
LEMMA TwoParts ==
    ASSUME NEW V, NEW list \in Seq(V), NEW a, NEW m, NEW part1, NEW part2,
           IsCut(list, a, m, part1, part2)
    PROVE  /\ part1 \in Seq(V) /\ part2 \in Seq(V)
           /\ part1 \o part2 = SubSeq(list, 1, m)
           /\ ToSet(part1) \cup ToSet(part2) = ToSet(SubSeq(list, 1, m))
           /\ Distinct(list) => /\ Distinct(part2)
                                /\ ToSet(part1) \cap ToSet(part2) = {}
<1> DEFINE k     == IF a < m THEN a ELSE m
           front == SubSeq(list, 1, k)
           rest  == SubSeq(list, a + 1, m)
           whole == SubSeq(list, 1, m)
<1>0. /\ a \in Nat /\ m \in Nat /\ m <= Len(list)
      /\ part1 = front /\ part2 = rest
  BY DEF IsCut
<1>1. /\ Len(list) \in Nat /\ DOMAIN list = 1..Len(list)
      /\ k \in Nat /\ k <= m /\ k <= a /\ m \in Nat /\ m <= Len(list) /\ a \in Nat
  BY <1>0
<1>2. /\ front \in Seq(V) /\ Len(front) = k /\ DOMAIN front = 1..k
      /\ \A i \in 1..k : front[i] = list[i] /\ i \in DOMAIN list
  BY <1>1
<1>3. /\ whole \in Seq(V) /\ Len(whole) = m /\ DOMAIN whole = 1..m
      /\ \A i \in 1..m : whole[i] = list[i]
  BY <1>1
<1>4. /\ rest \in Seq(V) /\ Len(rest) = m - k /\ DOMAIN rest = 1..m - k
      /\ \A i \in 1..m - k : rest[i] = list[k + i] /\ k + i \in DOMAIN list
  <2>1. CASE a < m
    BY <1>1, <2>1
  <2>2. CASE ~(a < m)
    BY <1>1, <2>2
  <2>3. QED
    BY <2>1, <2>2
<1> HIDE DEF front, rest, whole, k
<1>5. front \o rest = whole
  <2>0. k + (m - k) = m /\ \A i \in k + 1..m : i - k \in 1..m - k
    BY <1>1
  <2>1. /\ front \o rest \in Seq(V) /\ Len(front \o rest) = m
        /\ DOMAIN (front \o rest) = 1..m
        /\ \A i \in 1..k : (front \o rest)[i] = front[i]
        /\ \A i \in k + 1..m : (front \o rest)[i] = rest[i - k] /\ i - k \in 1..m - k
    <3>1. front \o rest \in Seq(V) /\ Len(front \o rest) = k + (m - k)
      BY <1>2, <1>4, ListsTogether
    <3>2. DOMAIN (front \o rest) = 1..m
      BY <2>0, <3>1
    <3>3. /\ \A i \in 1..k : (front \o rest)[i] = front[i]
          /\ \A i \in k + 1..k + (m - k) : (front \o rest)[i] = rest[i - k]
      BY <1>2, <1>4, JoinedAt
    <3>4. QED
      BY <2>0, <3>1, <3>2, <3>3
  <2>2. \A i \in 1..m : i \in 1..k \/ i \in k + 1..m
    BY <1>1
  <2>3. \A i \in k + 1..m : k + (i - k) = i
    BY <1>1
  <2>4. \A i \in 1..m : (front \o rest)[i] = whole[i]
    BY <1>2, <1>3, <1>4, <2>1, <2>2, <2>3
  <2>5. QED
    BY <1>3, <2>1, <2>4
<1>6. ToSet(front) \cup ToSet(rest) = ToSet(whole)
  BY <1>2, <1>4, <1>5, ListsTogether
<1>7. ASSUME Distinct(list)
      PROVE  Distinct(rest) /\ ToSet(front) \cap ToSet(rest) = {}
  <2>1. Distinct(rest)
    <3> SUFFICES ASSUME NEW i \in 1..m - k, NEW j \in 1..m - k, i < j
                 PROVE  rest[i] # rest[j]
      BY <1>4 DEF Distinct
    <3>1. PICK x \in DOMAIN list, y \in DOMAIN list : x = k + i /\ y = k + j
      BY <1>4
    <3>2. x < y
      BY <1>1, <3>1
    <3>3. QED
      BY <1>4, <1>7, <3>1, <3>2 DEF Distinct
  <2>2. \A i \in 1..k : \A j \in 1..m - k : front[i] # rest[j]
    <3> SUFFICES ASSUME NEW i \in 1..k, NEW j \in 1..m - k PROVE front[i] # rest[j]
      OBVIOUS
    <3>1. PICK y \in DOMAIN list : y = k + j
      BY <1>4
    <3>2. i < y /\ i \in DOMAIN list
      BY <1>1, <1>2, <3>1
    <3>3. QED
      BY <1>2, <1>4, <1>7, <3>1, <3>2 DEF Distinct
  <2>3. QED
    BY <1>2, <1>4, <2>1, <2>2 DEF ToSet
<1>8. QED
  BY <1>0, <1>2, <1>4, <1>5, <1>6, <1>7 DEF whole

-----------------------------------------------------------------------------
\* What a search can be.
LEMMA AskFacts ==
    ASSUME SearchTypeOK
    PROVE  /\ ask.lexical \in Seq(Products) /\ Distinct(ask.lexical)
           /\ ask.dense \in Seq(Products) /\ Distinct(ask.dense)
           /\ ask.mode \in {"bm25", "dense", "hybrid"} /\ ask.asker \in {"shop", "copilot"}
           /\ limit \in Nat \ {0} /\ offset \in Nat
           /\ shown \in Seq(Products) /\ gone \subseteq Products
BY SearchAssumption DEF SearchTypeOK

\* A share of the score is a number.
LEMMA ShareIsNumber ==
    ASSUME NEW list \in Seq(Products), NEW p
    PROVE  Share(list, p) \in Nat
<1>1. CASE p \in ToSet(list)
  <2>1. \E i \in DOMAIN list : list[i] = p
    BY <1>1 DEF ToSet
  <2>2. Rank(list, p) \in DOMAIN list
    BY <2>1 DEF Rank
  <2>3. Rank(list, p) \in Nat /\ Rank(list, p) > 0
    BY <2>2
  <2>4. RRF + Rank(list, p) \in Nat /\ RRF + Rank(list, p) > 0 /\ Whole \in Nat
    BY <2>3, SearchAssumption
  <2>5. Whole \div (RRF + Rank(list, p)) \in Nat
    BY <2>4
  <2>6. QED
    BY <1>1, <2>5 DEF Share
<1>2. CASE p \notin ToSet(list)
  BY <1>2 DEF Share
<1>3. QED
  BY <1>1, <1>2

\* The fusion has what either ranking has, once.
LEMMA FusionIsAll ==
    ASSUME NEW words \in Seq(Products), Distinct(words),
           NEW vectors \in Seq(Products), Distinct(vectors)
    PROVE  LET fused == ReciprocalRankFusion(words, vectors)
           IN  /\ fused \in Seq(Products) /\ Distinct(fused)
               /\ ToSet(fused) = ToSet(words) \cup ToSet(vectors)
<1> DEFINE all   == ToSet(words) \cup ToSet(vectors)
           score == [p \in all |-> Share(words, p) + Share(vectors, p)]
           R     == {pair \in all \X all :
                        \/ score[pair[1]] > score[pair[2]]
                        \/ score[pair[1]] = score[pair[2]] /\ pair[1] < pair[2]}
           fused == Ordered(all, R)
<1>1. all \subseteq Products /\ Products \subseteq Nat
  <2>1. ToSet(words) \subseteq Products /\ ToSet(vectors) \subseteq Products
    BY DEF ToSet
  <2>2. QED
    BY <2>1, SearchAssumption
<1>2. IsFiniteSet(all)
  <2>1. IsFiniteSet(ToSet(words)) /\ IsFiniteSet(ToSet(vectors))
    BY LengthOfDistinct
  <2>2. QED
    BY <2>1, FS_Union
<1>3. \A p \in all : score[p] \in Nat /\ p \in Nat
  <2>1. \A p : Share(words, p) \in Nat /\ Share(vectors, p) \in Nat
    BY ShareIsNumber
  <2> HIDE DEF all
  <2>2. \A p \in all : score[p] = Share(words, p) + Share(vectors, p)
    OBVIOUS
  <2> HIDE DEF score
  <2>3. QED
    BY <1>1, <2>1, <2>2
<1>4. ReciprocalRankFusion(words, vectors) = fused
  BY DEF ReciprocalRankFusion
<1>5. \A p, q \in all : <<p, q>> \in R <=>
          score[p] > score[q] \/ (score[p] = score[q] /\ p < q)
  OBVIOUS
<1> HIDE DEF R, score, all
<1>6. \A a, b \in all : a # b => <<a, b>> \in R \/ <<b, a>> \in R
  <2> SUFFICES ASSUME NEW a \in all, NEW b \in all, a # b
               PROVE  <<a, b>> \in R \/ <<b, a>> \in R
    OBVIOUS
  <2>1. a < b \/ b < a
    BY <1>3
  <2>2. score[a] > score[b] \/ score[b] > score[a] \/ score[a] = score[b]
    BY <1>3
  <2>3. QED
    BY <1>5, <2>1, <2>2
<1>7. \A a \in all : <<a, a>> \notin R
  <2>1. \A a \in all : ~(a < a) /\ ~(score[a] > score[a])
    BY <1>3
  <2>2. QED
    BY <1>5, <2>1
<1>8. \A a, b, c \in all : <<a, b>> \in R /\ <<b, c>> \in R => <<a, c>> \in R
  <2> SUFFICES ASSUME NEW a \in all, NEW b \in all, NEW c \in all,
                      <<a, b>> \in R, <<b, c>> \in R
               PROVE  <<a, c>> \in R
    OBVIOUS
  <2>1. /\ score[a] > score[b] \/ (score[a] = score[b] /\ a < b)
        /\ score[b] > score[c] \/ (score[b] = score[c] /\ b < c)
    BY <1>5
  <2>2. score[a] > score[c] \/ (score[a] = score[c] /\ a < c)
    BY <1>3, <2>1
  <2>3. QED
    BY <1>5, <2>2
<1>9. fused \in Seq(all) /\ Distinct(fused) /\ ToSet(fused) = all
  <2>1. IsOrder(R, all)
    BY <1>6, <1>7, <1>8 DEF IsOrder
  <2>2. QED
    BY <1>2, <2>1, OrderedIsAll
<1> HIDE DEF fused
<1>10. fused \in Seq(Products)
  <2>1. Len(fused) \in Nat /\ fused \in [1..Len(fused) -> all]
    BY <1>9
  <2>2. fused \in [1..Len(fused) -> Products]
    BY <1>1, <2>1
  <2>3. QED
    BY <2>1, <2>2
<1>11. QED
  BY <1>4, <1>9, <1>10 DEF all

\* What is cleared of repeated titles has one product of each title there was.
LEMMA DedupeFits ==
    ASSUME NEW list \in Seq(Products), Distinct(list)
    PROVE  /\ Dedupe(list) \in Seq(Products) /\ Distinct(Dedupe(list))
           /\ OneOfEach(ToSet(Dedupe(list)))
           /\ \A p \in ToSet(list) : \E q \in ToSet(Dedupe(list)) : SameTitle(p, q)
<1> DEFINE New(i) == Titles[list[i]] # 0 =>
                        \A j \in 1..i - 1 : Titles[list[j]] # Titles[list[i]]
           places == {i \in DOMAIN list : New(i)}
<1>1. DOMAIN list = 1..Len(list) /\ Len(list) \in Nat
  OBVIOUS
<1>2. places \subseteq DOMAIN list
  OBVIOUS
<1>3. Dedupe(list) = At(list, places)
  BY DEF Dedupe
<1>4. /\ At(list, places) \in Seq(Products)
      /\ ToSet(At(list, places)) = {list[i] : i \in places}
      /\ Distinct(At(list, places))
  <2>1. \A i, j \in places : i < j => list[i] # list[j]
    BY DEF Distinct
  <2> HIDE DEF places
  <2>2. QED
    BY <1>2, <2>1, AtSomePlaces
<1>5. OneOfEach({list[i] : i \in places})
  <2> SUFFICES ASSUME NEW i \in places, NEW j \in places, SameTitle(list[i], list[j])
               PROVE  list[i] = list[j]
    BY DEF OneOfEach
  <2>1. ASSUME NEW a \in places, NEW b \in places, a < b, Titles[list[b]] # 0
        PROVE  Titles[list[a]] # Titles[list[b]]
    <3>1. a \in 1..b - 1
      BY <1>1, <2>1
    <3>2. QED
      BY <2>1, <3>1
  <2>2. i < j \/ j < i \/ i = j
    BY <1>1
  <2> HIDE DEF places
  <2>3. QED
    BY <2>1, <2>2 DEF SameTitle
<1>6. ASSUME NEW i \in DOMAIN list
      PROVE  \E j \in places : SameTitle(list[i], list[j])
  <2>1. CASE Titles[list[i]] = 0
    <3>1. i \in places
      BY <2>1
    <3>2. QED
      BY <3>1 DEF SameTitle
  <2>2. CASE Titles[list[i]] # 0
    <3> DEFINE same == {j \in DOMAIN list : Titles[list[j]] = Titles[list[i]]}
    <3>1. same \in SUBSET Nat /\ same # {}
      BY <1>1
    <3>2. PICK j \in same : \A k \in same : j <= k
      BY <3>1, LeastNumber
    <3>3. \A k \in 1..j - 1 : k \in DOMAIN list /\ ~(j <= k)
      BY <1>1
    <3>4. j \in places
      BY <3>2, <3>3
    <3>5. QED
      BY <2>2, <3>2, <3>4 DEF SameTitle
  <2>3. QED
    BY <2>1, <2>2
<1> HIDE DEF places
<1>7. \A p \in ToSet(list) : \E q \in {list[i] : i \in places} : SameTitle(p, q)
  BY <1>6 DEF ToSet
<1>8. QED
  BY <1>3, <1>4, <1>5, <1>7

-----------------------------------------------------------------------------
\* The rankings of a text are lists, each product once.
LEMMA LexicalIsList ==
    ASSUME SearchTypeOK, NEW text
    PROVE  Lexical(text) \in Seq(Products) /\ Distinct(Lexical(text))
<1> DEFINE allowed == IF ask.filter = {} THEN Products ELSE ask.filter \ gone
<1>1. Lexical(text) = IF text = ask.found THEN Only(ask.lexical, allowed) ELSE << >>
  BY DEF Lexical
<1> HIDE DEF allowed
<1>2. Only(ask.lexical, allowed) \in Seq(Products) /\ Distinct(Only(ask.lexical, allowed))
  BY AskFacts, OnlyThese
<1>3. QED
  BY <1>1, <1>2, NoList

LEMMA DenseIsList ==
    ASSUME SearchTypeOK, NEW text
    PROVE  Dense(text) \in Seq(Products) /\ Distinct(Dense(text))
<1> DEFINE allowed == (IF ask.filter = {} THEN Products ELSE ask.filter) \ gone
           near    == Only(ask.dense, allowed)
<1>1. Dense(text) = IF ask.embedding = "works" THEN First(Top, near) ELSE << >>
  BY DEF Dense
<1> HIDE DEF allowed
<1>2. near \in Seq(Products) /\ Distinct(near)
  BY AskFacts, OnlyThese
<1> HIDE DEF near
<1>3. First(Top, near) \in Seq(Products) /\ Distinct(First(Top, near))
  BY <1>2, SearchAssumption, FirstOfList
<1>4. QED
  BY <1>1, <1>3, NoList

\* And so is what is made of both, which has what is found by words, or as much of
\* it as is fused.
LEMMA FusedIsList ==
    ASSUME SearchTypeOK, NEW text
    PROVE  /\ Fused(text) \in Seq(Products) /\ Distinct(Fused(text))
           /\ IF Dense(text) = << >> THEN ToSet(Lexical(text)) \subseteq ToSet(Fused(text))
              ELSE ToSet(First(Top, Lexical(text))) \subseteq ToSet(Fused(text))
<1> DEFINE words == Lexical(text)
           near  == Dense(text)
           some  == First(Top, words)
<1>1. words \in Seq(Products) /\ Distinct(words) /\ near \in Seq(Products) /\ Distinct(near)
  BY LexicalIsList, DenseIsList
<1>2. Fused(text) = IF words # << >> /\ near # << >>
                    THEN ReciprocalRankFusion(some, near) ELSE words \o near
  BY DEF Fused
<1> HIDE DEF words, near
<1>3. some \in Seq(Products) /\ Distinct(some) /\ ToSet(some) \subseteq ToSet(words)
  BY <1>1, SearchAssumption, FirstOfList
<1> HIDE DEF some
<1>4. CASE words # << >> /\ near # << >>
  <2>1. LET fused == ReciprocalRankFusion(some, near)
        IN  /\ fused \in Seq(Products) /\ Distinct(fused)
            /\ ToSet(fused) = ToSet(some) \cup ToSet(near)
    BY <1>1, <1>3, FusionIsAll
  <2>2. QED
    BY <1>2, <1>4, <2>1 DEF near, some, words
<1>5. CASE words = << >> \/ near = << >>
  <2>1. ToSet(words) = {} \/ ToSet(near) = {}
    BY <1>5, NoList
  <2>2. /\ words \o near \in Seq(Products) /\ Distinct(words \o near)
        /\ ToSet(words \o near) = ToSet(words) \cup ToSet(near)
    BY <1>1, <2>1, ListsTogether
  <2>3. Fused(text) = words \o near
    BY <1>2, <1>5
  <2>4. ToSet(words) \subseteq ToSet(Fused(text)) /\ ToSet(some) \subseteq ToSet(Fused(text))
    BY <1>3, <2>2, <2>3
  <2>5. QED
    BY <2>2, <2>3, <2>4 DEF near, some, words
<1>6. QED
  BY <1>4, <1>5

\* What a search found, one product of each title.
LEMMA DedupedIsList ==
    ASSUME SearchTypeOK, NEW text
    PROVE  /\ Deduped(text) \in Seq(Products) /\ Distinct(Deduped(text))
           /\ OneOfEach(ToSet(Deduped(text)))
           /\ ask.mode # "dense" =>
                 LET seen == IF ask.mode = "hybrid" /\ Dense(text) # << >>
                             THEN First(Top, Lexical(text)) ELSE Lexical(text)
                 IN  \A p \in ToSet(seen) : \E q \in ToSet(Deduped(text)) : SameTitle(p, q)
<1>1. /\ Lexical(text) \in Seq(Products) /\ Distinct(Lexical(text))
      /\ Dense(text) \in Seq(Products) /\ Distinct(Dense(text))
      /\ Fused(text) \in Seq(Products) /\ Distinct(Fused(text))
  BY LexicalIsList, DenseIsList, FusedIsList
<1>2. PICK m : m = ask.mode /\ m \in {"bm25", "dense", "hybrid"}
  BY AskFacts
<1>3. PICK merged : /\ merged = CASE m = "bm25"   -> Lexical(text)
                                  [] m = "dense"  -> IF DenseAvailable THEN Dense(text)
                                                     ELSE Lexical(text)
                                  [] m = "hybrid" -> Fused(text)
                    /\ Deduped(text) = Dedupe(merged)
  BY <1>2 DEF Deduped
<1>4. /\ m = "bm25" => merged = Lexical(text)
      /\ m = "dense" => merged = Dense(text) \/ merged = Lexical(text)
      /\ m = "hybrid" => merged = Fused(text)
  BY <1>3
<1>5. merged \in Seq(Products) /\ Distinct(merged)
  BY <1>1, <1>2, <1>4
<1>6. /\ Deduped(text) \in Seq(Products) /\ Distinct(Deduped(text))
      /\ OneOfEach(ToSet(Deduped(text)))
      /\ \A p \in ToSet(merged) : \E q \in ToSet(Deduped(text)) : SameTitle(p, q)
  BY <1>3, <1>5, DedupeFits
<1>7. ASSUME m # "dense"
      PROVE  LET seen == IF m = "hybrid" /\ Dense(text) # << >>
                         THEN First(Top, Lexical(text)) ELSE Lexical(text)
             IN  ToSet(seen) \subseteq ToSet(merged)
  <2>1. CASE m = "bm25"
    BY <1>4, <2>1
  <2>2. CASE m = "hybrid"
    BY <1>4, <2>2, FusedIsList
  <2>3. QED
    BY <1>2, <1>7, <2>1, <2>2
<1>8. QED
  BY <1>2, <1>6, <1>7

\* When nothing is gone, nothing of a list is.
LEMMA NothingGone ==
    ASSUME gone = {}, NEW list \in Seq(Products)
    PROVE  Left(list) = list
<1>1. Products \ gone = Products
  OBVIOUS
<1>2. QED
  BY <1>1, OnlyAll DEF Left

\* The cross-encoder reorders a list.
LEMMA ReorderedIsAll ==
    ASSUME SearchTypeOK, NEW list \in Seq(Products), Distinct(list)
    PROVE  /\ Reordered(list) \in Seq(Products) /\ Distinct(Reordered(list))
           /\ ToSet(Reordered(list)) = ToSet(list)
           /\ ask.rerank # "works" => Reordered(list) = list
<1> DEFINE some == Only(CrossOrder, ToSet(list))
<1>1. /\ some \in Seq(Products) /\ Distinct(some)
      /\ ToSet(some) = ToSet(CrossOrder) \cap ToSet(list)
  BY SearchAssumption, OnlyThese
<1>2. ToSet(list) \subseteq ToSet(CrossOrder)
  BY SearchAssumption DEF ToSet
<1>3. Reordered(list) = some \/ Reordered(list) = list
  BY DEF Reordered
<1>4. ask.rerank # "works" => Reordered(list) = list
  BY DEF Reordered
<1> HIDE DEF some
<1>5. QED
  BY <1>1, <1>2, <1>3, <1>4

\* The front of a list reordered, and its rest.
LEMMA RerankIsList ==
    ASSUME SearchTypeOK, NEW list \in Seq(Products), Distinct(list), NEW n \in Nat
    PROVE  /\ Rerank(list, n) \in Seq(Products)
           /\ gone = {} => /\ Distinct(Rerank(list, n))
                           /\ ToSet(Rerank(list, n)) = ToSet(list)
                           /\ ask.rerank # "works" => Rerank(list, n) = list
<1> DEFINE front == First(n, list)
           k     == Len(front)
           rest  == SubSeq(list, k + 1, Len(list))
           left  == Left(front)
<1>1. /\ front \in Seq(Products) /\ Distinct(front) /\ k \in Nat /\ k <= Len(list)
      /\ Len(list) \in Nat
  <2>1. front \in Seq(Products) /\ Distinct(front)
        /\ k = IF n < Len(list) THEN n ELSE Len(list)
    BY FirstOfList
  <2>2. QED
    BY <2>1
<1>2. front = SubSeq(list, 1, IF k < Len(list) THEN k ELSE Len(list))
  <2>1. k = IF n < Len(list) THEN n ELSE Len(list)
    BY FirstOfList
  <2>2. k = IF k < Len(list) THEN k ELSE Len(list)
    BY <1>1
  <2>3. front = SubSeq(list, 1, k)
    BY <2>1 DEF First
  <2>4. QED
    BY <2>2, <2>3
<1> HIDE DEF front, k
<1>3. SubSeq(list, 1, Len(list)) = list
  OBVIOUS
<1>4. /\ rest \in Seq(Products) /\ Distinct(rest) /\ front \o rest = list
      /\ ToSet(front) \cup ToSet(rest) = ToSet(list)
      /\ ToSet(front) \cap ToSet(rest) = {}
  <2>1. IsCut(list, k, Len(list), front, rest)
    BY <1>1, <1>2 DEF IsCut
  <2> HIDE DEF rest
  <2>2. rest \in Seq(Products) /\ Distinct(rest)
    BY <2>1, TwoParts
  <2>3. front \o rest = SubSeq(list, 1, Len(list))
    BY <2>1, TwoParts
  <2>4. ToSet(front) \cup ToSet(rest) = ToSet(SubSeq(list, 1, Len(list)))
    BY <2>1, TwoParts
  <2>5. ToSet(front) \cap ToSet(rest) = {}
    BY <2>1, TwoParts
  <2>6. QED
    BY <1>3, <2>2, <2>3, <2>4, <2>5, Zenon
<1> HIDE DEF rest
<1>5. left \in Seq(Products) /\ Distinct(left)
  BY <1>1, OnlyThese DEF Left
<1>6. Rerank(list, n) = IF left = << >> THEN list ELSE Reordered(left) \o rest
  BY DEF Rerank, left, front, rest, k
<1> HIDE DEF left
<1>7. /\ Reordered(left) \in Seq(Products) /\ Distinct(Reordered(left))
      /\ ToSet(Reordered(left)) = ToSet(left)
      /\ ask.rerank # "works" => Reordered(left) = left
  BY <1>5, ReorderedIsAll
<1>8. /\ Reordered(left) \o rest \in Seq(Products)
      /\ ToSet(Reordered(left) \o rest) = ToSet(left) \cup ToSet(rest)
      /\ ToSet(left) \cap ToSet(rest) = {} => Distinct(Reordered(left) \o rest)
  BY <1>4, <1>7, ListsTogether
<1>9. gone = {} => left = front
  BY <1>1, NothingGone DEF left
<1>10. CASE left = << >>
  BY <1>6, <1>10
<1>11. CASE left # << >>
  <2>1. Rerank(list, n) = Reordered(left) \o rest
    BY <1>6, <1>11
  <2>2. gone = {} /\ ask.rerank # "works" => Reordered(left) \o rest = list
    BY <1>4, <1>7, <1>9
  <2>3. QED
    BY <1>4, <1>8, <1>9, <2>1, <2>2
<1>12. QED
  BY <1>10, <1>11

\* What is ranked, and that it is the same for every page of a firm list.
LEMMA RankedIsList ==
    ASSUME SearchTypeOK, NEW text, NEW from \in Nat
    PROVE  /\ Ranked(text, from) \in Seq(Products)
           /\ Firm => /\ Distinct(Ranked(text, from))
                      /\ ToSet(Ranked(text, from)) = ToSet(Deduped(text))
                      /\ (ask.rerank = "works" => limit + from <= Window)
                            => Ranked(text, from) = Ranked(text, 0)
<1> DEFINE window(n) == IF limit + n > Window THEN limit + n ELSE Window
           list == Deduped(text)
<1>1. limit \in Nat /\ Window \in Nat
  BY AskFacts, SearchAssumption
<1>2. \A n \in Nat : window(n) \in Nat
  BY <1>1
<1>3. list \in Seq(Products) /\ Distinct(list)
  BY DedupedIsList
<1>4. \A n \in Nat :
         Ranked(text, n) = IF ask.rerank = "off" THEN list ELSE Rerank(list, window(n))
  BY DEF Ranked
<1>5. limit + from <= Window => window(from) = window(0)
  BY <1>1
<1> HIDE DEF window, list
<1>6. CASE ask.rerank = "off"
  <2>1. Ranked(text, from) = list /\ Ranked(text, 0) = list
    BY <1>4, <1>6
  <2>2. QED
    BY <1>3, <2>1 DEF list
<1>7. CASE ask.rerank # "off"
  <2>1. Ranked(text, from) = Rerank(list, window(from))
        /\ Ranked(text, 0) = Rerank(list, window(0))
    BY <1>4, <1>7
  <2>2. \A n \in Nat :
           /\ Rerank(list, window(n)) \in Seq(Products)
           /\ gone = {} => /\ Distinct(Rerank(list, window(n)))
                           /\ ToSet(Rerank(list, window(n))) = ToSet(list)
                           /\ ask.rerank # "works" => Rerank(list, window(n)) = list
    BY <1>2, <1>3, RerankIsList
  <2>3. Firm => gone = {}
    BY <1>7 DEF Firm
  <2>4. PICK z \in Nat : z = 0
    OBVIOUS
  <2>5. /\ Ranked(text, from) \in Seq(Products)
        /\ Firm => /\ Distinct(Ranked(text, from))
                   /\ ToSet(Ranked(text, from)) = ToSet(list)
                   /\ ask.rerank # "works" => Ranked(text, from) = list
    BY <2>1, <2>2, <2>3
  <2>6. Firm /\ ask.rerank # "works" => Ranked(text, z) = list
    BY <2>1, <2>2, <2>3, <2>4
  <2>7. limit + from <= Window => Ranked(text, from) = Ranked(text, z)
    BY <1>5, <2>1, <2>4
  <2>8. QED
    BY <2>4, <2>5, <2>6, <2>7 DEF list
<1>8. QED
  BY <1>6, <1>7

\* What a search finds: a page more or less is found by the same text.
LEMMA FoundIsList ==
    ASSUME SearchTypeOK, NEW from \in Nat
    PROVE  /\ Found(from) \in Seq(Products)
           /\ Firm => /\ Distinct(Found(from))
                      /\ ToSet(Found(from)) = ToSet(Deduped(Text))
                      /\ Len(Found(from)) = Len(Found(0))
                      /\ (ask.rerank = "works" => limit + from <= Window)
                            => Found(from) = Found(0)
<1>1. \A t : \A n \in Nat :
         /\ Ranked(t, n) \in Seq(Products)
         /\ Firm => /\ Distinct(Ranked(t, n))
                    /\ ToSet(Ranked(t, n)) = ToSet(Deduped(t))
                    /\ (ask.rerank = "works" => limit + n <= Window)
                          => Ranked(t, n) = Ranked(t, 0)
  BY RankedIsList
<1>2. ASSUME Firm PROVE TextFor(Ranked("query", from)) = Text
  <2>1. PICK t : t = "query"
    OBVIOUS
  <2>2. ToSet(Ranked(t, from)) = ToSet(Ranked(t, 0))
        /\ Ranked(t, from) \in Seq(Products) /\ Ranked(t, 0) \in Seq(Products)
    BY <1>1, <1>2
  <2>3. \A list \in Seq(Products) : list = << >> <=> ToSet(list) = {}
    <3> SUFFICES ASSUME NEW list \in Seq(Products), ToSet(list) = {} PROVE list = << >>
      BY NoList
    <3>1. \A i \in DOMAIN list : FALSE
      BY DEF ToSet
    <3>2. Len(list) \in Nat /\ DOMAIN list = 1..Len(list)
      OBVIOUS
    <3>3. Len(list) = 0
      <4>1. Len(list) > 0 => 1 \in DOMAIN list
        BY <3>2
      <4>2. QED
        BY <3>1, <3>2, <4>1
    <3>4. QED
      BY <3>3
  <2>4. Ranked(t, from) = << >> <=> Ranked(t, 0) = << >>
    BY <2>2, <2>3
  <2>5. TextFor(Ranked(t, from)) = TextFor(Ranked(t, 0))
    BY <2>4 DEF TextFor
  <2>6. QED
    BY <2>1, <2>5 DEF Text
<1>3. Found(from) = Ranked(TextFor(Ranked("query", from)), from)
  BY DEF Found
<1>4. Found(0) = Ranked(Text, 0)
  BY DEF Found, Text
<1>5. Found(from) \in Seq(Products)
  BY <1>1, <1>3
<1>6. ASSUME Firm
      PROVE  /\ Distinct(Found(from))
             /\ ToSet(Found(from)) = ToSet(Deduped(Text))
             /\ Len(Found(from)) = Len(Found(0))
             /\ (ask.rerank = "works" => limit + from <= Window)
                   => Found(from) = Found(0)
  <2>1. Found(from) = Ranked(Text, from)
    BY <1>2, <1>3, <1>6
  <2>2. /\ Found(from) \in Seq(Products) /\ Found(0) \in Seq(Products)
        /\ Distinct(Found(from)) /\ Distinct(Found(0))
        /\ ToSet(Found(from)) = ToSet(Deduped(Text))
        /\ ToSet(Found(0)) = ToSet(Deduped(Text))
        /\ (ask.rerank = "works" => limit + from <= Window) => Found(from) = Found(0)
    BY <1>1, <1>4, <1>6, <2>1
  <2>3. Len(Found(from)) = Len(Found(0))
    BY <2>2, LengthOfDistinct
  <2>4. QED
    BY <2>2, <2>3
<1>7. QED
  BY <1>5, <1>6

-----------------------------------------------------------------------------
\* Nothing is shown before the first page.
LEMMA InitSearchInv == InitSearch => SearchInv
<1> SUFFICES ASSUME InitSearch PROVE SearchInv
  OBVIOUS
<1>1. SearchTypeOK /\ shown = << >> /\ offset = 0
  BY NoList DEF InitSearch, SearchTypeOK
<1>2. Found(0) \in Seq(Products)
  BY <1>1, FoundIsList
<1>3. ToSet(First(0, Found(0))) = {}
  <2>1. First(0, Found(0)) \in Seq(Products) /\ Len(First(0, Found(0))) = 0
    BY <1>2, FirstOfList
  <2>2. First(0, Found(0)) = << >>
    BY <2>1
  <2>3. QED
    BY <2>2, NoList
<1>4. QED
  BY <1>1, <1>3, NoList DEF SearchInv

\* A search whose terms stay finds what it found.
LEMMA SameSearch ==
    ASSUME ask' = ask, limit' = limit, gone' = gone
    PROVE  Found(0)' = Found(0)
<1>1. ASSUME NEW text PROVE Lexical(text)' = Lexical(text)
  BY DEF Lexical
<1>2. ASSUME NEW text PROVE Dense(text)' = Dense(text)
  BY DEF Dense
<1>3. ASSUME NEW text PROVE Fused(text)' = Fused(text)
  BY <1>1, <1>2 DEF Fused
<1>4. ASSUME NEW text PROVE Deduped(text)' = Deduped(text)
  BY <1>1, <1>2, <1>3 DEF Deduped, DenseAvailable
<1>5. ASSUME NEW list PROVE Left(list)' = Left(list) /\ Reordered(list)' = Reordered(list)
  BY DEF Left, Reordered
<1>6. ASSUME NEW list, NEW n PROVE Rerank(list, n)' = Rerank(list, n)
  BY <1>5 DEF Rerank, Left, Reordered
<1>7. ASSUME NEW text PROVE Ranked(text, 0)' = Ranked(text, 0)
  BY <1>4, <1>6 DEF Ranked
<1>8. TextFor(Ranked("query", 0))' = TextFor(Ranked("query", 0))
  BY <1>7 DEF TextFor
<1>9. QED
  BY <1>7, <1>8 DEF Found

\* Pages of one list are pages of a firm one.
LEMMA OneListIsFirm == OneList => Firm
BY DEF OneList, Firm

\* A page goes on where the last one ended.
LEMMA NextPageKeeps == SearchInv /\ NextPage => SearchInv'
<1> SUFFICES ASSUME SearchInv, NextPage PROVE SearchInv'
  OBVIOUS
<1> DEFINE L    == Found(offset)
           to   == offset + limit
           page == SubSeq(L, offset + 1, Len(First(to, L)))
<1>1. /\ SearchTypeOK /\ ask.asker = "shop"
      /\ shown' = shown \o Left(page) /\ offset' = to
      /\ ask' = ask /\ limit' = limit /\ gone' = gone
  BY DEF SearchInv, NextPage
<1>2. limit \in Nat /\ limit > 0 /\ offset \in Nat /\ to \in Nat /\ shown \in Seq(Products)
  BY <1>1, AskFacts
<1>3. L \in Seq(Products)
  BY <1>1, <1>2, FoundIsList
<1> DEFINE m == Len(First(to, L))
<1>4. /\ m = IF to < Len(L) THEN to ELSE Len(L)
      /\ Len(L) \in Nat /\ m \in Nat /\ m <= Len(L)
  <2>1. m = IF to < Len(L) THEN to ELSE Len(L)
    BY <1>2, <1>3, FirstOfList
  <2>2. QED
    BY <1>2, <1>3, <2>1
<1>5. /\ First(to, L) = SubSeq(L, 1, m)
      /\ First(offset, L) = SubSeq(L, 1, IF offset < m THEN offset ELSE m)
  <2> HIDE DEF L
  <2>1. First(to, L) = SubSeq(L, 1, m)
    BY <1>4 DEF First
  <2>2. (IF offset < m THEN offset ELSE m) = IF offset < Len(L) THEN offset ELSE Len(L)
    BY <1>2, <1>4
  <2>3. QED
    BY <2>1, <2>2 DEF First
<1>6. /\ page \in Seq(Products)
      /\ ToSet(First(offset, L)) \cup ToSet(page) = ToSet(First(to, L))
      /\ Distinct(L) => /\ Distinct(page)
                        /\ ToSet(First(offset, L)) \cap ToSet(page) = {}
  <2> HIDE DEF L, m
  <2>1. IsCut(L, offset, m, First(offset, L), page)
    BY <1>2, <1>4, <1>5 DEF IsCut, m
  <2> HIDE DEF page
  <2>2. page \in Seq(Products) /\ (Distinct(L) => Distinct(page))
    BY <1>3, <2>1, TwoParts
  <2>3. ToSet(First(offset, L)) \cup ToSet(page) = ToSet(SubSeq(L, 1, m))
    BY <1>3, <2>1, TwoParts
  <2>4. Distinct(L) => ToSet(First(offset, L)) \cap ToSet(page) = {}
    BY <1>3, <2>1, TwoParts
  <2>5. QED
    BY <1>5, <2>2, <2>3, <2>4, Zenon
<1> HIDE DEF L, page, m, to
<1>7. /\ Left(page) \in Seq(Products)
      /\ ToSet(Left(page)) = ToSet(page) \ gone
      /\ Distinct(page) => Distinct(Left(page))
  <2>1. ToSet(page) \subseteq Products
    BY <1>6 DEF ToSet
  <2>2. QED
    BY <1>6, <2>1, OnlyThese DEF Left
<1>8. /\ shown' \in Seq(Products)
      /\ ToSet(shown') = ToSet(shown) \cup ToSet(Left(page))
      /\ Distinct(shown) /\ Distinct(Left(page)) /\ ToSet(shown) \cap ToSet(Left(page)) = {}
            => Distinct(shown')
  BY <1>1, <1>2, <1>7, ListsTogether
<1>9. SearchTypeOK'
  BY <1>1, <1>2, <1>8 DEF SearchTypeOK
<1>10. Found(0)' = Found(0)
  BY <1>1, SameSearch
<1>11. ASSUME OneList'
       PROVE  /\ Distinct(shown')
              /\ ToSet(shown') \subseteq ToSet(First(to, L))
              /\ ToSet(First(to, L)) \subseteq ToSet(shown') \cup gone
              /\ L = Found(0)
  <2>1. OneList /\ (ask.rerank = "works" => limit + offset <= Window)
    <3>1. /\ gone # {} => ask.mode = "bm25" /\ ask.rerank = "off" /\ ask.filter = {}
          /\ ask.rerank = "works" => to <= Window
      BY <1>1, <1>11 DEF OneList
    <3>2. to <= Window => offset <= Window /\ limit + offset <= Window
      BY <1>2, SearchAssumption DEF to
    <3>3. QED
      BY <3>1, <3>2 DEF OneList
  <2>2. Distinct(L) /\ L = Found(0)
    BY <1>1, <1>2, <2>1, OneListIsFirm, FoundIsList DEF L
  <2>3. /\ Distinct(shown)
        /\ ToSet(shown) \subseteq ToSet(First(offset, L))
        /\ ToSet(First(offset, L)) \subseteq ToSet(shown) \cup gone
    BY <1>1, <2>1, <2>2 DEF SearchInv
  <2>4. QED
    BY <1>6, <1>7, <1>8, <2>2, <2>3
<1>12. (ask.asker = "shop")' /\ ~(ask.asker = "copilot")'
  BY <1>1
<1>13. QED
  BY <1>1, <1>9, <1>10, <1>11, <1>12 DEF SearchInv

\* The copilot's candidates are no two of one product.
LEMMA SearchCatalogKeeps == SearchInv /\ SearchCatalog => SearchInv'
<1> SUFFICES ASSUME SearchInv, SearchCatalog PROVE SearchInv'
  OBVIOUS
<1>1. PICK text : shown' = CatalogOnce(text)
  BY DEF SearchCatalog
<1>2. /\ SearchTypeOK /\ ask.asker = "copilot" /\ offset' = limit
      /\ ask' = ask /\ limit' = limit /\ gone' = gone
  BY DEF SearchInv, SearchCatalog
<1>3. limit \in Nat /\ Handful \in Nat
  BY <1>2, AskFacts, SearchAssumption
<1> DEFINE some == First(Handful, Fused(text))
<1>4. some \in Seq(Products) /\ Distinct(some)
  BY <1>2, <1>3, FusedIsList, FirstOfList
<1>5. Left(some) \in Seq(Products) /\ Distinct(Left(some))
  <2> HIDE DEF some
  <2>1. QED
    BY <1>4, OnlyThese DEF Left
<1>6. Reordered(Left(some)) \in Seq(Products) /\ Distinct(Reordered(Left(some)))
  BY <1>2, <1>5, ReorderedIsAll
<1>7. shown' = First(limit, Reordered(Left(some)))
  BY <1>1 DEF CatalogOnce
<1> HIDE DEF some
<1>8. shown' \in Seq(Products) /\ Distinct(shown')
  BY <1>3, <1>6, <1>7, FirstOfList
<1>9. SearchTypeOK'
  BY <1>2, <1>3, <1>8 DEF SearchTypeOK
<1>10. ~(ask.asker = "shop")'
  BY <1>2
<1>11. QED
  BY <1>8, <1>9, <1>10 DEF SearchInv

\* A list by words, without a filter and without the cross-encoder, stays what it
\* was.
LEMMA DeleteProductKeeps == SearchInv /\ DeleteProduct => SearchInv'
<1> SUFFICES ASSUME SearchInv, DeleteProduct PROVE SearchInv'
  OBVIOUS
<1>1. /\ SearchTypeOK /\ gone = {} /\ gone' \subseteq Products /\ gone' # {}
      /\ ask' = ask /\ limit' = limit /\ offset' = offset /\ shown' = shown
  BY DEF SearchInv, DeleteProduct
<1>2. SearchTypeOK'
  BY <1>1 DEF SearchTypeOK
<1>3. ASSUME OneList'
      PROVE  OneList /\ Found(0)' = Found(0)
  <2>1. ask.mode = "bm25" /\ ask.rerank = "off" /\ ask.filter = {}
    BY <1>1, <1>3 DEF OneList
  <2>2. OneList
    BY <1>1, <2>1 DEF OneList
  <2>3. ASSUME NEW text PROVE Lexical(text)' = Lexical(text)
    BY <1>1, <2>1 DEF Lexical
  <2>4. ASSUME NEW text PROVE Ranked(text, 0)' = Ranked(text, 0)
    <3>1. Deduped(text) = Dedupe(Lexical(text))
      BY <2>1 DEF Deduped
    <3>2. Deduped(text)' = Dedupe(Lexical(text)')
      BY <1>1, <2>1 DEF Deduped
    <3>3. QED
      BY <1>1, <2>1, <2>3, <3>1, <3>2 DEF Ranked
  <2>5. TextFor(Ranked("query", 0))' = TextFor(Ranked("query", 0))
    BY <1>1, <2>4 DEF TextFor
  <2>6. QED
    BY <2>2, <2>4, <2>5 DEF Found
<1>4. QED
  BY <1>1, <1>2, <1>3 DEF SearchInv

LEMMA NextSearchInv == SearchInv /\ [NextSearch]_searchVars => SearchInv'
<1> SUFFICES ASSUME SearchInv, [NextSearch]_searchVars PROVE SearchInv'
  OBVIOUS
<1>1. CASE NextPage
  BY <1>1, NextPageKeeps
<1>2. CASE SearchCatalog
  BY <1>2, SearchCatalogKeeps
<1>3. CASE DeleteProduct
  BY <1>3, DeleteProductKeeps
<1>4. CASE UNCHANGED searchVars
  <2>1. /\ ask' = ask /\ limit' = limit /\ gone' = gone
        /\ offset' = offset /\ shown' = shown
    BY <1>4 DEF searchVars
  <2>2. Found(0)' = Found(0)
    BY <2>1, SameSearch
  <2>3. QED
    BY <2>1, <2>2 DEF SearchInv, SearchTypeOK, OneList
<1>5. QED
  BY <1>1, <1>2, <1>3, <1>4 DEF NextSearch

\* Pages of results repeat nothing and skip nothing, however the rankings overlap,
\* titles repeat, the cross-encoder orders and the embedding fails.
THEOREM PagesAreOfOneList == SpecSearch => []PagesFit
<1>1. ASSUME SearchInv PROVE EachOnce
  <2> SUFFICES ASSUME OneList, NEW i \in DOMAIN shown, NEW j \in DOMAIN shown, i < j
               PROVE  shown[i] # shown[j]
                      /\ (ask.asker = "shop" => ~SameTitle(shown[i], shown[j]))
    BY DEF EachOnce
  <2>1. SearchTypeOK /\ ask.asker \in {"shop", "copilot"}
    BY <1>1, AskFacts DEF SearchInv
  <2>2. Distinct(shown)
    BY <1>1, <2>1 DEF SearchInv
  <2>3. shown[i] # shown[j]
    BY <2>2 DEF Distinct
  <2>4. ASSUME ask.asker = "shop" PROVE ~SameTitle(shown[i], shown[j])
    <3>1. /\ ToSet(shown) \subseteq ToSet(First(offset, Found(0)))
          /\ offset \in Nat
      BY <1>1, <2>1, <2>4, AskFacts DEF SearchInv
    <3>2. Found(0) \in Seq(Products) /\ ToSet(Found(0)) = ToSet(Deduped(Text))
      BY <2>1, OneListIsFirm, FoundIsList
    <3>3. ToSet(First(offset, Found(0))) \subseteq ToSet(Found(0))
      BY <3>1, <3>2, FirstOfList
    <3>4. OneOfEach(ToSet(Deduped(Text)))
      BY <2>1, DedupedIsList
    <3>5. shown[i] \in ToSet(shown) /\ shown[j] \in ToSet(shown)
      BY DEF ToSet
    <3>6. QED
      BY <2>3, <3>1, <3>2, <3>3, <3>4, <3>5 DEF OneOfEach
  <2>5. QED
    BY <2>3, <2>4
<1>2. ASSUME SearchInv PROVE NothingSkipped
  <2> DEFINE seen == IF ask.mode = "hybrid" /\ Dense(Text) # << >>
                     THEN First(Top, Lexical(Text)) ELSE Lexical(Text)
  <2> SUFFICES ASSUME ask.asker = "shop", ask.mode # "dense", OneList,
                      offset >= Len(Found(offset)), NEW p \in ToSet(seen)
               PROVE  \E q \in ToSet(shown) \cup gone : SameTitle(p, q)
    BY DEF NothingSkipped
  <2>1. SearchTypeOK /\ offset \in Nat
    BY <1>2, AskFacts DEF SearchInv
  <2>2. /\ Found(0) \in Seq(Products) /\ ToSet(Found(0)) = ToSet(Deduped(Text))
        /\ Len(Found(offset)) = Len(Found(0))
    <3>1. PICK n \in Nat : n = 0
      OBVIOUS
    <3>2. Found(n) \in Seq(Products) /\ ToSet(Found(n)) = ToSet(Deduped(Text))
      BY <2>1, OneListIsFirm, FoundIsList
    <3>3. QED
      BY <2>1, <3>1, <3>2, OneListIsFirm, FoundIsList
  <2>3. First(offset, Found(0)) = Found(0)
    BY <2>1, <2>2, FirstOfList
  <2>4. ToSet(Deduped(Text)) \subseteq ToSet(shown) \cup gone
    BY <1>2, <2>2, <2>3 DEF SearchInv
  <2>5. \E q \in ToSet(Deduped(Text)) : SameTitle(p, q)
    BY <2>1, DedupedIsList
  <2>6. QED
    BY <2>4, <2>5
<1>3. SearchInv => PagesFit
  BY <1>1, <1>2 DEF PagesFit
<1>4. QED
  BY <1>3, InitSearchInv, NextSearchInv, PTL DEF SpecSearch
=============================================================================
