-------------------------- MODULE BlockPoolProofs --------------------------
(***************************************************************************)
(* What the operations of the block pool do, for every pool: lemmas the    *)
(* proofs about PrefixCache rest on.                                       *)
(***************************************************************************)
EXTENDS BlockPool, FiniteSetTheorems, SequenceTheorems, TLAPS

\* A set of positions is finite and no larger than the sequence.
LEMMA PositionsFinite ==
    ASSUME NEW n \in Nat, NEW K \in SUBSET (1..n)
    PROVE  /\ K \in SUBSET Int /\ IsFiniteSet(K)
           /\ Cardinality(K) \in Nat /\ Cardinality(K) =< n
<1>1. IsFiniteSet(1..n) /\ Cardinality(1..n) = n
  BY FS_Interval
<1>2. IsFiniteSet(K) /\ Cardinality(K) =< n
  BY <1>1, FS_Subset
<1> QED BY <1>2, FS_CardinalityType

\* The position of i in a finite set of integers, counted from 1, is a
\* bijection onto 1..Cardinality(K).
LEMMA RankBijective ==
    ASSUME NEW K \in SUBSET Int, IsFiniteSet(K)
    PROVE  LET Rank(i) == Cardinality({j \in K : j =< i})
           IN  /\ \A i \in K : Rank(i) \in 1..Cardinality(K)
               /\ \A i, j \in K : Rank(i) = Rank(j) => i = j
               /\ \A k \in 1..Cardinality(K) : \E i \in K : Rank(i) = k
<1> DEFINE Upto(i) == {j \in K : j =< i}
           rank == [i \in K |-> Cardinality(Upto(i))]
           n == Cardinality(K)
<1>0. n \in Nat
  BY FS_CardinalityType
<1>1. \A i \in K : IsFiniteSet(Upto(i)) /\ Cardinality(Upto(i)) \in 1..n
  <2> TAKE i \in K
  <2>1. Upto(i) \in SUBSET K /\ i \in Upto(i)
    OBVIOUS
  <2>2. IsFiniteSet(Upto(i)) /\ Cardinality(Upto(i)) =< n
    BY <2>1, FS_Subset
  <2>3. Cardinality(Upto(i)) \in Nat /\ Cardinality(Upto(i)) # 0
    BY <2>1, <2>2, FS_EmptySet, FS_CardinalityType
  <2> HIDE DEF Upto, n
  <2> QED BY <1>0, <2>2, <2>3
<1>2. ASSUME NEW i \in K, NEW j \in K, i < j
      PROVE  Cardinality(Upto(i)) # Cardinality(Upto(j))
  <2>0. i \in Int /\ j \in Int /\ \A m \in K : m \in Int
    OBVIOUS
  <2>1. j \in Upto(j) /\ j \notin Upto(i)
    BY <1>2, <2>0
  <2>2. Upto(i) \in SUBSET Upto(j)
    <3> SUFFICES ASSUME NEW m \in K, m =< i  PROVE m =< j
      OBVIOUS
    <3> QED BY <1>2, <2>0
  <2> QED BY <1>1, <2>1, <2>2, FS_Subset
<1>3. \A i, j \in K : Cardinality(Upto(i)) = Cardinality(Upto(j)) => i = j
  <2> HIDE DEF Upto
  <2> QED BY <1>2
<1>4. rank \in Injection(K, 1..n)
  <2> HIDE DEF Upto, n
  <2> QED BY <1>1, <1>3 DEF Injection, IsInjective
<1>5. IsFiniteSet(1..n) /\ Cardinality(1..n) = n
  BY <1>0, FS_Interval
<1>6. rank \in Surjection(K, 1..n)
  BY <1>4, <1>5, FS_Injection
<1>7. \A k \in 1..n : \E i \in K : Cardinality(Upto(i)) = k
  <2> HIDE DEF Upto, n
  <2> QED BY <1>6 DEF Surjection
<1> QED BY <1>1, <1>3, <1>7

\* Filter keeps the elements of S, once each time they occur, in a sequence.
LEMMA FilterProperties ==
    ASSUME NEW T, NEW s \in Seq(T), NEW S
    PROVE  /\ Filter(s, S) \in Seq(T)
           /\ Len(Filter(s, S)) = Cardinality({i \in 1..Len(s) : s[i] \in S})
           /\ Range(Filter(s, S)) = Range(s) \cap S
<1> DEFINE K == {i \in 1..Len(s) : s[i] \in S}
           Rank(i) == Cardinality({j \in K : j =< i})
           Nth(k) == CHOOSE i \in K : Rank(i) = k
           n == Cardinality(K)
<1>1. Len(s) \in Nat /\ DOMAIN s = 1..Len(s) /\ \A i \in 1..Len(s) : s[i] \in T
  BY LenProperties, ElementOfSeq
<1>2. K \in SUBSET Int /\ IsFiniteSet(K) /\ n \in Nat
  BY <1>1, PositionsFinite
<1>3. /\ \A i \in K : Rank(i) \in 1..n
      /\ \A i, j \in K : Rank(i) = Rank(j) => i = j
      /\ \A k \in 1..n : \E i \in K : Rank(i) = k
  BY <1>2, RankBijective
<1>4. Filter(s, S) = [k \in 1..n |-> s[Nth(k)]]
  BY <1>1 DEF Filter
<1> HIDE DEF Rank, n
<1>5. \A k \in 1..n : Nth(k) \in K /\ Rank(Nth(k)) = k
  BY <1>3
<1>6. \A i \in K : Nth(Rank(i)) = i
  BY <1>3, <1>5
<1> HIDE DEF Nth
<1>7. \A k \in 1..n : s[Nth(k)] \in T /\ s[Nth(k)] \in S
  BY <1>1, <1>5
<1>8. Filter(s, S) \in Seq(T) /\ Len(Filter(s, S)) = n
  BY <1>2, <1>4, <1>7
<1>9. Range(Filter(s, S)) = Range(s) \cap S
  BY <1>1, <1>3, <1>4, <1>5, <1>6, <1>7 DEF Range
<1> QED BY <1>8, <1>9 DEF n

\* Filtering a sequence without duplicates leaves none.
LEMMA FilterInjective ==
    ASSUME NEW T, NEW s \in Seq(T), NEW S,
           \A i, j \in 1..Len(s) : (s[i] \in S /\ s[i] = s[j]) => i = j
    PROVE  IsInjective(Filter(s, S))
<1> DEFINE K == {i \in 1..Len(s) : s[i] \in S}
           Rank(i) == Cardinality({j \in K : j =< i})
           Nth(k) == CHOOSE i \in K : Rank(i) = k
           n == Cardinality(K)
<1>1. Len(s) \in Nat /\ DOMAIN s = 1..Len(s)
  BY LenProperties
<1>2. K \in SUBSET Int /\ IsFiniteSet(K)
  BY <1>1, PositionsFinite
<1>3. \A k \in 1..n : \E i \in K : Rank(i) = k
  BY <1>2, RankBijective
<1>4. Filter(s, S) = [k \in 1..n |-> s[Nth(k)]]
  BY <1>1 DEF Filter
<1> HIDE DEF Rank, n
<1>5. \A k \in 1..n : Nth(k) \in K /\ Rank(Nth(k)) = k
  BY <1>3
<1> HIDE DEF Nth
<1>6. \A k, m \in 1..n : s[Nth(k)] = s[Nth(m)] => Nth(k) = Nth(m)
  BY <1>5
<1> QED BY <1>4, <1>5, <1>6 DEF IsInjective

\* The elements of a sequence without duplicates, counted.
LEMMA InjectiveLength ==
    ASSUME NEW T, NEW s \in Seq(T), IsInjective(s)
    PROVE  IsFiniteSet(Range(s)) /\ Cardinality(Range(s)) = Len(s)
<1>1. Len(s) \in Nat /\ DOMAIN s = 1..Len(s) /\ s \in [1..Len(s) -> Range(s)]
  BY LenProperties DEF Range
<1>2. IsFiniteSet(1..Len(s)) /\ Cardinality(1..Len(s)) = Len(s)
  BY <1>1, FS_Interval
<1>3. s \in Injection(1..Len(s), Range(s)) /\ s \in Surjection(1..Len(s), Range(s))
  BY <1>1 DEF Injection, Surjection, Range, IsInjective
<1> QED BY <1>2, <1>3, FS_Surjection

\* What is left of a sequence without duplicates once S has been removed.
LEMMA WithoutProperties ==
    ASSUME NEW T, NEW s \in Seq(T), NEW S, IsInjective(s)
    PROVE  /\ Without(s, S) \in Seq(T)
           /\ IsInjective(Without(s, S))
           /\ Range(Without(s, S)) = Range(s) \ S
           /\ IsFiniteSet(Range(s) \cap S)
           /\ Len(Without(s, S)) = Len(s) - Cardinality(Range(s) \cap S)
<1>1. DOMAIN s = 1..Len(s)
  BY LenProperties
<1>2. Without(s, S) \in Seq(T) /\ Range(Without(s, S)) = Range(s) \ S
  <2>1. /\ Filter(s, Range(s) \ S) \in Seq(T)
        /\ Range(Filter(s, Range(s) \ S)) = Range(s) \cap (Range(s) \ S)
    BY FilterProperties
  <2>2. Range(s) \cap (Range(s) \ S) = Range(s) \ S
    OBVIOUS
  <2> QED BY <2>1, <2>2 DEF Without
<1>3. IsInjective(Without(s, S))
  BY <1>1, FilterInjective DEF Without, IsInjective
<1>4. IsFiniteSet(Range(s)) /\ Cardinality(Range(s)) = Len(s)
  BY InjectiveLength
<1>5. Cardinality(Range(s) \ S) = Len(Without(s, S))
  BY <1>2, <1>3, InjectiveLength
<1>6. Cardinality(Range(s) \ S) = Cardinality(Range(s)) - Cardinality(Range(s) \cap S)
  BY <1>4, FS_Difference
<1>7. IsFiniteSet(Range(s) \cap S)
  BY <1>4, FS_Intersection
<1> QED BY <1>2, <1>3, <1>4, <1>5, <1>6, <1>7
-----------------------------------------------------------------------------
(* A pool in order: the three facts every operation keeps.                 *)

\* FreeQueueExact, of a pool.
QueueExact(p) ==
    /\ IsInjective(p.free)
    /\ \A b \in Block : b \in Range(p.free) <=> p.refCnt[b] = 0

\* CacheMapExact and EventsReplayCache, of a pool.
MapExact(p) ==
    \A h \in Hash :
       /\ IsInjective(p.cached[h])
       /\ \A b \in Block : b \in Range(p.cached[h]) <=> p.hash[b] = h
       /\ p.published[h] = Len(p.cached[h])

PoolOK(p) == p \in Pool /\ QueueExact(p) /\ MapExact(p)

\* There are finitely many blocks.
LEMMA BlocksFinite == IsFiniteSet(Block) /\ Cardinality(Block) = NumGpuBlocks - 1
  BY PoolAssumption, FS_Interval DEF Block

\* The pool starts with every block free and nothing cached.
LEMMA InitPoolOK == PoolOK(InitPool)
<1>1. NumGpuBlocks - 1 \in Nat
  BY PoolAssumption
<1>2. InitPool \in Pool
  BY <1>1 DEF InitPool, Pool, Block
<1>3. QueueExact(InitPool)
  BY <1>1 DEF InitPool, QueueExact, IsInjective, Range, Block
<1>4. MapExact(InitPool)
  BY PoolAssumption DEF InitPool, MapExact, IsInjective, Range
<1> QED BY <1>2, <1>3, <1>4 DEF PoolOK

\* _maybe_evict_cached_block takes the hash from exactly the blocks of B.
LEMMA EvictOK ==
    ASSUME NEW p, PoolOK(p), NEW B \in SUBSET Block
    PROVE  LET q == Evict(p, B)
           IN  /\ PoolOK(q)
               /\ q.free = p.free /\ q.refCnt = p.refCnt
               /\ q.hash = [b \in Block |-> IF b \in B THEN NoHash ELSE p.hash[b]]
<1> DEFINE q == Evict(p, B)
           gone == {b \in B : p.hash[b] # NoHash /\ b \in Range(p.cached[p.hash[b]])}
           Of(h) == {b \in gone : p.hash[b] = h}
<1>0. p \in Pool /\ QueueExact(p) /\ MapExact(p)
  BY DEF PoolOK
<1>1. gone = {b \in B : p.hash[b] # NoHash}
  BY <1>0 DEF MapExact, Pool
<1> DEFINE X == [b \in Block |-> IF b \in gone THEN NoHash ELSE p.hash[b]]
           Y == [h \in Hash |-> IF \E b \in gone : p.hash[b] = h
                                THEN Without(p.cached[h], gone) ELSE p.cached[h]]
           Z == [h \in Hash |-> p.published[h] - Cardinality(Of(h))]
<1>2. q = [free |-> p.free, refCnt |-> p.refCnt, hash |-> X, cached |-> Y,
           published |-> Z]
  <2>1. q = [p EXCEPT !.hash = X, !.cached = Y, !.published = Z]
    BY DEF Evict
  <2> HIDE DEF q, X, Y, Z
  <2> QED BY <1>0, <2>1 DEF Pool
<1> HIDE DEF q
<1>3. X = [b \in Block |-> IF b \in B THEN NoHash ELSE p.hash[b]]
  BY <1>0, <1>1, <1>2 DEF Pool
<1>4. ASSUME NEW h \in Hash
      PROVE  /\ Y[h] \in Seq(Block) /\ IsInjective(Y[h])
             /\ Range(Y[h]) = Range(p.cached[h]) \ gone
             /\ Z[h] \in Int /\ Z[h] = Len(Y[h])
  <2>0. p.cached[h] \in Seq(Block) /\ IsInjective(p.cached[h])
    BY <1>0 DEF Pool, MapExact
  <2>1. /\ Range(p.cached[h]) \cap gone = Of(h)
        /\ p.published[h] = Len(p.cached[h]) /\ Len(p.cached[h]) \in Nat
    BY <1>0, <2>0, LenProperties DEF Pool, MapExact
  <2> DEFINE w == Without(p.cached[h], gone)
  <2>2. /\ w \in Seq(Block) /\ IsInjective(w) /\ Range(w) = Range(p.cached[h]) \ gone
        /\ IsFiniteSet(Range(p.cached[h]) \cap gone)
        /\ Len(w) = Len(p.cached[h]) - Cardinality(Range(p.cached[h]) \cap gone)
    <3> HIDE DEF gone
    <3> QED BY <2>0, WithoutProperties, Zenon
  <2>3. Z[h] = p.published[h] - Cardinality(Of(h))
    OBVIOUS
  <2>4. CASE \E b \in gone : p.hash[b] = h
    <3>1. Y[h] = w
      BY <2>4
    <3> HIDE DEF gone, Of, Y, Z, w
    <3>2. Cardinality(Of(h)) \in Nat
      BY <2>1, <2>2, FS_CardinalityType
    <3>3. Len(w) = Len(p.cached[h]) - Cardinality(Of(h))
      BY <2>1, <2>2, Zenon
    <3>4. Z[h] = Len(Y[h]) /\ Z[h] \in Int
      BY <2>1, <2>3, <3>1, <3>2, <3>3
    <3> QED BY <2>2, <3>1, <3>4
  <2>5. CASE ~ \E b \in gone : p.hash[b] = h
    <3>1. Y[h] = p.cached[h] /\ Of(h) = {}
      BY <2>5
    <3> HIDE DEF gone, Of, Y, Z, w
    <3>2. Z[h] = Len(Y[h]) /\ Z[h] \in Int
      BY <2>1, <2>3, <3>1, FS_EmptySet
    <3>3. Range(Y[h]) = Range(p.cached[h]) \ gone
      BY <2>1, <3>1
    <3> QED BY <2>0, <3>1, <3>2, <3>3
  <2> QED BY <2>4, <2>5
<1> HIDE DEF X, Y, Z, gone
<1>5. q \in Pool
  <2>1. X \in [Block -> Hash \cup {NoHash}]
    BY <1>0, <1>3 DEF Pool
  <2>2. Y \in [Hash -> Seq(Block)] /\ Z \in [Hash -> Int]
    BY <1>4 DEF Y, Z
  <2> QED BY <1>0, <1>2, <2>1, <2>2 DEF Pool
<1>6. QueueExact(q)
  BY <1>0, <1>2 DEF QueueExact
<1>7. MapExact(q)
  <2> SUFFICES ASSUME NEW h \in Hash, NEW b \in Block
               PROVE  b \in Range(Y[h]) <=> X[b] = h
    BY <1>2, <1>4 DEF MapExact
  <2>1. b \in Range(p.cached[h]) <=> p.hash[b] = h
    BY <1>0 DEF MapExact
  <2>2. h # NoHash
    BY PoolAssumption
  <2> QED BY <1>1, <1>3, <1>4, <2>1, <2>2
<1> QED BY <1>2, <1>3, <1>5, <1>6, <1>7 DEF PoolOK, q

\* A sequence without duplicates cut after its first n elements.
LEMMA SplitInjective ==
    ASSUME NEW T, NEW s \in Seq(T), IsInjective(s), NEW n \in 0..Len(s)
    PROVE  LET a == SubSeq(s, 1, n)
               z == SubSeq(s, n + 1, Len(s))
           IN  /\ a \in Seq(T) /\ z \in Seq(T) /\ Len(a) = n
               /\ IsInjective(a) /\ IsInjective(z)
               /\ Range(a) \subseteq Range(s) /\ Range(z) = Range(s) \ Range(a)
<1> DEFINE a == SubSeq(s, 1, n)
           z == SubSeq(s, n + 1, Len(s))
           m == Len(s)
<1>1. m \in Nat /\ DOMAIN s = 1..m /\ n \in Nat /\ n =< m
      /\ \A i \in 1..m : s[i] \in T
  BY LenProperties, ElementOfSeq
<1>2. /\ a \in Seq(T) /\ Len(a) = n
      /\ \A i \in 1..n : a[i] = s[i]
  <2>1. \A i \in 1..n : s[i] \in T
    BY <1>1
  <2> QED BY <1>1, <2>1, SubSeqProperties
<1>3. /\ z \in Seq(T) /\ Len(z) = m - n
      /\ \A i \in 1..(m - n) : z[i] = s[n + i]
  <2>1. \A i \in (n + 1)..m : s[i] \in T
    BY <1>1
  <2>2. /\ z \in Seq(T) /\ Len(z) = (IF n + 1 =< m THEN m - (n + 1) + 1 ELSE 0)
        /\ \A i \in 1..(m - (n + 1) + 1) : z[i] = s[(n + 1) + i - 1]
    BY <1>1, <2>1, SubSeqProperties
  <2> HIDE DEF z, m
  <2> QED BY <1>1, <2>2
<1>4. DOMAIN a = 1..n /\ DOMAIN z = 1..(m - n)
  BY <1>2, <1>3, LenProperties
<1> HIDE DEF a, z, m
<1>5. \A i, j \in 1..m : s[i] = s[j] => i = j
  BY <1>1 DEF IsInjective
<1>6. IsInjective(a)
  BY <1>1, <1>2, <1>4, <1>5 DEF IsInjective
<1>7. IsInjective(z)
  <2> SUFFICES ASSUME NEW i \in 1..(m - n), NEW j \in 1..(m - n), z[i] = z[j]
               PROVE  i = j
    BY <1>4 DEF IsInjective
  <2>1. n + i \in 1..m /\ n + j \in 1..m /\ s[n + i] = s[n + j]
    BY <1>1, <1>3
  <2>2. n + i = n + j
    BY <1>5, <2>1
  <2> QED BY <1>1, <2>2
<1>8. Range(a) = {s[i] : i \in 1..n}
  BY <1>2, <1>4 DEF Range
<1>9. Range(z) = {s[i] : i \in (n + 1)..m}
  <2>1. \A i \in 1..(m - n) : n + i \in (n + 1)..m
    BY <1>1
  <2>2. \A i \in (n + 1)..m : i - n \in 1..(m - n) /\ n + (i - n) = i
    BY <1>1
  <2>3. ASSUME NEW x \in Range(z) PROVE \E i \in (n + 1)..m : x = s[i]
    <3>1. PICK i \in 1..(m - n) : x = z[i]
      BY <1>4 DEF Range
    <3> QED BY <1>3, <2>1, <3>1
  <2>4. ASSUME NEW i \in (n + 1)..m PROVE s[i] \in Range(z)
    <3>1. z[i - n] = s[i]
      BY <1>3, <2>2
    <3> QED BY <1>4, <2>2, <3>1 DEF Range
  <2> QED BY <2>3, <2>4
<1>10. Range(s) = {s[i] : i \in 1..m}
  BY <1>1 DEF Range
<1>11. Range(a) \subseteq Range(s) /\ Range(z) = Range(s) \ Range(a)
  <2>1. \A i \in 1..n : i \in 1..m
    BY <1>1
  <2>2. \A i \in (n + 1)..m : i \in 1..m /\ i \notin 1..n
    BY <1>1
  <2>3. \A i \in 1..m : i \in 1..n \/ i \in (n + 1)..m
    BY <1>1
  <2> QED BY <1>5, <1>8, <1>9, <1>10, <2>1, <2>2, <2>3
<1> QED BY <1>2, <1>3, <1>6, <1>7, <1>11 DEF a, z, m

\* A pool with a new free queue and new reference counts.
LEMMA PoolExcept ==
    ASSUME NEW p \in Pool, NEW free, NEW cnt,
           NEW q, q = [p EXCEPT !.free = free, !.refCnt = cnt]
    PROVE  q = [free |-> free, refCnt |-> cnt, hash |-> p.hash, cached |-> p.cached,
                published |-> p.published]
  BY DEF Pool

\* q is p after n distinct blocks nobody references, blks, were taken off the
\* free list: each has one reference and no hash.
NewlyTaken(p, n, blks, q) ==
    /\ blks \in Seq(Block) /\ Len(blks) = n /\ IsInjective(blks)
    /\ \A b \in Range(blks) : b \in Block /\ p.refCnt[b] = 0
    /\ q.refCnt = [b \in Block |-> IF b \in Range(blks) THEN 1 ELSE p.refCnt[b]]
    /\ q.hash = [b \in Block |-> IF b \in Range(blks) THEN NoHash ELSE p.hash[b]]

\* get_new_blocks, called with at most as many blocks as are free, takes
\* distinct blocks nobody references and leaves them without a hash.
LEMMA GetNewBlocksOK ==
    ASSUME NEW p, PoolOK(p), NEW n \in 0..Len(p.free)
    PROVE  LET g == GetNewBlocks(p, n)
           IN  PoolOK(g.pool) /\ NewlyTaken(p, n, g.blocks, g.pool)
<1> DEFINE blks == SubSeq(p.free, 1, n)
           rest == SubSeq(p.free, n + 1, Len(p.free))
           new  == Range(blks)
           q    == Evict(p, new)
           cnt  == [b \in Block |-> IF b \in new THEN p.refCnt[b] + 1 ELSE p.refCnt[b]]
           out  == [q EXCEPT !.free = rest, !.refCnt = cnt]
<1>1. GetNewBlocks(p, n) = [blocks |-> blks, pool |-> out]
  BY DEF GetNewBlocks
<1>2. p \in Pool /\ QueueExact(p) /\ p.free \in Seq(Block)
  BY DEF PoolOK, Pool
<1>3. /\ blks \in Seq(Block) /\ rest \in Seq(Block) /\ Len(blks) = n
      /\ IsInjective(blks) /\ IsInjective(rest)
      /\ new \subseteq Range(p.free) /\ Range(rest) = Range(p.free) \ new
  <2>1. IsInjective(p.free)
    BY <1>2 DEF QueueExact
  <2> QED BY <1>2, <2>1, SplitInjective
<1> HIDE DEF blks, rest
<1>4. new \in SUBSET Block
  BY <1>3, RangeOfSeq
<1>5. \A b \in new : b \in Block /\ p.refCnt[b] = 0
  BY <1>2, <1>3, <1>4 DEF QueueExact
<1>6. /\ PoolOK(q) /\ q.free = p.free /\ q.refCnt = p.refCnt
      /\ q.hash = [b \in Block |-> IF b \in new THEN NoHash ELSE p.hash[b]]
  BY <1>4, EvictOK
<1>7. cnt = [b \in Block |-> IF b \in new THEN 1 ELSE p.refCnt[b]]
  BY <1>2, <1>5 DEF Pool
<1> HIDE DEF q, new, cnt
<1>8. q \in Pool /\ MapExact(q)
  BY <1>6 DEF PoolOK
<1>9. out = [free |-> rest, refCnt |-> cnt, hash |-> q.hash, cached |-> q.cached,
             published |-> q.published]
  BY <1>8, PoolExcept
<1> HIDE DEF out
<1>10. cnt \in [Block -> Nat]
  BY <1>2, <1>7 DEF Pool
<1>11. out \in Pool
  BY <1>3, <1>8, <1>9, <1>10 DEF Pool
<1>12. QueueExact(out)
  <2> SUFFICES ASSUME NEW b \in Block
               PROVE  b \in Range(rest) <=> cnt[b] = 0
    BY <1>3, <1>9 DEF QueueExact
  <2> QED BY <1>2, <1>3, <1>7 DEF QueueExact
<1>13. MapExact(out)
  BY <1>8, <1>9 DEF MapExact
<1>14. PoolOK(out)
  BY <1>11, <1>12, <1>13 DEF PoolOK
<1>15. out.free = rest /\ out.refCnt = cnt /\ out.hash = q.hash
  BY <1>9
<1>16. GetNewBlocks(p, n).blocks = blks /\ GetNewBlocks(p, n).pool = out
  BY <1>1
<1>17. NewlyTaken(p, n, blks, out)
  BY <1>3, <1>5, <1>6, <1>7, <1>15 DEF NewlyTaken, new
<1> QED BY <1>14, <1>16, <1>17

\* q is p, with one more reference to each block of blks that is not null.
Touched(p, blks, q) ==
    LET hit == Range(blks) \ {NullBlock}
    IN  /\ q.hash = p.hash
        /\ q.refCnt = [b \in Block |-> IF b \in hit THEN p.refCnt[b] + 1
                                                    ELSE p.refCnt[b]]
        /\ IsFiniteSet({b \in hit : p.refCnt[b] = 0})
        /\ Len(q.free) = Len(p.free) - Cardinality({b \in hit : p.refCnt[b] = 0})

\* touch: every hit block gains a reference and leaves the free queue.
LEMMA TouchOK ==
    ASSUME NEW p, PoolOK(p), NEW blks \in Seq(Block \cup {NullBlock})
    PROVE  PoolOK(Touch(p, blks)) /\ Touched(p, blks, Touch(p, blks))
<1> DEFINE hit  == Range(blks) \ {NullBlock}
           idle == {b \in hit : p.refCnt[b] = 0}
           cnt  == [b \in Block |-> IF b \in hit THEN p.refCnt[b] + 1 ELSE p.refCnt[b]]
           left == Without(p.free, idle)
           q    == [p EXCEPT !.free = left, !.refCnt = cnt]
<1>1. Touch(p, blks) = q
  BY DEF Touch
<1>2. p \in Pool /\ QueueExact(p) /\ MapExact(p) /\ p.free \in Seq(Block)
      /\ IsInjective(p.free)
  BY DEF PoolOK, Pool, QueueExact
<1>3. hit \in SUBSET Block
  BY RangeOfSeq
<1>4. Range(p.free) \cap idle = idle
  BY <1>2, <1>3 DEF QueueExact
<1> HIDE DEF hit
<1>5. /\ left \in Seq(Block) /\ IsInjective(left) /\ Range(left) = Range(p.free) \ idle
      /\ IsFiniteSet(Range(p.free) \cap idle)
      /\ Len(left) = Len(p.free) - Cardinality(Range(p.free) \cap idle)
  <2> HIDE DEF idle
  <2> QED BY <1>2, WithoutProperties, Zenon
<1>6. IsFiniteSet(idle) /\ Len(left) = Len(p.free) - Cardinality(idle)
  <2> HIDE DEF idle
  <2> QED BY <1>4, <1>5, Zenon
<1> HIDE DEF left, cnt
<1>7. q = [free |-> left, refCnt |-> cnt, hash |-> p.hash, cached |-> p.cached,
           published |-> p.published]
  BY <1>2, PoolExcept
<1> HIDE DEF q
<1>8. cnt \in [Block -> Nat]
  BY <1>2 DEF cnt, Pool
<1>9. q \in Pool
  BY <1>2, <1>5, <1>7, <1>8 DEF Pool
<1>10. QueueExact(q)
  <2> SUFFICES ASSUME NEW b \in Block
               PROVE  b \in Range(left) <=> cnt[b] = 0
    BY <1>5, <1>7 DEF QueueExact
  <2>1. p.refCnt[b] \in Nat
    BY <1>2 DEF Pool
  <2>2. b \in Range(p.free) <=> p.refCnt[b] = 0
    BY <1>2 DEF QueueExact
  <2> QED BY <1>5, <2>1, <2>2 DEF cnt
<1>11. MapExact(q)
  BY <1>2, <1>7 DEF MapExact
<1>12. PoolOK(q)
  BY <1>9, <1>10, <1>11 DEF PoolOK
<1>13. Touched(p, blks, q)
  BY <1>6, <1>7 DEF Touched, cnt, hit
<1> QED BY <1>1, <1>12, <1>13

\* Two sequences without duplicates and without a common element.
LEMMA ConcatInjective ==
    ASSUME NEW T, NEW s \in Seq(T), NEW t \in Seq(T),
           IsInjective(s), IsInjective(t), Range(s) \cap Range(t) = {}
    PROVE  /\ s \o t \in Seq(T)
           /\ IsInjective(s \o t)
           /\ Range(s \o t) = Range(s) \cup Range(t)
<1> DEFINE u == s \o t
<1>1. /\ Len(s) \in Nat /\ Len(t) \in Nat
      /\ DOMAIN s = 1..Len(s) /\ DOMAIN t = 1..Len(t)
  BY LenProperties
<1>2. /\ u \in Seq(T) /\ Len(u) = Len(s) + Len(t)
      /\ \A i \in 1..(Len(s) + Len(t)) :
            u[i] = IF i =< Len(s) THEN s[i] ELSE t[i - Len(s)]
  BY ConcatProperties
<1>3. DOMAIN u = 1..(Len(s) + Len(t))
  BY <1>2, LenProperties
<1>4. Range(u) = Range(s) \cup Range(t)
  BY RangeConcatenation
<1> HIDE DEF u
<1>5. \A i \in 1..Len(s), j \in 1..Len(t) : s[i] # t[j]
  BY <1>1 DEF Range
<1>6. \A i, j \in 1..Len(s) : s[i] = s[j] => i = j
  BY <1>1 DEF IsInjective
<1>7. \A i, j \in 1..Len(t) : t[i] = t[j] => i = j
  BY <1>1 DEF IsInjective
<1>8. ASSUME NEW i \in 1..(Len(s) + Len(t)), NEW j \in 1..(Len(s) + Len(t)), u[i] = u[j]
      PROVE  i = j
  <2>1. CASE i =< Len(s) /\ j =< Len(s)
    <3>1. i \in 1..Len(s) /\ j \in 1..Len(s) /\ s[i] = s[j]
      BY <1>1, <1>2, <1>8, <2>1
    <3> QED BY <1>6, <3>1
  <2>2. CASE i =< Len(s) /\ ~(j =< Len(s))
    <3>1. i \in 1..Len(s) /\ j - Len(s) \in 1..Len(t) /\ s[i] = t[j - Len(s)]
      BY <1>1, <1>2, <1>8, <2>2
    <3> QED BY <1>5, <3>1
  <2>3. CASE ~(i =< Len(s)) /\ j =< Len(s)
    <3>1. j \in 1..Len(s) /\ i - Len(s) \in 1..Len(t) /\ s[j] = t[i - Len(s)]
      BY <1>1, <1>2, <1>8, <2>3
    <3> QED BY <1>5, <3>1
  <2>4. CASE ~(i =< Len(s)) /\ ~(j =< Len(s))
    <3>1. /\ i - Len(s) \in 1..Len(t) /\ j - Len(s) \in 1..Len(t)
          /\ t[i - Len(s)] = t[j - Len(s)]
      BY <1>1, <1>2, <1>8, <2>4
    <3>2. i - Len(s) = j - Len(s)
      BY <1>7, <3>1
    <3> QED BY <1>1, <3>2
  <2> QED BY <2>1, <2>2, <2>3, <2>4
<1>9. IsInjective(u)
  BY <1>3, <1>8 DEF IsInjective
<1> QED BY <1>2, <1>4, <1>9 DEF u

\* A list of blocks in which only the null block occurs more than once.
NoRepeat(blks) ==
    \A i, j \in 1..Len(blks) : (blks[i] # NullBlock /\ blks[i] = blks[j]) => i = j

\* Filtering such a list for real blocks gives a list without duplicates.
LEMMA FilterBlocks ==
    ASSUME NEW blks \in Seq(Block \cup {NullBlock}), NoRepeat(blks),
           NEW S \in SUBSET (Range(blks) \ {NullBlock})
    PROVE  /\ Filter(blks, S) \in Seq(Block)
           /\ IsInjective(Filter(blks, S))
           /\ Range(Filter(blks, S)) = S
<1> DEFINE f == Filter(blks, S)
<1>1. f \in Seq(Block \cup {NullBlock}) /\ Range(f) = Range(blks) \cap S
  BY FilterProperties
<1>2. Range(blks) \cap S = S
  OBVIOUS
<1>3. \A i, j \in 1..Len(blks) : (blks[i] \in S /\ blks[i] = blks[j]) => i = j
  BY DEF NoRepeat
<1>4. IsInjective(f)
  BY <1>3, FilterInjective
<1> HIDE DEF f
<1>5. Range(blks) \in SUBSET (Block \cup {NullBlock})
  BY RangeOfSeq
<1>6. Range(f) \subseteq Block
  BY <1>1, <1>2, <1>5
<1>7. f \in Seq(Range(f))
  BY <1>1, SeqOfRange
<1>8. f \in Seq(Block)
  BY <1>6, <1>7, SeqMonotonic
<1> QED BY <1>1, <1>2, <1>4, <1>8 DEF f

\* free_blocks: every block of the list loses a reference, and the ones nobody
\* references any more enter the free queue.
LEMMA FreeBlocksOK ==
    ASSUME NEW p, PoolOK(p), NEW ordered \in Seq(Block \cup {NullBlock}),
           NoRepeat(ordered),
           \A b \in Range(ordered) \ {NullBlock} : p.refCnt[b] # 0
    PROVE  LET q == FreeBlocks(p, ordered)
               released == Range(ordered) \ {NullBlock}
           IN  /\ PoolOK(q)
               /\ q.hash = p.hash
               /\ q.refCnt = [b \in Block |-> IF b \in released THEN p.refCnt[b] - 1
                                                                ELSE p.refCnt[b]]
<1> DEFINE released == Range(ordered) \ {NullBlock}
           idle     == {b \in released : p.refCnt[b] = 1}
           hashed   == {b \in idle : p.hash[b] # NoHash}
           plain    == idle \ hashed
           front    == Filter(ordered, plain)
           back     == Filter(ordered, hashed)
           most     == front \o p.free
           free     == most \o back
           cnt      == [b \in Block |-> IF b \in released THEN p.refCnt[b] - 1
                                                          ELSE p.refCnt[b]]
           q        == [p EXCEPT !.free = free, !.refCnt = cnt]
<1>1. FreeBlocks(p, ordered) = q
  BY DEF FreeBlocks
<1>2. p \in Pool /\ QueueExact(p) /\ MapExact(p) /\ p.free \in Seq(Block)
      /\ IsInjective(p.free)
  BY DEF PoolOK, Pool, QueueExact
<1>3. released \in SUBSET Block
  BY RangeOfSeq
<1>4. /\ plain \in SUBSET (Range(ordered) \ {NullBlock})
      /\ hashed \in SUBSET (Range(ordered) \ {NullBlock})
  OBVIOUS
<1>5. /\ Range(p.free) \cap idle = {} /\ plain \cap hashed = {}
      /\ plain \cup hashed = idle
  BY <1>2, <1>3 DEF QueueExact
<1>6. cnt \in [Block -> Nat]
  BY <1>2 DEF Pool
<1>7. \A b \in Block : cnt[b] = 0 <=> p.refCnt[b] = 0 \/ b \in idle
  BY <1>2 DEF Pool
<1> HIDE DEF plain, hashed, idle, cnt
<1>8. /\ front \in Seq(Block) /\ IsInjective(front) /\ Range(front) = plain
      /\ back \in Seq(Block) /\ IsInjective(back) /\ Range(back) = hashed
  BY <1>4, FilterBlocks
<1> HIDE DEF front, back
<1>9. /\ most \in Seq(Block) /\ IsInjective(most)
      /\ Range(most) = plain \cup Range(p.free)
  <2>1. Range(front) \cap Range(p.free) = {}
    BY <1>5, <1>8
  <2> QED BY <1>2, <1>8, <2>1, ConcatInjective
<1> HIDE DEF most
<1>10. /\ free \in Seq(Block) /\ IsInjective(free)
       /\ Range(free) = (plain \cup Range(p.free)) \cup hashed
  <2>1. Range(most) \cap Range(back) = {}
    BY <1>5, <1>8, <1>9
  <2> QED BY <1>8, <1>9, <2>1, ConcatInjective
<1> HIDE DEF free
<1>11. q = [free |-> free, refCnt |-> cnt, hash |-> p.hash, cached |-> p.cached,
            published |-> p.published]
  BY <1>2, PoolExcept
<1> HIDE DEF q
<1>12. q \in Pool
  BY <1>2, <1>6, <1>10, <1>11 DEF Pool
<1>13. QueueExact(q)
  <2> SUFFICES ASSUME NEW b \in Block
               PROVE  b \in Range(free) <=> cnt[b] = 0
    BY <1>10, <1>11 DEF QueueExact
  <2>1. b \in Range(p.free) <=> p.refCnt[b] = 0
    BY <1>2 DEF QueueExact
  <2> QED BY <1>5, <1>7, <1>10, <2>1
<1>14. MapExact(q)
  BY <1>2, <1>11 DEF MapExact
<1> QED BY <1>1, <1>11, <1>12, <1>13, <1>14 DEF PoolOK, cnt

\* What cache_full_blocks asserts: blocks from+1..to exist and have no hash.
Hashable(p, m, hashes, blks, from, to) ==
    /\ m \in Nat /\ hashes \in [1..m -> Hash] /\ IsInjective(hashes)
    /\ blks \in Seq(Block \cup {NullBlock}) /\ NoRepeat(blks)
    /\ from \in Nat /\ to \in Nat /\ to =< m /\ to =< Len(blks)
    /\ \A i \in (from + 1)..to : blks[i] # NullBlock => p.hash[blks[i]] = NoHash

\* q is p, with its hash given to each block from+1..to of blks.
HashedAs(p, hashes, blks, from, to, q) ==
    LET new == {i \in (from + 1)..to : blks[i] # NullBlock}
    IN  /\ q.free = p.free /\ q.refCnt = p.refCnt
        /\ \A i \in new : q.hash[blks[i]] = hashes[i]
        /\ \A b \in Block : (~ \E i \in new : blks[i] = b) => q.hash[b] = p.hash[b]

\* cache_full_blocks, called with blocks that have no hash yet, gives block
\* from+1..to of the request its hash and leaves every other block alone.
LEMMA CacheFullBlocksOK ==
    ASSUME NEW p, PoolOK(p), NEW m, NEW hashes, NEW blks, NEW from, NEW to,
           Hashable(p, m, hashes, blks, from, to)
    PROVE  LET q == CacheFullBlocks(p, hashes, blks, from, to)
           IN  PoolOK(q) /\ HashedAs(p, hashes, blks, from, to, q)
<1> DEFINE new == {i \in (from + 1)..to : blks[i] # NullBlock}
           At(b) == CHOOSE i \in new : blks[i] = b
           Of(h) == CHOOSE i \in new : hashes[i] = h
           X == [b \in Block |-> IF \E i \in new : blks[i] = b THEN hashes[At(b)]
                                                               ELSE p.hash[b]]
           Y == [h \in Hash |-> IF \E i \in new : hashes[i] = h
                                THEN Append(p.cached[h], blks[Of(h)])
                                ELSE p.cached[h]]
           Z == [h \in Hash |-> IF \E i \in new : hashes[i] = h
                                THEN p.published[h] + 1 ELSE p.published[h]]
           q == CacheFullBlocks(p, hashes, blks, from, to)
<1>0. p \in Pool /\ QueueExact(p) /\ MapExact(p)
  BY DEF PoolOK
<1>1. q = [free |-> p.free, refCnt |-> p.refCnt, hash |-> X, cached |-> Y,
           published |-> Z]
  <2>1. q = [p EXCEPT !.hash = X, !.cached = Y, !.published = Z]
    BY DEF CacheFullBlocks
  <2> HIDE DEF q, X, Y, Z
  <2> QED BY <1>0, <2>1 DEF Pool
<1>2. \A i \in new : i \in 1..m /\ i \in 1..Len(blks) /\ blks[i] # NullBlock
  BY LenProperties DEF Hashable
<1>3. \A i \in new : blks[i] \in Block /\ p.hash[blks[i]] = NoHash
  <2> TAKE i \in new
  <2>1. blks[i] \in Block \cup {NullBlock}
    BY <1>2, ElementOfSeq DEF Hashable
  <2> QED BY <2>1 DEF Hashable
<1> HIDE DEF new, q
<1>4. \A i \in new : hashes[i] \in Hash /\ Of(hashes[i]) = i
  BY <1>2 DEF Hashable, IsInjective
<1>5. \A i \in new : At(blks[i]) = i
  BY <1>2 DEF Hashable, NoRepeat
<1> HIDE DEF At, Of
<1>6. /\ \A i \in new : X[blks[i]] = hashes[i]
      /\ \A b \in Block : (~ \E i \in new : blks[i] = b) => X[b] = p.hash[b]
  BY <1>3, <1>5
<1>7. ASSUME NEW h \in Hash
      PROVE  /\ Y[h] \in Seq(Block) /\ IsInjective(Y[h])
             /\ Z[h] \in Int /\ Z[h] = Len(Y[h])
             /\ \A b \in Block : b \in Range(Y[h]) <=> X[b] = h
  <2> HIDE DEF X
  <2> DEFINE c == p.cached[h]
  <2>1. /\ c \in Seq(Block) /\ IsInjective(c)
        /\ \A b \in Block : b \in Range(c) <=> p.hash[b] = h
    BY <1>0 DEF Pool, MapExact
  <2>2. p.published[h] = Len(c) /\ Len(c) \in Nat /\ DOMAIN c = 1..Len(c)
    BY <1>0, <2>1, LenProperties DEF MapExact
  <2>3. h # NoHash
    BY PoolAssumption
  <2> HIDE DEF c
  <2>4. CASE \E i \in new : hashes[i] = h
    <3>1. PICK i \in new : hashes[i] = h
      BY <2>4
    <3> DEFINE b0 == blks[i]
    <3>2. Y[h] = Append(c, b0) /\ Z[h] = p.published[h] + 1
      BY <1>4, <3>1 DEF c
    <3>3. b0 \in Block /\ b0 \notin Range(c) /\ X[b0] = h
      BY <1>3, <1>6, <2>1, <2>3, <3>1
    <3>4. \A b \in Block \ {b0} : X[b] = h <=> p.hash[b] = h
      <4> SUFFICES ASSUME NEW b \in Block, b # b0
                   PROVE  X[b] = h <=> p.hash[b] = h
        OBVIOUS
      <4>1. CASE \E j \in new : blks[j] = b
        <5>1. PICK j \in new : blks[j] = b
          BY <4>1
        <5>2. X[b] = hashes[j] /\ p.hash[b] = NoHash
          BY <1>3, <1>6, <5>1
        <5>3. hashes[j] # h
          BY <1>4, <3>1, <5>1
        <5> QED BY <2>3, <5>2, <5>3
      <4>2. CASE ~ \E j \in new : blks[j] = b
        BY <1>6, <4>2
      <4> QED BY <4>1, <4>2
    <3> HIDE DEF X, Y, Z, b0
    <3>5. /\ Append(c, b0) \in Seq(Block) /\ Len(Append(c, b0)) = Len(c) + 1
          /\ \A k \in 1..Len(c) : Append(c, b0)[k] = c[k]
          /\ Append(c, b0)[Len(c) + 1] = b0
      BY <2>1, <3>3, AppendProperties
    <3>6. /\ DOMAIN Append(c, b0) = 1..(Len(c) + 1)
          /\ 1..(Len(c) + 1) = 1..Len(c) \cup {Len(c) + 1}
      BY <2>2, <3>5, LenProperties
    <3>7. Range(Append(c, b0)) = Range(c) \cup {b0}
      <4> DEFINE a == Append(c, b0)
      <4> HIDE DEF a
      <4> QED BY <2>2, <3>5, <3>6 DEF Range, a
    <3>8. IsInjective(Append(c, b0))
      BY <2>1, <2>2, <3>3, <3>5, <3>6 DEF IsInjective, Range
    <3>9. Z[h] = Len(Y[h]) /\ Z[h] \in Int
      BY <2>2, <3>2, <3>5
    <3> QED BY <2>1, <3>2, <3>3, <3>4, <3>5, <3>7, <3>8, <3>9
  <2>5. CASE ~ \E i \in new : hashes[i] = h
    <3>1. Y[h] = c /\ Z[h] = Len(c)
      BY <2>2, <2>5 DEF c
    <3>2. \A b \in Block : X[b] = h <=> p.hash[b] = h
      BY <1>3, <1>6, <2>3, <2>5
    <3> HIDE DEF X, Y, Z
    <3> QED BY <2>1, <2>2, <3>1, <3>2
  <2> QED BY <2>4, <2>5
<1>8. X \in [Block -> Hash \cup {NoHash}]
  BY <1>0, <1>4, <1>5 DEF Pool
<1>9. Y \in [Hash -> Seq(Block)] /\ Z \in [Hash -> Int]
  BY <1>7
<1> HIDE DEF X, Y, Z
<1>10. q \in Pool
  BY <1>0, <1>1, <1>8, <1>9 DEF Pool
<1>11. QueueExact(q) /\ MapExact(q)
  BY <1>0, <1>1, <1>7 DEF QueueExact, MapExact
<1>12. PoolOK(q)
  BY <1>10, <1>11 DEF PoolOK
<1>13. HashedAs(p, hashes, blks, from, to, q)
  BY <1>1, <1>6 DEF HashedAs, new
<1> QED BY <1>12, <1>13 DEF q

\* reset_prefix_cache forgets every hash and nothing else.
LEMMA ResetPrefixCacheOK ==
    ASSUME NEW p, PoolOK(p)
    PROVE  LET q == ResetPrefixCache(p)
           IN  /\ PoolOK(q)
               /\ q.free = p.free /\ q.refCnt = p.refCnt
               /\ q.hash = [b \in Block |-> NoHash]
<1> DEFINE q == ResetPrefixCache(p)
           X == [b \in Block |-> NoHash]
           Y == [h \in Hash |-> <<>>]
           Z == [h \in Hash |-> 0]
<1>0. p \in Pool /\ QueueExact(p)
  BY DEF PoolOK
<1>1. q = [free |-> p.free, refCnt |-> p.refCnt, hash |-> X, cached |-> Y,
           published |-> Z]
  <2>1. q = [p EXCEPT !.hash = X, !.cached = Y, !.published = Z]
    BY DEF ResetPrefixCache
  <2> HIDE DEF q, X, Y, Z
  <2> QED BY <1>0, <2>1 DEF Pool
<1>2. q \in Pool
  BY <1>0, <1>1 DEF Pool
<1>3. QueueExact(q)
  BY <1>0, <1>1 DEF QueueExact
<1>4. MapExact(q)
  BY <1>1, PoolAssumption DEF MapExact, IsInjective, Range
<1> QED BY <1>1, <1>2, <1>3, <1>4 DEF PoolOK
=============================================================================
