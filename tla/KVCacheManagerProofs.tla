------------------------ MODULE KVCacheManagerProofs ------------------------
(***************************************************************************)
(* What the operations of the KV cache manager keep, for every pool size,  *)
(* block size, set of requests and kind of attention.  PrefixCacheProofs   *)
(* puts these lemmas together.                                             *)
(***************************************************************************)
EXTENDS KVCacheManager, BlockPoolProofs, NaturalsInduction, WellFoundedInduction

KV == [pool      : Pool,
       blocks    : [Request -> Seq(Block \cup {NullBlock})],
       numCached : [Request -> Nat \cup {Untracked}]]

Holders(k, b) == {r \in Request : b \in Range(k.blocks[r])}

\* BlocksMatchPrefix and TailIsPrivate, of position i of request r; owed[b] is
\* the number of references to b that no request holds.
PositionOK(k, owed, r, i) ==
    LET b == k.blocks[r][i]
    IN  b # NullBlock =>
           /\ k.pool.hash[b] \in {NoHash, BlockHash[r][i]}
           /\ i > k.numCached[r] => /\ k.pool.hash[b] = NoHash
                                    /\ Holders(k, b) = {r} /\ owed[b] = 0

RequestOK(k, owed, r) ==
    /\ NoRepeat(k.blocks[r])
    /\ Len(k.blocks[r]) =< MaxBlocks
    /\ k.numCached[r] =< Len(k.blocks[r])
    /\ k.blocks[r] = <<>> => k.numCached[r] = Untracked
    /\ \A i \in 1..Len(k.blocks[r]) : PositionOK(k, owed, r, i)

\* The reference counts of pool q are those of the lists of k and of owed.
CountsOK(k, q, owed) ==
    \A b \in Block : q.refCnt[b] = Cardinality(Holders(k, b)) + owed[b]

\* The inductive invariant of the manager.
KVOK(k, owed) ==
    /\ k \in KV
    /\ PoolOK(k.pool)
    /\ owed \in [Block -> Nat]
    /\ CountsOK(k, k.pool, owed)
    /\ \A r \in Request : RequestOK(k, owed, r)
-----------------------------------------------------------------------------
(* Arithmetic of blocks and tokens.                                        *)

\* Integer division, as the counts of full blocks and of skipped tokens use it.
LEMMA DivProperties ==
    ASSUME NEW a \in Nat, NEW c \in Nat, NEW b \in Nat \ {0}
    PROVE  /\ a \div b \in Nat
           /\ (a \div b) * b =< a
           /\ (a * b) \div b = a
           /\ a =< c => a \div b =< c \div b
  OBVIOUS

\* Blocks that cover more tokens are at least as many, and full blocks never
\* outnumber them.
LEMMA CdivProperties ==
    ASSUME NEW a \in Nat, NEW c \in Nat
    PROVE  /\ Cdiv(a, BlockSize) \in Nat
           /\ a =< c => Cdiv(a, BlockSize) =< Cdiv(c, BlockSize)
           /\ a \div BlockSize =< Cdiv(a, BlockSize)
           /\ Cdiv(0, BlockSize) = 0
           /\ Cdiv(a * BlockSize, BlockSize) = a
<1>1. BlockSize \in Nat \ {0}
  BY ManagerAssumption
<1>2. a + BlockSize - 1 \in Nat /\ c + BlockSize - 1 \in Nat
  BY <1>1
<1>3. Cdiv(a, BlockSize) \in Nat
  BY <1>1, <1>2 DEF Cdiv
<1>4. a =< c => Cdiv(a, BlockSize) =< Cdiv(c, BlockSize)
  BY <1>1, <1>2 DEF Cdiv
<1>5. a \div BlockSize =< Cdiv(a, BlockSize)
  BY <1>1, <1>2, DivProperties DEF Cdiv
<1>6. Cdiv(0, BlockSize) = 0
  BY <1>1 DEF Cdiv
<1>7. Cdiv(a * BlockSize, BlockSize) = a
  BY <1>1 DEF Cdiv
<1> QED BY <1>3, <1>4, <1>5, <1>6, <1>7

\* At most the computed tokens are skipped, hence at most the full blocks.
LEMMA SkippedBound ==
    ASSUME NEW n \in Nat
    PROVE  /\ NumSkippedTokens(n) \in Nat /\ NumSkippedTokens(n) =< n
           /\ NumSkippedBlocks(n) \in Nat /\ NumSkippedBlocks(n) =< n \div BlockSize
<1>1. BlockSize \in Nat \ {0} /\ AttnSize \in Nat \ {0}
      /\ AttnKind \in {"full", "sliding", "chunked"}
  BY ManagerAssumption
<1>2. NumSkippedTokens(n) \in Nat /\ NumSkippedTokens(n) =< n
  <2>1. CASE AttnKind = "full"
    BY <2>1 DEF NumSkippedTokens
  <2>2. CASE AttnKind = "sliding"
    BY <1>1, <2>2 DEF NumSkippedTokens, Max2
  <2>3. CASE AttnKind = "chunked"
    BY <1>1, <2>3, DivProperties DEF NumSkippedTokens
  <2> QED BY <1>1, <2>1, <2>2, <2>3
<1> QED BY <1>1, <1>2, DivProperties DEF NumSkippedBlocks

\* A request of max_model_len tokens fills MaxBlocks blocks.
LEMMA MaxBlocksNat == MaxBlocks \in Nat /\ MaxBlocks = Cdiv(MaxModelLen, BlockSize)
<1>1. MaxModelLen \in Nat
  BY ManagerAssumption
<1> QED BY <1>1, CdivProperties DEF MaxBlocks, Cdiv
-----------------------------------------------------------------------------
(* Replacing the blocks of one request.                                    *)

\* Only r starts or stops holding a block.
LEMMA HoldersUpdate ==
    ASSUME NEW k \in KV, NEW r \in Request, NEW B,
           NEW k2, k2.blocks = [k.blocks EXCEPT ![r] = B]
    PROVE  \A b : Holders(k2, b) = IF b \in Range(B) THEN Holders(k, b) \cup {r}
                                                     ELSE Holders(k, b) \ {r}
<1>1. k2.blocks[r] = B /\ \A s \in Request \ {r} : k2.blocks[s] = k.blocks[s]
  BY DEF KV
<1> QED BY <1>1 DEF Holders

\* The number of holders of b, before and after r has the list B.
HoldersMoved(k, r, B, b, k2) ==
    LET before == Cardinality(Holders(k, b))
        after  == Cardinality(Holders(k2, b))
        held   == b \in Range(k.blocks[r])
    IN  /\ before \in Nat
        /\ b \in Range(B) => after = IF held THEN before ELSE before + 1
        /\ b \notin Range(B) => after = IF held THEN before - 1 ELSE before

\* The number of holders follows.
LEMMA HoldersCount ==
    ASSUME NEW k \in KV, NEW r \in Request, NEW B, NEW b,
           NEW k2, k2.blocks = [k.blocks EXCEPT ![r] = B]
    PROVE  HoldersMoved(k, r, B, b, k2)
<1>1. IsFiniteSet(Request) /\ Holders(k, b) \in SUBSET Request
  BY ManagerAssumption DEF Holders
<1>2. IsFiniteSet(Holders(k, b)) /\ Cardinality(Holders(k, b)) \in Nat
  BY <1>1, FS_Subset, FS_CardinalityType
<1>3. Holders(k2, b) = IF b \in Range(B) THEN Holders(k, b) \cup {r}
                                         ELSE Holders(k, b) \ {r}
  BY HoldersUpdate
<1>4. r \in Holders(k, b) <=> b \in Range(k.blocks[r])
  BY DEF Holders
<1>5. CASE b \in Range(B)
  <2>1. Holders(k2, b) = Holders(k, b) \cup {r}
    BY <1>3, <1>5
  <2>2. Cardinality(Holders(k, b) \cup {r}) =
          IF r \in Holders(k, b) THEN Cardinality(Holders(k, b))
                                 ELSE Cardinality(Holders(k, b)) + 1
    BY <1>2, FS_AddElement
  <2> QED BY <1>2, <1>4, <1>5, <2>1, <2>2 DEF HoldersMoved
<1>6. CASE b \notin Range(B)
  <2>1. Holders(k2, b) = Holders(k, b) \ {r}
    BY <1>3, <1>6
  <2>2. Cardinality(Holders(k, b) \ {r}) =
          IF r \in Holders(k, b) THEN Cardinality(Holders(k, b)) - 1
                                 ELSE Cardinality(Holders(k, b))
    BY <1>2, FS_RemoveElement
  <2> QED BY <1>2, <1>4, <1>6, <2>1, <2>2 DEF HoldersMoved
<1> QED BY <1>5, <1>6

\* Blocks of the other requests keep their hash or lose it, and the new list B
\* of r takes no private block from them.
OthersKept(k, r, q, B) ==
    \A b \in Block : \A s \in Request \ {r} :
       b \in Range(k.blocks[s]) =>
          /\ q.hash[b] \in {NoHash, k.pool.hash[b]}
          /\ b \in Range(B) => k.pool.hash[b] # NoHash \/ b \in Range(k.blocks[r])

\* The new list B of r is in order, nc of its blocks being cached.
ListOK(k, r, q, owed, B, nc) ==
    /\ B \in Seq(Block \cup {NullBlock}) /\ nc \in Nat \cup {Untracked}
    /\ NoRepeat(B) /\ Len(B) =< MaxBlocks
    /\ nc =< Len(B)
    /\ B = <<>> => nc = Untracked
    /\ \A i \in 1..Len(B) : B[i] # NullBlock =>
          /\ q.hash[B[i]] \in {NoHash, BlockHash[r][i]}
          /\ i > nc => /\ q.hash[B[i]] = NoHash
                       /\ Holders(k, B[i]) \in SUBSET {r} /\ owed[B[i]] = 0

\* References move with the lists: a block gains one when it enters the list of
\* r or is owed, and loses one when it leaves or is no longer owed.
RefsMoved(k, r, q, B, owed, owed2) ==
    \A b \in Block :
       q.refCnt[b] = k.pool.refCnt[b] + owed2[b] - owed[b]
                        + (IF b \in Range(B) THEN 1 ELSE 0)
                        - (IF b \in Range(k.blocks[r]) THEN 1 ELSE 0)

\* k2 is k with pool q, and with B and nc for the blocks of r.
Replaced(k, r, q, B, nc, k2) ==
    k2 = [pool      |-> q,
          blocks    |-> [k.blocks EXCEPT ![r] = B],
          numCached |-> [k.numCached EXCEPT ![r] = nc]]

\* A reference owed afterwards was owed before, or was one of r's own.
OwedFrom(k, r, owed, owed2) ==
    \A b \in Block : owed2[b] # 0 => owed[b] # 0 \/ b \in Range(k.blocks[r])

\* Request r gives its blocks up for the list B, the pool becomes q and the
\* references without a holder become owed2: the invariant is kept.
LEMMA ReplaceBlocks ==
    ASSUME NEW k, NEW owed, KVOK(k, owed), NEW r \in Request,
           NEW q, PoolOK(q), NEW owed2 \in [Block -> Nat], NEW B, NEW nc,
           NEW k2, Replaced(k, r, q, B, nc, k2),
           RefsMoved(k, r, q, B, owed, owed2), OthersKept(k, r, q, B),
           ListOK(k, r, q, owed2, B, nc), OwedFrom(k, r, owed, owed2)
    PROVE  KVOK(k2, owed2)
<1>1. k \in KV /\ PoolOK(k.pool) /\ owed \in [Block -> Nat]
      /\ \A s \in Request : RequestOK(k, owed, s)
  BY DEF KVOK
<1>2. /\ k2.pool = q /\ k2.blocks = [k.blocks EXCEPT ![r] = B]
      /\ k2.numCached = [k.numCached EXCEPT ![r] = nc]
  BY DEF Replaced
<1>3. /\ k2.blocks[r] = B /\ k2.numCached[r] = nc
      /\ \A s \in Request \ {r} : /\ k2.blocks[s] = k.blocks[s]
                                  /\ k2.numCached[s] = k.numCached[s]
  BY <1>1, <1>2 DEF KV
<1>4. k2 \in KV
  <2>1. q \in Pool
    BY DEF PoolOK
  <2>2. k.blocks \in [Request -> Seq(Block \cup {NullBlock})]
        /\ k.numCached \in [Request -> Nat \cup {Untracked}]
    BY <1>1 DEF KV
  <2>3. B \in Seq(Block \cup {NullBlock}) /\ nc \in Nat \cup {Untracked}
    BY DEF ListOK
  <2> QED BY <2>1, <2>2, <2>3 DEF KV, Replaced
<1>5. \A b : Holders(k2, b) = IF b \in Range(B) THEN Holders(k, b) \cup {r}
                                                ELSE Holders(k, b) \ {r}
  <2>1. k \in KV /\ k2.blocks = [k.blocks EXCEPT ![r] = B]
    BY <1>1, <1>2
  <2> QED BY <2>1, HoldersUpdate
<1>6. RequestOK(k2, owed2, r)
  <2>1. /\ B \in Seq(Block \cup {NullBlock}) /\ NoRepeat(B) /\ Len(B) =< MaxBlocks
        /\ nc =< Len(B)
        /\ B = <<>> => nc = Untracked
    BY DEF ListOK
  <2>2. ASSUME NEW i \in 1..Len(B)
        PROVE  PositionOK(k2, owed2, r, i)
    <3> SUFFICES ASSUME B[i] # NullBlock
                 PROVE  /\ q.hash[B[i]] \in {NoHash, BlockHash[r][i]}
                        /\ i > nc => /\ q.hash[B[i]] = NoHash
                                     /\ Holders(k2, B[i]) = {r} /\ owed2[B[i]] = 0
      BY <1>2, <1>3 DEF PositionOK
    <3>1. B[i] \in Range(B)
      BY <2>1, LenProperties DEF Range
    <3>2. Holders(k2, B[i]) = Holders(k, B[i]) \cup {r}
      BY <1>5, <3>1
    <3> QED BY <3>2 DEF ListOK
  <2>3. k2.blocks[r] = B /\ k2.numCached[r] = nc
    BY <1>3
  <2>4. \A i \in 1..Len(k2.blocks[r]) : PositionOK(k2, owed2, r, i)
    BY <2>2, <2>3
  <2> QED BY <2>1, <2>3, <2>4 DEF RequestOK
<1>7. ASSUME NEW s \in Request \ {r}
      PROVE  RequestOK(k2, owed2, s)
  <2>1. RequestOK(k, owed, s) /\ k2.blocks[s] = k.blocks[s]
        /\ k2.numCached[s] = k.numCached[s]
    BY <1>1, <1>3
  <2>2. ASSUME NEW i \in 1..Len(k.blocks[s]) PROVE PositionOK(k2, owed2, s, i)
    <3> DEFINE b == k.blocks[s][i]
    <3> SUFFICES ASSUME b # NullBlock
                 PROVE  /\ q.hash[b] \in {NoHash, BlockHash[s][i]}
                        /\ i > k.numCached[s] => /\ q.hash[b] = NoHash
                                                 /\ Holders(k2, b) = {s}
                                                 /\ owed2[b] = 0
      BY <1>2, <2>1 DEF PositionOK
    <3>1. /\ k.pool.hash[b] \in {NoHash, BlockHash[s][i]}
          /\ i > k.numCached[s] => /\ k.pool.hash[b] = NoHash
                                   /\ Holders(k, b) = {s} /\ owed[b] = 0
      BY <2>1 DEF RequestOK, PositionOK
    <3>2. k.blocks[s] \in Seq(Block \cup {NullBlock})
      BY <1>1 DEF KV
    <3>3. b \in Block /\ b \in Range(k.blocks[s])
      <4>1. b \in Block \cup {NullBlock}
        BY <3>2, ElementOfSeq
      <4>2. b \in Range(k.blocks[s])
        BY <3>2, LenProperties DEF Range
      <4> QED BY <4>1, <4>2
    <3> HIDE DEF b
    <3>4. q.hash[b] \in {NoHash, k.pool.hash[b]}
      BY <3>3 DEF OthersKept
    <3>5. ASSUME i > k.numCached[s]
          PROVE  Holders(k2, b) = {s} /\ owed2[b] = 0
      <4>1. b \notin Range(k.blocks[r])
        BY <3>1, <3>5 DEF Holders
      <4>2. b \notin Range(B)
        BY <3>1, <3>3, <3>5, <4>1 DEF OthersKept
      <4>3. Holders(k2, b) = Holders(k, b) \ {r}
        BY <1>5, <4>2
      <4>4. owed2[b] = 0
        BY <3>1, <3>3, <3>5, <4>1 DEF OwedFrom
      <4> QED BY <3>1, <3>5, <4>3, <4>4
    <3> QED BY <3>1, <3>4, <3>5
  <2> QED BY <2>1, <2>2 DEF RequestOK
<1>8. CountsOK(k2, k2.pool, owed2)
  <2> SUFFICES ASSUME NEW b \in Block
               PROVE  q.refCnt[b] = Cardinality(Holders(k2, b)) + owed2[b]
    BY <1>2 DEF CountsOK
  <2>1. k.pool.refCnt[b] = Cardinality(Holders(k, b)) + owed[b]
        /\ owed[b] \in Nat /\ owed2[b] \in Nat
    BY <1>1 DEF KVOK, CountsOK
  <2>2. q.refCnt[b] = k.pool.refCnt[b] + owed2[b] - owed[b]
                        + (IF b \in Range(B) THEN 1 ELSE 0)
                        - (IF b \in Range(k.blocks[r]) THEN 1 ELSE 0)
    BY DEF RefsMoved
  <2>3. HoldersMoved(k, r, B, b, k2)
    <3>1. k \in KV /\ k2.blocks = [k.blocks EXCEPT ![r] = B]
      BY <1>1, <1>2
    <3> QED BY <3>1, HoldersCount
  <2> QED BY <2>1, <2>2, <2>3 DEF HoldersMoved
<1> QED BY <1>2, <1>4, <1>6, <1>7, <1>8 DEF KVOK

-----------------------------------------------------------------------------
(* The operations, one by one.                                             *)

\* A set of naturals that is not empty has a least element.
LEMMA LeastElement ==
    ASSUME NEW S \in SUBSET Nat, S # {}
    PROVE  \E m \in S : \A x \in S : m =< x
<1>1. PICK m \in S : \A x \in S : ~(<<x, m>> \in OpToRel(<, Nat))
  BY NatLessThanWellFounded, WFMin
<1>2. \A x \in S : x \in Nat
  OBVIOUS
<1>3. \A x, y \in Nat : x < y => <<x, y>> \in OpToRel(<, Nat)
  BY DEF OpToRel
<1>4. \A x \in S : ~(x < m)
  BY <1>1, <1>2, <1>3, Zenon
<1> QED BY <1>2, <1>4

\* What the invariant says of the list of one request.
LEMMA ListFacts ==
    ASSUME NEW k, NEW owed, KVOK(k, owed), NEW r \in Request
    PROVE  LET blks == k.blocks[r]
           IN  /\ blks \in Seq(Block \cup {NullBlock}) /\ Len(blks) \in Nat
               /\ DOMAIN blks = 1..Len(blks) /\ NoRepeat(blks)
               /\ Range(blks) \in SUBSET (Block \cup {NullBlock})
               /\ \A i \in 1..Len(blks) : blks[i] \in Range(blks)
               /\ \A b \in Range(blks) : \E i \in 1..Len(blks) : blks[i] = b
               /\ \A b \in Range(blks) \ {NullBlock} :
                     b \in Block /\ k.pool.refCnt[b] # 0
<1> DEFINE blks == k.blocks[r]
<1>1. k \in KV /\ CountsOK(k, k.pool, owed) /\ owed \in [Block -> Nat]
      /\ RequestOK(k, owed, r)
  BY DEF KVOK
<1>2. blks \in Seq(Block \cup {NullBlock}) /\ NoRepeat(blks)
  BY <1>1 DEF KV, RequestOK
<1>3. Len(blks) \in Nat /\ DOMAIN blks = 1..Len(blks)
      /\ Range(blks) \in SUBSET (Block \cup {NullBlock})
  BY <1>2, LenProperties, RangeOfSeq
<1>4. \A i \in 1..Len(blks) : blks[i] \in Range(blks)
  BY <1>3 DEF Range
<1>5. \A b \in Range(blks) : \E i \in 1..Len(blks) : blks[i] = b
  BY <1>3 DEF Range
<1>6. ASSUME NEW b \in Range(blks) \ {NullBlock}
      PROVE  b \in Block /\ k.pool.refCnt[b] # 0
  <2>1. b \in Block /\ r \in Holders(k, b)
    BY <1>3 DEF Holders
  <2>2. IsFiniteSet(Request) /\ Holders(k, b) \in SUBSET Request
    BY ManagerAssumption DEF Holders
  <2>3. IsFiniteSet(Holders(k, b)) /\ Cardinality(Holders(k, b)) \in Nat
    BY <2>2, FS_Subset, FS_CardinalityType
  <2>4. Cardinality(Holders(k, b)) # 0
    BY <2>1, <2>3, FS_EmptySet
  <2>5. owed[b] \in Nat
    BY <1>1, <2>1
  <2> QED BY <1>1, <2>1, <2>3, <2>4, <2>5 DEF CountsOK
<1> QED BY <1>2, <1>3, <1>4, <1>5, <1>6

\* k2 is k with fewer blocks of r, in a list as long as before.
Trimmed(k, r, owed, k2) ==
    /\ KVOK(k2, owed)
    /\ Len(k2.blocks[r]) = Len(k.blocks[r])
    /\ k2.numCached = k.numCached
    /\ k.blocks[r] = <<>> => k2 = k

\* remove_skipped_blocks keeps the invariant and the length of the list.
LEMMA RemoveSkippedBlocksOK ==
    ASSUME NEW k, NEW owed, KVOK(k, owed), NEW r \in Request, NEW computed \in Nat
    PROVE  Trimmed(k, r, owed, RemoveSkippedBlocks(k, r, computed))
<1> DEFINE blks == k.blocks[r]
           m    == Min2(NumSkippedBlocks(computed), Len(blks))
           real == {i \in 1..m : \A j \in i..m : blks[j] # NullBlock}
           n    == Cardinality(real)
           out  == [i \in 1..n |-> blks[m + 1 - i]]
           B    == [i \in DOMAIN blks |-> IF i \in real THEN NullBlock ELSE blks[i]]
           q    == FreeBlocks(k.pool, out)
           k2   == RemoveSkippedBlocks(k, r, computed)
<1>1. k2 = IF real = {} THEN k ELSE [k EXCEPT !.pool = q, !.blocks[r] = B]
  BY DEF RemoveSkippedBlocks
<1>2. CASE real = {}
  BY <1>1, <1>2 DEF Trimmed
<1>3. CASE real # {}
  <2>1. /\ k \in KV /\ PoolOK(k.pool) /\ owed \in [Block -> Nat]
        /\ CountsOK(k, k.pool, owed) /\ RequestOK(k, owed, r)
    BY DEF KVOK
  <2>2. /\ blks \in Seq(Block \cup {NullBlock}) /\ Len(blks) \in Nat
        /\ DOMAIN blks = 1..Len(blks) /\ NoRepeat(blks)
        /\ Range(blks) \in SUBSET (Block \cup {NullBlock})
        /\ \A i \in 1..Len(blks) : blks[i] \in Range(blks)
        /\ \A b \in Range(blks) : \E i \in 1..Len(blks) : blks[i] = b
        /\ \A b \in Range(blks) \ {NullBlock} : b \in Block /\ k.pool.refCnt[b] # 0
    BY ListFacts
  <2>3. m \in Nat /\ m =< Len(blks)
    <3>1. NumSkippedBlocks(computed) \in Nat
      BY SkippedBound
    <3>2. Len(blks) \in Nat
      BY <2>2
    <3> HIDE DEF blks
    <3> QED BY <3>1, <3>2 DEF Min2
  <2> HIDE DEF blks, m
  <2>4. /\ real \in SUBSET (1..m)
        /\ \A i \in 1..m : i \in real <=> \A j \in i..m : blks[j] # NullBlock
    OBVIOUS
  <2>5. \A i \in real : i \in 1..Len(blks) /\ blks[i] # NullBlock
    BY <2>3
  <2>6. real # {}
    BY <1>3
  <2> HIDE DEF real
  <2>7. PICK lo \in real : \A x \in real : lo =< x
    <3>1. real \in SUBSET Nat
      BY <2>4
    <3> QED BY <2>6, <3>1, LeastElement
  <2>8. lo \in 1..m /\ real = lo..m /\ n = m - lo + 1
    <3>1. lo \in 1..m /\ \A j \in lo..m : blks[j] # NullBlock
      BY <2>4, <2>7
    <3>2. ASSUME NEW x \in lo..m PROVE x \in real
      <4>1. x \in 1..m /\ \A j \in x..m : j \in lo..m
        BY <2>3, <3>1
      <4> QED BY <2>4, <3>1, <4>1
    <3>3. ASSUME NEW x \in real PROVE x \in lo..m
      BY <2>3, <2>4, <2>7, <3>1
    <3>4. real = lo..m
      BY <3>2, <3>3
    <3>5. Cardinality(lo..m) = m - lo + 1
      BY <2>3, <3>1, FS_Interval
    <3> QED BY <3>1, <3>4, <3>5
  <2> HIDE DEF n
  <2>9. n \in Nat /\ \A i \in 1..n : m + 1 - i \in real
    BY <2>3, <2>8
  <2>10. \A i \in real : m + 1 - i \in 1..n /\ m + 1 - (m + 1 - i) = i
    BY <2>3, <2>8
  <2>11. out \in Seq(Block \cup {NullBlock}) /\ Len(out) = n
    <3>1. \A i \in 1..n : blks[m + 1 - i] \in Block \cup {NullBlock}
      BY <2>2, <2>5, <2>9
    <3> QED BY <2>9, <3>1
  <2>12. \A b : b \in Range(out) <=> \E i \in real : blks[i] = b
    <3>1. \A i \in 1..n : out[i] = blks[m + 1 - i]
      OBVIOUS
    <3>2. DOMAIN out = 1..n
      OBVIOUS
    <3> HIDE DEF out
    <3>3. ASSUME NEW b \in Range(out) PROVE \E i \in real : blks[i] = b
      <4>1. PICK i \in 1..n : out[i] = b
        BY <3>2 DEF Range
      <4> QED BY <2>9, <3>1, <4>1
    <3>4. ASSUME NEW i \in real PROVE blks[i] \in Range(out)
      <4>1. out[m + 1 - i] = blks[i]
        BY <2>10, <3>1
      <4> QED BY <2>10, <3>2, <4>1 DEF Range
    <3> QED BY <3>3, <3>4
  <2>13. NoRepeat(out)
    <3> SUFFICES ASSUME NEW i \in 1..n, NEW j \in 1..n, blks[m + 1 - i] = blks[m + 1 - j]
                 PROVE  i = j
      BY <2>11 DEF NoRepeat
    <3>1. m + 1 - i = m + 1 - j
      BY <2>2, <2>5, <2>9 DEF NoRepeat
    <3> QED BY <2>3, <3>1
  <2>14. \A b \in Range(out) : b # NullBlock /\ b \in Range(blks)
    BY <2>2, <2>5, <2>12
  <2> HIDE DEF out
  <2>15. /\ PoolOK(q) /\ q.hash = k.pool.hash
         /\ q.refCnt = [b \in Block |-> IF b \in Range(out) \ {NullBlock}
                                        THEN k.pool.refCnt[b] - 1 ELSE k.pool.refCnt[b]]
    <3>1. \A b \in Range(out) \ {NullBlock} : k.pool.refCnt[b] # 0
      BY <2>2, <2>14
    <3> QED BY <2>1, <2>11, <2>13, <3>1, FreeBlocksOK
  <2>16. /\ B \in Seq(Block \cup {NullBlock}) /\ Len(B) = Len(blks)
         /\ \A i \in 1..Len(blks) : B[i] = IF i \in real THEN NullBlock ELSE blks[i]
    BY <2>2
  <2>17. DOMAIN B = 1..Len(blks)
    BY <2>2
  <2> HIDE DEF B, q
  <2>18. \A b \in Block : b \in Range(B) <=> b \in Range(blks) /\ b \notin Range(out)
    <3> SUFFICES ASSUME NEW b \in Block
                 PROVE  b \in Range(B) <=> b \in Range(blks) /\ b \notin Range(out)
      OBVIOUS
    <3>1. b # NullBlock
      BY PoolAssumption DEF Block, NullBlock
    <3>2. ASSUME b \in Range(B) PROVE b \in Range(blks) /\ b \notin Range(out)
      <4>1. PICK i \in 1..Len(blks) : B[i] = b
        BY <2>17, <3>2 DEF Range
      <4>2. i \notin real /\ blks[i] = b
        BY <2>16, <3>1, <4>1
      <4>3. \A j \in real : blks[j] # b
        BY <2>2, <2>5, <3>1, <4>2 DEF NoRepeat
      <4> QED BY <2>2, <2>12, <4>2, <4>3
    <3>3. ASSUME b \in Range(blks), b \notin Range(out) PROVE b \in Range(B)
      <4>1. PICK i \in 1..Len(blks) : blks[i] = b
        BY <2>2, <3>3
      <4>2. i \notin real
        BY <2>12, <3>3, <4>1
      <4> QED BY <2>16, <2>17, <4>1, <4>2 DEF Range
    <3> QED BY <3>2, <3>3
  <2>19. Replaced(k, r, q, B, k.numCached[r], k2)
    <3>1. k2 = [k EXCEPT !.pool = q, !.blocks[r] = B]
      BY <1>1, <1>3 DEF q, B, real, out, n
    <3> HIDE DEF k2
    <3> QED BY <2>1, <3>1 DEF Replaced, KV
  <2> HIDE DEF k2
  <2>20. RefsMoved(k, r, q, B, owed, owed)
    <3> SUFFICES ASSUME NEW b \in Block
                 PROVE  q.refCnt[b] = k.pool.refCnt[b] + owed[b] - owed[b]
                                        + (IF b \in Range(B) THEN 1 ELSE 0)
                                        - (IF b \in Range(blks) THEN 1 ELSE 0)
      BY DEF RefsMoved, blks
    <3>0. b # NullBlock
      BY PoolAssumption DEF Block, NullBlock
    <3>1. k.pool.refCnt[b] \in Nat /\ owed[b] \in Nat
      BY <2>1 DEF PoolOK, Pool
    <3> QED BY <2>14, <2>15, <2>18, <3>0, <3>1
  <2>21. OthersKept(k, r, q, B)
    BY <2>15, <2>18 DEF OthersKept, blks
  <2>22. ListOK(k, r, q, owed, B, k.numCached[r])
    <3>1. /\ k.numCached[r] \in Nat \cup {Untracked}
          /\ Len(blks) =< MaxBlocks /\ k.numCached[r] =< Len(blks)
      BY <2>1 DEF KV, RequestOK, blks
    <3>2. NoRepeat(B)
      BY <2>2, <2>16 DEF NoRepeat
    <3>3. B # <<>>
      BY <2>3, <2>8, <2>16
    <3>4. \A i \in 1..Len(B) : B[i] # NullBlock =>
             /\ q.hash[B[i]] \in {NoHash, BlockHash[r][i]}
             /\ i > k.numCached[r] => /\ q.hash[B[i]] = NoHash
                                      /\ Holders(k, B[i]) \in SUBSET {r}
                                      /\ owed[B[i]] = 0
      <4> SUFFICES ASSUME NEW i \in 1..Len(blks), B[i] # NullBlock
                   PROVE  /\ q.hash[B[i]] \in {NoHash, BlockHash[r][i]}
                          /\ i > k.numCached[r] => /\ q.hash[B[i]] = NoHash
                                                   /\ Holders(k, B[i]) \in SUBSET {r}
                                                   /\ owed[B[i]] = 0
        BY <2>16
      <4>1. B[i] = blks[i] /\ PositionOK(k, owed, r, i)
        BY <2>1, <2>16 DEF RequestOK, blks
      <4> QED BY <2>15, <4>1 DEF PositionOK, blks
    <3> QED BY <2>16, <3>1, <3>2, <3>3, <3>4 DEF ListOK
  <2>23. KVOK(k2, owed)
    <3>1. PoolOK(q) /\ OwedFrom(k, r, owed, owed) /\ owed \in [Block -> Nat]
      BY <2>1, <2>15 DEF OwedFrom
    <3> QED BY <3>1, <2>19, <2>20, <2>21, <2>22, ReplaceBlocks
  <2>24. k2.blocks[r] = B /\ k2.numCached = k.numCached
    BY <2>1, <2>19 DEF Replaced, KV
  <2>25. Trimmed(k, r, owed, k2)
    BY <2>3, <2>8, <2>16, <2>23, <2>24 DEF blks, Trimmed
  <2> QED BY <2>25 DEF k2
<1> QED BY <1>2, <1>3

\* A hit for request r: null blocks, or blocks that carry the hash r has there.
HitOK(k, r, hits) ==
    /\ hits \in Seq(Block \cup {NullBlock})
    /\ Len(hits) =< MaxBlocks
    /\ \A i \in 1..Len(hits) :
          hits[i] # NullBlock => k.pool.hash[hits[i]] = BlockHash[r][i]

\* k2 is k with hits for the blocks of r, of which `inside' were touched.
Extended(k, r, owed, hits, inside, k2) ==
    /\ KVOK(k2, owed)
    /\ Len(k2.blocks[r]) = Len(hits)
    /\ NumEvictable(k.pool, inside) \in Nat
    /\ Len(k2.pool.free) >= Len(k.pool.free) - NumEvictable(k.pool, inside)

\* add_local_computed_blocks, for a request without blocks, keeps the invariant
\* and takes no more blocks from the free queue than get_num_blocks_to_allocate
\* counted as evictable.
LEMMA AddLocalComputedBlocksOK ==
    ASSUME NEW k, NEW owed, KVOK(k, owed), NEW r \in Request, k.blocks[r] = <<>>,
           NEW hits, HitOK(k, r, hits), hits # <<>>,
           NEW computed \in Nat, NumSkippedBlocks(computed) =< Len(hits)
    PROVE  Extended(k, r, owed, hits,
                    SubSeq(hits, NumSkippedBlocks(computed) + 1, Len(hits)),
                    AddLocalComputedBlocks(k, r, hits, computed))
<1> DEFINE skipped == NumSkippedBlocks(computed)
           n       == Len(hits)
           nulls   == [i \in 1..skipped |-> NullBlock]
           inside  == SubSeq(hits, skipped + 1, n)
           B       == nulls \o inside
           q       == Touch(k.pool, inside)
           k2      == AddLocalComputedBlocks(k, r, hits, computed)
           T       == Block \cup {NullBlock}
<1>0. /\ k \in KV /\ PoolOK(k.pool) /\ owed \in [Block -> Nat]
  BY DEF KVOK
<1>1. /\ hits \in Seq(T) /\ n =< MaxBlocks
      /\ \A i \in 1..n : hits[i] # NullBlock => k.pool.hash[hits[i]] = BlockHash[r][i]
  BY DEF HitOK
<1>2. n \in Nat \ {0} /\ (\A i \in 1..n : hits[i] \in T) /\ skipped \in Nat
  BY <1>1, EmptySeq, ElementOfSeq, SkippedBound
<1>3. k2 = [k EXCEPT !.pool = q, !.blocks[r] = B, !.numCached[r] = Len(B)]
  BY DEF AddLocalComputedBlocks
<1> HIDE DEF skipped, n, k2, T
<1>4. nulls \in Seq(T) /\ Len(nulls) = skipped
      /\ \A i \in 1..skipped : nulls[i] = NullBlock
  BY <1>2 DEF T
<1>5. /\ inside \in Seq(T) /\ Len(inside) = n - skipped
      /\ \A i \in 1..(n - skipped) : inside[i] = hits[skipped + i]
  <2>0. skipped =< n
    BY DEF skipped, n
  <2>1. \A i \in (skipped + 1)..n : hits[i] \in T
    BY <1>2
  <2>2. /\ inside \in Seq(T)
        /\ Len(inside) = IF skipped + 1 =< n THEN n - (skipped + 1) + 1 ELSE 0
        /\ \A i \in 1..(n - (skipped + 1) + 1) : inside[i] = hits[(skipped + 1) + i - 1]
    BY <1>2, <2>1, SubSeqProperties
  <2> HIDE DEF inside
  <2> QED BY <1>2, <2>0, <2>2
<1> HIDE DEF nulls, inside
<1>6. /\ B \in Seq(T) /\ Len(B) = n
      /\ \A i \in 1..n : B[i] = IF i =< skipped THEN NullBlock ELSE hits[i]
  <2>0. skipped =< n
    BY DEF skipped, n
  <2>1. /\ B \in Seq(T) /\ Len(B) = skipped + (n - skipped)
        /\ \A i \in 1..(skipped + (n - skipped)) :
              B[i] = IF i =< skipped THEN nulls[i] ELSE inside[i - skipped]
    <3>1. nulls \in Seq(T) /\ inside \in Seq(T)
      BY <1>4, <1>5
    <3>2. /\ nulls \o inside \in Seq(T)
          /\ Len(nulls \o inside) = Len(nulls) + Len(inside)
          /\ \A i \in 1..(Len(nulls) + Len(inside)) :
                (nulls \o inside)[i] = IF i =< Len(nulls) THEN nulls[i]
                                       ELSE inside[i - Len(nulls)]
      BY <3>1, ConcatProperties
    <3> QED BY <1>4, <1>5, <3>2
  <2> HIDE DEF B
  <2>2. ASSUME NEW i \in 1..n
        PROVE  B[i] = IF i =< skipped THEN NullBlock ELSE hits[i]
    <3>1. CASE i =< skipped
      BY <1>2, <1>4, <2>0, <2>1, <3>1
    <3>2. CASE ~(i =< skipped)
      <4>1. i - skipped \in 1..(n - skipped) /\ skipped + (i - skipped) = i
        BY <1>2, <2>0, <3>2
      <4>2. B[i] = inside[i - skipped]
        BY <1>2, <2>0, <2>1, <3>2
      <4> QED BY <1>5, <3>2, <4>1, <4>2
    <3> QED BY <3>1, <3>2
  <2> QED BY <1>2, <2>0, <2>1, <2>2
<1>7. DOMAIN B = 1..n /\ DOMAIN inside = 1..(n - skipped)
  BY <1>5, <1>6, LenProperties
<1> HIDE DEF B
<1>8. \A b \in Block : b \in Range(B) <=> b \in Range(inside)
  <2> SUFFICES ASSUME NEW b \in Block PROVE b \in Range(B) <=> b \in Range(inside)
    OBVIOUS
  <2>0. b # NullBlock /\ skipped =< n
    BY PoolAssumption DEF Block, NullBlock, skipped, n
  <2>1. ASSUME b \in Range(B) PROVE b \in Range(inside)
    <3>1. PICK i \in 1..n : B[i] = b
      BY <1>7, <2>1 DEF Range
    <3>2. ~(i =< skipped) /\ hits[i] = b
      BY <1>6, <2>0, <3>1
    <3>3. i - skipped \in 1..(n - skipped) /\ skipped + (i - skipped) = i
      BY <1>2, <2>0, <3>2
    <3>4. inside[i - skipped] = b
      BY <1>5, <3>2, <3>3
    <3> QED BY <1>7, <3>3, <3>4 DEF Range
  <2>2. ASSUME b \in Range(inside) PROVE b \in Range(B)
    <3>1. PICK i \in 1..(n - skipped) : inside[i] = b
      BY <1>7, <2>2 DEF Range
    <3>2. skipped + i \in 1..n /\ ~(skipped + i =< skipped)
      BY <1>2, <2>0
    <3>3. B[skipped + i] = b
      BY <1>5, <1>6, <3>1, <3>2
    <3> QED BY <1>7, <3>2, <3>3 DEF Range
  <2> QED BY <2>1, <2>2
<1> DEFINE idle == {b \in Range(inside) \ {NullBlock} : k.pool.refCnt[b] = 0}
<1>9. /\ PoolOK(q) /\ q.hash = k.pool.hash
      /\ q.refCnt = [b \in Block |-> IF b \in Range(inside) \ {NullBlock}
                                     THEN k.pool.refCnt[b] + 1 ELSE k.pool.refCnt[b]]
      /\ IsFiniteSet(idle) /\ Len(q.free) = Len(k.pool.free) - Cardinality(idle)
  <2>1. inside \in Seq(Block \cup {NullBlock})
    BY <1>5 DEF T
  <2>2. PoolOK(q) /\ Touched(k.pool, inside, q)
    BY <1>0, <2>1, TouchOK
  <2> HIDE DEF q
  <2> QED BY <2>2, Zenon DEF Touched
<1> HIDE DEF q
<1>10. Replaced(k, r, q, B, n, k2)
  BY <1>0, <1>3, <1>6 DEF Replaced, KV
<1>11. BlockHash \in [Request -> [1..MaxBlocks -> Hash]]
       /\ \A i, j \in 1..MaxBlocks : BlockHash[r][i] = BlockHash[r][j] => i = j
  BY HashAssumption
<1>12. \A i \in 1..n : i \in 1..MaxBlocks /\ BlockHash[r][i] \in Hash
  BY <1>1, <1>2, <1>11, MaxBlocksNat
<1>13. NoRepeat(B)
  <2> SUFFICES ASSUME NEW i \in 1..n, NEW j \in 1..n, B[i] # NullBlock, B[i] = B[j]
               PROVE  i = j
    BY <1>6 DEF NoRepeat
  <2>1. B[i] = hits[i] /\ B[j] = hits[j]
    BY <1>6
  <2>2. BlockHash[r][i] = BlockHash[r][j]
    BY <1>1, <2>1
  <2> QED BY <1>11, <1>12, <2>2
<1>14. RefsMoved(k, r, q, B, owed, owed)
  <2> SUFFICES ASSUME NEW b \in Block
               PROVE  q.refCnt[b] = k.pool.refCnt[b] + owed[b] - owed[b]
                                      + (IF b \in Range(B) THEN 1 ELSE 0)
                                      - (IF b \in Range(k.blocks[r]) THEN 1 ELSE 0)
    BY DEF RefsMoved
  <2>1. b # NullBlock /\ b \notin Range(k.blocks[r])
    BY PoolAssumption DEF Block, NullBlock, Range
  <2>2. k.pool.refCnt[b] \in Nat /\ owed[b] \in Nat
    BY <1>0 DEF PoolOK, Pool
  <2> QED BY <1>8, <1>9, <2>1, <2>2
<1>15. \A b \in Range(B) \ {NullBlock} : k.pool.hash[b] # NoHash
  <2> SUFFICES ASSUME NEW i \in 1..n, B[i] # NullBlock
               PROVE  k.pool.hash[B[i]] # NoHash
    BY <1>7 DEF Range
  <2> QED BY <1>1, <1>6, <1>12, PoolAssumption
<1>16. OthersKept(k, r, q, B)
  <2>1. \A b \in Block : b # NullBlock
    BY PoolAssumption DEF Block, NullBlock
  <2> QED BY <1>9, <1>15, <2>1 DEF OthersKept
<1>17. ListOK(k, r, q, owed, B, n)
  <2>1. \A i \in 1..n : B[i] # NullBlock => q.hash[B[i]] = BlockHash[r][i]
    BY <1>1, <1>6, <1>9
  <2>2. B # <<>> /\ \A i \in 1..n : ~(i > n)
    BY <1>2, <1>6
  <2> QED BY <1>1, <1>2, <1>6, <1>13, <2>1, <2>2 DEF ListOK, T
<1>18. KVOK(k2, owed)
  <2>1. PoolOK(q) /\ OwedFrom(k, r, owed, owed) /\ owed \in [Block -> Nat]
    BY <1>0, <1>9 DEF OwedFrom
  <2> QED BY <2>1, <1>10, <1>14, <1>16, <1>17, ReplaceBlocks
<1>19. k2.blocks[r] = B /\ k2.pool = q
  BY <1>0, <1>10 DEF Replaced, KV
<1>20. Cardinality(idle) \in Nat /\ NumEvictable(k.pool, inside) \in Nat
       /\ Cardinality(idle) =< NumEvictable(k.pool, inside)
  <2> DEFINE I == {i \in 1..(n - skipped) : /\ inside[i] # NullBlock
                                            /\ k.pool.refCnt[inside[i]] = 0}
             f == [i \in I |-> inside[i]]
  <2>0. n - skipped \in Nat
    BY <1>2 DEF skipped, n
  <2>1. NumEvictable(k.pool, inside) = Cardinality(I)
    BY <1>7 DEF NumEvictable
  <2>2. IsFiniteSet(I) /\ Cardinality(I) \in Nat
    BY <2>0, PositionsFinite
  <2>3. f \in Surjection(I, idle)
    <3>1. \A i \in I : inside[i] \in idle
      BY <1>7 DEF Range
    <3>2. \A b \in idle : \E i \in I : inside[i] = b
      BY <1>7 DEF Range
    <3> HIDE DEF I, idle
    <3> QED BY <3>1, <3>2 DEF Surjection
  <2> HIDE DEF I, idle, f
  <2>4. Cardinality(idle) =< Cardinality(I)
    BY <2>2, <2>3, FS_Surjection
  <2>5. Cardinality(idle) \in Nat
    BY <1>9, FS_CardinalityType
  <2> QED BY <2>1, <2>2, <2>4, <2>5
<1>21. Len(k.pool.free) \in Nat
  BY <1>0, LenProperties DEF PoolOK, Pool
<1> HIDE DEF idle
<1>22. Len(k2.pool.free) >= Len(k.pool.free) - NumEvictable(k.pool, inside)
  BY <1>9, <1>19, <1>20, <1>21
<1>23. Extended(k, r, owed, hits, inside, k2)
  BY <1>6, <1>18, <1>19, <1>20, <1>22 DEF Extended, n
<1> QED BY <1>23 DEF k2, inside, skipped, n

\* Nobody holds, and nobody owes, a block without references.
LEMMA FreshUnheld ==
    ASSUME NEW k, NEW owed, KVOK(k, owed), NEW b \in Block, k.pool.refCnt[b] = 0
    PROVE  Holders(k, b) = {} /\ owed[b] = 0
<1>1. k.pool.refCnt[b] = Cardinality(Holders(k, b)) + owed[b] /\ owed[b] \in Nat
  BY DEF KVOK, CountsOK
<1>2. IsFiniteSet(Request) /\ Holders(k, b) \in SUBSET Request
  BY ManagerAssumption DEF Holders
<1>3. IsFiniteSet(Holders(k, b)) /\ Cardinality(Holders(k, b)) \in Nat
  BY <1>2, FS_Subset, FS_CardinalityType
<1>4. Cardinality(Holders(k, b)) = 0 /\ owed[b] = 0
  BY <1>1, <1>3
<1> QED BY <1>3, <1>4, FS_EmptySet

\* allocate_new_blocks keeps the invariant when the pool has the blocks, and
\* leaves the request with as many blocks as are required.
LEMMA AllocateNewBlocksOK ==
    ASSUME NEW k, NEW owed, KVOK(k, owed), NEW r \in Request,
           NEW required \in Nat, required =< MaxBlocks,
           required - Len(k.blocks[r]) =< Len(k.pool.free)
    PROVE  LET k2 == AllocateNewBlocks(k, r, required)
           IN  /\ KVOK(k2, owed)
               /\ Len(k2.blocks[r]) = Max2(required, Len(k.blocks[r]))
<1> DEFINE blks == k.blocks[r]
           m    == Len(blks)
           n    == required - m
           g    == GetNewBlocks(k.pool, n)
           new  == g.blocks
           q    == g.pool
           B    == blks \o new
           nc   == k.numCached[r]
           k2   == AllocateNewBlocks(k, r, required)
           T    == Block \cup {NullBlock}
<1>0. /\ k \in KV /\ PoolOK(k.pool) /\ owed \in [Block -> Nat] /\ RequestOK(k, owed, r)
  BY DEF KVOK
<1>1. /\ blks \in Seq(T) /\ m \in Nat /\ DOMAIN blks = 1..m /\ NoRepeat(blks)
      /\ \A i \in 1..m : blks[i] \in Range(blks)
      /\ \A b \in Range(blks) : \E i \in 1..m : blks[i] = b
      /\ \A b \in Range(blks) \ {NullBlock} : b \in Block /\ k.pool.refCnt[b] # 0
  BY ListFacts
<1>2. k2 = IF n =< 0 THEN k ELSE [k EXCEPT !.pool = q, !.blocks[r] = B]
  BY DEF AllocateNewBlocks
<1> HIDE DEF k2
<1>3. CASE n =< 0
  <2>1. k2 = k /\ Max2(required, m) = m
    <3> HIDE DEF m
    <3> QED BY <1>1, <1>2, <1>3 DEF Max2
  <2> QED BY <2>1 DEF k2
<1>4. CASE ~(n =< 0)
  <2>1. Len(k.pool.free) \in Nat /\ n \in 0..Len(k.pool.free) /\ n + m = required
    <3>1. Len(k.pool.free) \in Nat
      BY <1>0, LenProperties DEF PoolOK, Pool
    <3>2. required - m =< Len(k.pool.free) /\ m \in Nat
      BY <1>1
    <3> HIDE DEF m
    <3> QED BY <1>4, <3>1, <3>2
  <2> HIDE DEF n
  <2>2. /\ PoolOK(q) /\ new \in Seq(Block) /\ Len(new) = n /\ IsInjective(new)
        /\ \A b \in Range(new) : b \in Block /\ k.pool.refCnt[b] = 0
        /\ q.refCnt = [b \in Block |-> IF b \in Range(new) THEN 1 ELSE k.pool.refCnt[b]]
        /\ q.hash = [b \in Block |-> IF b \in Range(new) THEN NoHash ELSE k.pool.hash[b]]
    <3>1. PoolOK(q) /\ NewlyTaken(k.pool, n, new, q)
      BY <1>0, <2>1, GetNewBlocksOK
    <3> HIDE DEF q, new
    <3> QED BY <3>1 DEF NewlyTaken
  <2>3. k2 = [k EXCEPT !.pool = q, !.blocks[r] = B]
    BY <1>2, <1>4 DEF n
  <2> HIDE DEF g, new, q, blks, m, T
  <2>4. DOMAIN new = 1..n
    BY <2>2, LenProperties
  <2>5. \A i \in 1..n : new[i] \in Block /\ new[i] \in Range(new) /\ new[i] # NullBlock
                        /\ k.pool.refCnt[new[i]] = 0 /\ q.hash[new[i]] = NoHash
                        /\ Holders(k, new[i]) = {} /\ owed[new[i]] = 0
    <3> SUFFICES ASSUME NEW i \in 1..n
                 PROVE  /\ new[i] \in Block /\ new[i] \in Range(new)
                        /\ new[i] # NullBlock
                        /\ k.pool.refCnt[new[i]] = 0 /\ q.hash[new[i]] = NoHash
                        /\ Holders(k, new[i]) = {} /\ owed[new[i]] = 0
      OBVIOUS
    <3>1. new[i] \in Range(new)
      BY <2>4 DEF Range
    <3>2. new[i] \in Block /\ k.pool.refCnt[new[i]] = 0 /\ q.hash[new[i]] = NoHash
      BY <2>2, <3>1
    <3>3. new[i] # NullBlock
      BY <3>2, PoolAssumption DEF Block, NullBlock
    <3>4. Holders(k, new[i]) = {} /\ owed[new[i]] = 0
      BY <3>2, FreshUnheld
    <3> QED BY <3>1, <3>2, <3>3, <3>4
  <2>6. \A i \in 1..m : blks[i] \notin Range(new)
    <3> SUFFICES ASSUME NEW i \in 1..m, blks[i] \in Range(new) PROVE FALSE
      OBVIOUS
    <3>1. PICK j \in 1..n : new[j] = blks[i]
      BY <2>4 DEF Range
    <3> QED BY <1>1, <2>5, <3>1
  <2>7. /\ B \in Seq(T) /\ Len(B) = m + n
        /\ \A i \in 1..(m + n) : B[i] = IF i =< m THEN blks[i] ELSE new[i - m]
    <3>1. blks \in Seq(T) /\ new \in Seq(T)
      BY <1>1, <2>2, <2>4, <2>5 DEF T
    <3>2. /\ blks \o new \in Seq(T)
          /\ Len(blks \o new) = Len(blks) + Len(new)
          /\ \A i \in 1..(Len(blks) + Len(new)) :
                (blks \o new)[i] = IF i =< Len(blks) THEN blks[i]
                                   ELSE new[i - Len(blks)]
      BY <3>1, ConcatProperties
    <3> QED BY <2>2, <3>2 DEF m
  <2>8. DOMAIN B = 1..(m + n)
    BY <2>7, LenProperties
  <2> HIDE DEF B
  <2>9. n \in Nat /\ \A i \in 1..(m + n) : ~(i =< m) => i - m \in 1..n
    BY <1>1, <2>1
  <2>10. \A b : b \in Range(B) <=> b \in Range(blks) \/ b \in Range(new)
    <3>1. ASSUME NEW b \in Range(B) PROVE b \in Range(blks) \/ b \in Range(new)
      <4>1. PICK i \in 1..(m + n) : B[i] = b
        BY <2>8 DEF Range
      <4>2. CASE i =< m
        <5>1. i \in 1..m
          BY <1>1, <2>9, <4>2
        <5> QED BY <1>1, <2>7, <4>1, <4>2, <5>1
      <4>3. CASE ~(i =< m)
        BY <2>5, <2>7, <2>9, <4>1, <4>3
      <4> QED BY <4>2, <4>3
    <3>2. ASSUME NEW b \in Range(blks) PROVE b \in Range(B)
      <4>1. PICK i \in 1..m : blks[i] = b
        BY <1>1
      <4>2. i \in 1..(m + n) /\ B[i] = b
        BY <1>1, <2>7, <2>9, <4>1
      <4> QED BY <2>8, <4>2 DEF Range
    <3>3. ASSUME NEW b \in Range(new) PROVE b \in Range(B)
      <4>1. PICK i \in 1..n : new[i] = b
        BY <2>4 DEF Range
      <4>2. i + m \in 1..(m + n) /\ ~(i + m =< m) /\ (i + m) - m = i
        BY <1>1, <2>9
      <4>3. B[i + m] = b
        BY <2>7, <4>1, <4>2
      <4> QED BY <2>8, <4>2, <4>3 DEF Range
    <3> QED BY <3>1, <3>2, <3>3
  <2>11. NoRepeat(B)
    <3> SUFFICES ASSUME NEW i \in 1..(m + n), NEW j \in 1..(m + n),
                        B[i] # NullBlock, B[i] = B[j]
                 PROVE  i = j
      BY <2>7 DEF NoRepeat
    <3>0. m \in Nat /\ n \in Nat
      BY <1>1, <2>9
    <3>1. CASE i =< m /\ j =< m
      <4>1. i \in 1..m /\ j \in 1..m /\ B[i] = blks[i] /\ B[j] = blks[j]
        BY <2>7, <3>0, <3>1
      <4> QED BY <1>1, <4>1 DEF NoRepeat, m
    <3>2. CASE ~(i =< m) /\ ~(j =< m)
      <4>1. i - m \in 1..n /\ j - m \in 1..n /\ new[i - m] = new[j - m]
        BY <2>7, <2>9, <3>2
      <4>2. i - m = j - m
        BY <2>2, <2>4, <4>1 DEF IsInjective
      <4> QED BY <3>0, <4>2
    <3>3. CASE i =< m /\ ~(j =< m)
      <4>1. i \in 1..m /\ j - m \in 1..n /\ blks[i] = new[j - m]
        BY <2>7, <2>9, <3>0, <3>3
      <4> QED BY <2>5, <2>6, <4>1
    <3>4. CASE ~(i =< m) /\ j =< m
      <4>1. j \in 1..m /\ i - m \in 1..n /\ blks[j] = new[i - m]
        BY <2>7, <2>9, <3>0, <3>4
      <4> QED BY <2>5, <2>6, <4>1
    <3> QED BY <3>1, <3>2, <3>3, <3>4
  <2>12. Replaced(k, r, q, B, nc, k2)
    <3>1. k.numCached \in [Request -> Nat \cup {Untracked}]
      BY <1>0 DEF KV
    <3>2. [k.numCached EXCEPT ![r] = nc] = k.numCached
      BY <3>1
    <3> HIDE DEF nc
    <3> QED BY <1>0, <2>3, <3>2 DEF Replaced, KV
  <2>13. RefsMoved(k, r, q, B, owed, owed)
    <3> SUFFICES ASSUME NEW b \in Block
                 PROVE  q.refCnt[b] = k.pool.refCnt[b] + owed[b] - owed[b]
                                        + (IF b \in Range(B) THEN 1 ELSE 0)
                                        - (IF b \in Range(k.blocks[r]) THEN 1 ELSE 0)
      BY DEF RefsMoved
    <3>1. b # NullBlock
      BY PoolAssumption DEF Block, NullBlock
    <3>2. k.pool.refCnt[b] \in Nat /\ owed[b] \in Nat
      BY <1>0 DEF PoolOK, Pool
    <3>3. CASE b \in Range(new)
      <4>1. k.pool.refCnt[b] = 0 /\ b \notin Range(blks)
        BY <1>1, <2>2, <3>1, <3>3
      <4>2. q.refCnt[b] = 1 /\ b \in Range(B)
        BY <2>2, <2>10, <3>3
      <4> QED BY <3>2, <4>1, <4>2 DEF blks
    <3>4. CASE b \notin Range(new)
      <4>1. q.refCnt[b] = k.pool.refCnt[b] /\ (b \in Range(B) <=> b \in Range(blks))
        BY <2>2, <2>10, <3>4
      <4> QED BY <3>2, <4>1 DEF blks
    <3> QED BY <3>3, <3>4
  <2>14. OthersKept(k, r, q, B)
    <3> SUFFICES ASSUME NEW b \in Block, NEW s \in Request \ {r},
                        b \in Range(k.blocks[s])
                 PROVE  /\ q.hash[b] \in {NoHash, k.pool.hash[b]}
                        /\ b \in Range(B) => \/ k.pool.hash[b] # NoHash
                                             \/ b \in Range(k.blocks[r])
      BY DEF OthersKept
    <3>1. b \notin Range(new)
      <4>1. s \in Holders(k, b)
        BY DEF Holders
      <4> QED BY <2>2, <4>1, FreshUnheld
    <3> QED BY <2>2, <2>10, <3>1 DEF blks
  <2>15. ListOK(k, r, q, owed, B, nc)
    <3>1. /\ nc \in Nat \cup {Untracked} /\ nc =< m
          /\ \A i \in 1..m : PositionOK(k, owed, r, i)
      BY <1>0 DEF RequestOK, KV, m, blks
    <3> HIDE DEF nc
    <3>2. Len(B) =< MaxBlocks /\ nc =< Len(B) /\ Len(B) # 0
      <4>1. Untracked \in Int /\ m \in Nat /\ n \in Nat /\ nc \in Int /\ n # 0
        BY <1>1, <1>4, <2>9, <3>1 DEF Untracked, n
      <4>2. m + n =< MaxBlocks
        BY <2>1, <4>1, MaxBlocksNat
      <4> QED BY <2>7, <3>1, <4>1, <4>2
    <3>3. B # <<>>
      BY <2>7, <3>2, EmptySeq
    <3>4. ASSUME NEW i \in 1..(m + n), B[i] # NullBlock
          PROVE  /\ q.hash[B[i]] \in {NoHash, BlockHash[r][i]}
                 /\ i > nc => /\ q.hash[B[i]] = NoHash
                              /\ Holders(k, B[i]) \in SUBSET {r} /\ owed[B[i]] = 0
      <4>1. CASE i =< m
        <5>1. i \in 1..m /\ B[i] = blks[i] /\ blks[i] \notin Range(new)
          BY <1>1, <2>6, <2>7, <2>9, <4>1
        <5>2. blks[i] \in Block
          BY <1>1, <3>4, <5>1
        <5>3. q.hash[B[i]] = k.pool.hash[blks[i]]
          BY <2>2, <5>1, <5>2
        <5>4. /\ k.pool.hash[blks[i]] \in {NoHash, BlockHash[r][i]}
              /\ i > nc => /\ k.pool.hash[blks[i]] = NoHash
                           /\ Holders(k, blks[i]) = {r} /\ owed[blks[i]] = 0
          BY <3>1, <3>4, <5>1 DEF PositionOK, blks, nc
        <5> QED BY <5>1, <5>3, <5>4
      <4>2. CASE ~(i =< m)
        <5>1. i - m \in 1..n /\ B[i] = new[i - m]
          BY <2>7, <2>9, <4>2
        <5>2. /\ q.hash[new[i - m]] = NoHash /\ Holders(k, new[i - m]) = {}
              /\ owed[new[i - m]] = 0
          BY <2>5, <5>1
        <5> QED BY <5>1, <5>2
      <4> QED BY <4>1, <4>2
    <3> QED BY <2>7, <2>11, <3>1, <3>2, <3>3, <3>4 DEF ListOK, T
  <2>16. KVOK(k2, owed)
    <3>1. PoolOK(q) /\ OwedFrom(k, r, owed, owed) /\ owed \in [Block -> Nat]
      BY <1>0, <2>2 DEF OwedFrom
    <3> QED BY <3>1, <2>12, <2>13, <2>14, <2>15, ReplaceBlocks
  <2>17. k2.blocks[r] = B
    BY <1>0, <2>12 DEF Replaced, KV
  <2>18. Len(B) = Max2(required, m)
    BY <1>1, <2>1, <2>7, <2>9 DEF Max2
  <2> QED BY <2>16, <2>17, <2>18 DEF k2, m, blks
<1> QED BY <1>3, <1>4

\* cache_blocks keeps the invariant when the request has the blocks to cache:
\* the blocks it hashes have no hash yet, and no other request holds them.
LEMMA CacheBlocksOK ==
    ASSUME NEW k, NEW owed, KVOK(k, owed), NEW r \in Request,
           NEW tokens \in Nat, tokens \div BlockSize =< Len(k.blocks[r])
    PROVE  LET k2 == CacheBlocks(k, r, tokens)
           IN  KVOK(k2, owed) /\ k2.blocks = k.blocks
<1> DEFINE blks == k.blocks[r]
           m    == Len(blks)
           nc   == k.numCached[r]
           from == Max2(nc, 0)
           to   == tokens \div BlockSize
           q    == CacheFullBlocks(k.pool, BlockHash[r], blks, from, to)
           k2   == CacheBlocks(k, r, tokens)
           new  == {i \in (from + 1)..to : blks[i] # NullBlock}
<1>0. /\ k \in KV /\ PoolOK(k.pool) /\ owed \in [Block -> Nat] /\ RequestOK(k, owed, r)
  BY DEF KVOK
<1>1. /\ blks \in Seq(Block \cup {NullBlock}) /\ m \in Nat
      /\ DOMAIN blks = 1..m /\ NoRepeat(blks)
      /\ Range(blks) \in SUBSET (Block \cup {NullBlock})
      /\ \A i \in 1..m : blks[i] \in Range(blks)
      /\ \A b \in Range(blks) : \E i \in 1..m : blks[i] = b
      /\ \A b \in Range(blks) \ {NullBlock} : b \in Block /\ k.pool.refCnt[b] # 0
  BY ListFacts
<1>2. k2 = IF from >= to THEN k ELSE [k EXCEPT !.pool = q, !.numCached[r] = to]
  BY DEF CacheBlocks
<1>3. CASE from >= to
  BY <1>2, <1>3
<1>4. CASE ~(from >= to)
  <2>1. to \in Nat /\ to =< m
    BY ManagerAssumption, DivProperties
  <2>2. /\ nc \in Nat \cup {Untracked} /\ nc =< m /\ m =< MaxBlocks
        /\ \A i \in 1..m : PositionOK(k, owed, r, i)
    BY <1>0 DEF RequestOK, KV
  <2>3. k2 = [k EXCEPT !.pool = q, !.numCached[r] = to]
    BY <1>2, <1>4
  <2>4. \A i \in 1..m : blks[i] # NullBlock =>
           /\ k.pool.hash[blks[i]] \in {NoHash, BlockHash[r][i]}
           /\ i > nc => /\ k.pool.hash[blks[i]] = NoHash
                        /\ Holders(k, blks[i]) = {r} /\ owed[blks[i]] = 0
    BY <2>2 DEF PositionOK
  <2> HIDE DEF blks, m, nc, to, k2
  <2>5. from \in Nat /\ nc \in Int /\ nc =< from /\ from < to
    BY <1>4, <2>1, <2>2 DEF Untracked, Max2
  <2> HIDE DEF from
  <2>6. \A i \in (from + 1)..to : i \in 1..m /\ i > nc
    BY <1>1, <2>1, <2>5
  <2>7. MaxBlocks \in Nat /\ to =< MaxBlocks
    BY <1>1, <2>1, <2>2, MaxBlocksNat
  <2>8. BlockHash[r] \in [1..MaxBlocks -> Hash] /\ IsInjective(BlockHash[r])
    <3>1. BlockHash[r] \in [1..MaxBlocks -> Hash]
      BY HashAssumption
    <3>2. \A i, j \in 1..MaxBlocks : BlockHash[r][i] = BlockHash[r][j] => i = j
      BY HashAssumption
    <3> QED BY <3>1, <3>2 DEF IsInjective
  <2>9. PoolOK(q) /\ HashedAs(k.pool, BlockHash[r], blks, from, to, q)
    <3>1. \A i \in (from + 1)..to : blks[i] # NullBlock => k.pool.hash[blks[i]] = NoHash
      BY <2>4, <2>6
    <3>2. to =< Len(blks)
      BY <2>1 DEF m
    <3>3. Hashable(k.pool, MaxBlocks, BlockHash[r], blks, from, to)
      BY <1>1, <2>1, <2>5, <2>7, <2>8, <3>1, <3>2 DEF Hashable
    <3> QED BY <1>0, <3>3, CacheFullBlocksOK
  <2>9a. /\ q.refCnt = k.pool.refCnt
         /\ \A i \in new : q.hash[blks[i]] = BlockHash[r][i]
         /\ \A b \in Block : (~ \E i \in new : blks[i] = b) => q.hash[b] = k.pool.hash[b]
    <3> HIDE DEF q
    <3> QED BY <2>9 DEF HashedAs
  <2>10. \A i \in new : i \in (from + 1)..to /\ i \in 1..m /\ blks[i] # NullBlock
                        /\ Holders(k, blks[i]) = {r}
    BY <2>4, <2>6
  <2> HIDE DEF q
  <2>11. Replaced(k, r, q, blks, to, k2)
    <3>1. [k.blocks EXCEPT ![r] = blks] = k.blocks
      BY <1>0 DEF KV, blks
    <3> QED BY <1>0, <2>3, <3>1 DEF Replaced, KV
  <2>12. RefsMoved(k, r, q, blks, owed, owed)
    <3> SUFFICES ASSUME NEW b \in Block
                 PROVE  q.refCnt[b] = k.pool.refCnt[b] + owed[b] - owed[b]
                                        + (IF b \in Range(blks) THEN 1 ELSE 0)
                                        - (IF b \in Range(k.blocks[r]) THEN 1 ELSE 0)
      BY DEF RefsMoved
    <3>1. k.pool.refCnt[b] \in Nat /\ owed[b] \in Nat
      BY <1>0 DEF PoolOK, Pool
    <3> QED BY <2>9a, <3>1 DEF blks
  <2>13. OthersKept(k, r, q, blks)
    <3> SUFFICES ASSUME NEW b \in Block, NEW s \in Request \ {r},
                        b \in Range(k.blocks[s])
                 PROVE  q.hash[b] = k.pool.hash[b]
      BY DEF OthersKept, blks
    <3>1. s \in Holders(k, b)
      BY DEF Holders
    <3>2. ~ \E i \in new : blks[i] = b
      BY <2>10, <3>1
    <3> QED BY <2>9a, <3>2
  <2>14. ASSUME NEW i \in 1..m, blks[i] # NullBlock
         PROVE  /\ q.hash[blks[i]] \in {NoHash, BlockHash[r][i]}
                /\ i > to => /\ q.hash[blks[i]] = NoHash
                             /\ Holders(k, blks[i]) \in SUBSET {r}
                             /\ owed[blks[i]] = 0
    <3>1. CASE i \in (from + 1)..to
      <4>1. i \in new /\ ~(i > to)
        BY <2>1, <2>5, <2>14, <3>1
      <4> QED BY <2>9a, <4>1
    <3>2. CASE i \notin (from + 1)..to
      <4>1. \A j \in new : blks[j] # blks[i]
        <5>1. \A j \in new : blks[j] = blks[i] => j = i
          BY <1>1, <2>10 DEF NoRepeat, m
        <5> QED BY <2>10, <3>2, <5>1
      <4>2. q.hash[blks[i]] = k.pool.hash[blks[i]]
        BY <1>1, <2>9a, <2>14, <4>1
      <4>3. i > to => i > nc
        BY <1>1, <2>1, <2>5
      <4> QED BY <2>4, <2>14, <4>2, <4>3
    <3> QED BY <3>1, <3>2
  <2>15. ListOK(k, r, q, owed, blks, to)
    <3>1. blks # <<>>
      <4>1. Len(blks) # 0
        BY <1>1, <2>1, <2>5 DEF m
      <4> QED BY <1>1, <4>1, EmptySeq
    <3> QED BY <1>1, <2>1, <2>2, <2>14, <3>1 DEF ListOK, m
  <2>16. KVOK(k2, owed)
    <3>1. PoolOK(q) /\ OwedFrom(k, r, owed, owed) /\ owed \in [Block -> Nat]
      BY <1>0, <2>9 DEF OwedFrom
    <3> QED BY <3>1, <2>11, <2>12, <2>13, <2>15, ReplaceBlocks
  <2>17. k2.blocks = k.blocks
    <3>1. [k.blocks EXCEPT ![r] = blks] = k.blocks
      BY <1>0 DEF KV, blks
    <3> QED BY <2>11, <3>1 DEF Replaced
  <2> QED BY <2>16, <2>17 DEF k2
<1> QED BY <1>3, <1>4

\* The list a request frees is its list of blocks in another order.
LEMMA TailFirstOK ==
    ASSUME NEW blks \in Seq(Block \cup {NullBlock}), NoRepeat(blks)
    PROVE  /\ TailFirst(blks) \in Seq(Block \cup {NullBlock})
           /\ NoRepeat(TailFirst(blks))
           /\ Range(TailFirst(blks)) = Range(blks)
<1> DEFINE n == Len(blks)
           s == TailFirst(blks)
           T == Block \cup {NullBlock}
<1>1. n \in Nat /\ DOMAIN blks = 1..n /\ \A i \in 1..n : blks[i] \in T
  BY LenProperties, ElementOfSeq
<1>2. s = [i \in 1..n |-> blks[n + 1 - i]]
  BY <1>1 DEF TailFirst
<1> HIDE DEF s, n, T
<1>3. \A i \in 1..n : n + 1 - i \in 1..n /\ n + 1 - (n + 1 - i) = i
  BY <1>1
<1>4. s \in Seq(T) /\ Len(s) = n /\ DOMAIN s = 1..n
      /\ \A i \in 1..n : s[i] = blks[n + 1 - i]
  BY <1>1, <1>2, <1>3
<1>5. NoRepeat(s)
  <2> SUFFICES ASSUME NEW i \in 1..n, NEW j \in 1..n, s[i] # NullBlock, s[i] = s[j]
               PROVE  i = j
    BY <1>4 DEF NoRepeat
  <2>1. n + 1 - i = n + 1 - j
    BY <1>3, <1>4 DEF NoRepeat, n
  <2> QED BY <1>1, <2>1
<1>6. \A b : b \in Range(s) <=> b \in Range(blks)
  <2>1. ASSUME NEW b \in Range(s) PROVE b \in Range(blks)
    <3>1. PICK i \in 1..n : s[i] = b
      BY <1>4 DEF Range
    <3> QED BY <1>1, <1>3, <1>4, <3>1 DEF Range
  <2>2. ASSUME NEW b \in Range(blks) PROVE b \in Range(s)
    <3>1. PICK i \in 1..n : blks[i] = b
      BY <1>1 DEF Range
    <3>2. n + 1 - i \in 1..n /\ s[n + 1 - i] = b
      BY <1>3, <1>4, <3>1
    <3> QED BY <1>4, <3>2 DEF Range
  <2> QED BY <2>1, <2>2
<1> QED BY <1>4, <1>5, <1>6 DEF s, T

\* Pool q has the hashes of k's pool.
SameHash(k, q) == q.hash = k.pool.hash

\* Request r gives up all its blocks: the pool keeps every hash.
LEMMA ReleaseBlocks ==
    ASSUME NEW k, NEW owed, KVOK(k, owed), NEW r \in Request,
           NEW q, PoolOK(q), SameHash(k, q), NEW owed2 \in [Block -> Nat],
           NEW k2, Replaced(k, r, q, <<>>, Untracked, k2),
           RefsMoved(k, r, q, <<>>, owed, owed2), OwedFrom(k, r, owed, owed2)
    PROVE  KVOK(k2, owed2) /\ k2.blocks[r] = <<>>
<1>1. OthersKept(k, r, q, <<>>)
  <2>1. Range(<<>>) = {}
    BY DEF Range
  <2> QED BY <2>1 DEF OthersKept, SameHash
<1>2. ListOK(k, r, q, owed2, <<>>, Untracked)
  <2>1. <<>> \in Seq(Block \cup {NullBlock}) /\ Len(<<>>) = 0
    BY EmptySeq
  <2>2. NoRepeat(<<>>)
    BY <2>1 DEF NoRepeat
  <2>3. 0 =< MaxBlocks
    BY MaxBlocksNat
  <2> QED BY <2>1, <2>2, <2>3 DEF ListOK, Untracked
<1>3. KVOK(k2, owed2)
  BY <1>1, <1>2, ReplaceBlocks
<1>4. k.blocks \in [Request -> Seq(Block \cup {NullBlock})]
  BY DEF KVOK, KV
<1> QED BY <1>3, <1>4 DEF Replaced

\* pop_blocks_for_free: the references of r become owed.
LEMMA PopBlocksOK ==
    ASSUME NEW k, NEW owed, KVOK(k, owed), NEW r \in Request,
           NEW owed2 \in [Block -> Nat],
           \A b \in Block : owed2[b] = IF b \in Range(k.blocks[r]) THEN owed[b] + 1
                                                                 ELSE owed[b]
    PROVE  KVOK(PopBlocks(k, r), owed2) /\ PopBlocks(k, r).blocks[r] = <<>>
<1> DEFINE k2 == PopBlocks(k, r)
<1>1. k \in KV /\ PoolOK(k.pool) /\ owed \in [Block -> Nat]
  BY DEF KVOK
<1>2. Replaced(k, r, k.pool, <<>>, Untracked, k2)
  <2>1. k2 = [k EXCEPT !.blocks[r] = <<>>, !.numCached[r] = Untracked]
    BY DEF PopBlocks
  <2> HIDE DEF k2
  <2> QED BY <1>1, <2>1 DEF Replaced, KV
<1>3. RefsMoved(k, r, k.pool, <<>>, owed, owed2)
  <2> SUFFICES ASSUME NEW b \in Block
               PROVE  k.pool.refCnt[b] = k.pool.refCnt[b] + owed2[b] - owed[b]
                                          + (IF b \in Range(<<>>) THEN 1 ELSE 0)
                                          - (IF b \in Range(k.blocks[r]) THEN 1 ELSE 0)
    BY DEF RefsMoved
  <2>1. k.pool.refCnt[b] \in Nat /\ owed[b] \in Nat
    BY <1>1 DEF PoolOK, Pool
  <2>2. b \notin Range(<<>>)
    BY DEF Range
  <2> QED BY <2>1, <2>2
<1>4. OwedFrom(k, r, owed, owed2)
  BY DEF OwedFrom
<1> HIDE DEF k2
<1>5. KVOK(k2, owed2) /\ k2.blocks[r] = <<>>
  <2>1. SameHash(k, k.pool)
    BY DEF SameHash
  <2> QED BY <1>1, <1>2, <1>3, <1>4, <2>1, ReleaseBlocks
<1> QED BY <1>5 DEF k2

\* free gives every reference of r back.
LEMMA FreeOK ==
    ASSUME NEW k, NEW owed, KVOK(k, owed), NEW r \in Request
    PROVE  KVOK(Free(k, r), owed) /\ Free(k, r).blocks[r] = <<>>
<1> DEFINE blks == k.blocks[r]
           q    == FreeBlocks(k.pool, TailFirst(blks))
           k2   == Free(k, r)
<1>1. k \in KV /\ PoolOK(k.pool) /\ owed \in [Block -> Nat]
  BY DEF KVOK
<1>2. /\ blks \in Seq(Block \cup {NullBlock}) /\ Len(blks) \in Nat
      /\ DOMAIN blks = 1..Len(blks) /\ NoRepeat(blks)
      /\ Range(blks) \in SUBSET (Block \cup {NullBlock})
      /\ \A i \in 1..Len(blks) : blks[i] \in Range(blks)
      /\ \A b \in Range(blks) : \E i \in 1..Len(blks) : blks[i] = b
      /\ \A b \in Range(blks) \ {NullBlock} : b \in Block /\ k.pool.refCnt[b] # 0
  BY ListFacts
<1>3. k2 = [k EXCEPT !.pool = q, !.blocks[r] = <<>>, !.numCached[r] = Untracked]
  <2>1. PopBlocks(k, r) = [k EXCEPT !.blocks[r] = <<>>, !.numCached[r] = Untracked]
    BY DEF PopBlocks
  <2>2. PopBlocks(k, r).pool = k.pool
    BY <1>1, <2>1 DEF KV
  <2>3. k2 = [PopBlocks(k, r) EXCEPT !.pool = q]
    BY <2>2 DEF Free
  <2> HIDE DEF k2, q
  <2> QED BY <1>1, <2>1, <2>3 DEF KV
<1> HIDE DEF blks
<1>4. /\ TailFirst(blks) \in Seq(Block \cup {NullBlock}) /\ NoRepeat(TailFirst(blks))
      /\ Range(TailFirst(blks)) = Range(blks)
  BY <1>2, TailFirstOK
<1>5. /\ PoolOK(q) /\ q.hash = k.pool.hash
      /\ q.refCnt = [b \in Block |-> IF b \in Range(TailFirst(blks)) \ {NullBlock}
                                     THEN k.pool.refCnt[b] - 1 ELSE k.pool.refCnt[b]]
  <2>1. \A b \in Range(TailFirst(blks)) \ {NullBlock} : k.pool.refCnt[b] # 0
    BY <1>2, <1>4
  <2> QED BY <1>1, <1>4, <2>1, FreeBlocksOK
<1> HIDE DEF q, k2
<1>6. Replaced(k, r, q, <<>>, Untracked, k2)
  BY <1>1, <1>3 DEF Replaced, KV
<1>7. RefsMoved(k, r, q, <<>>, owed, owed)
  <2> SUFFICES ASSUME NEW b \in Block
               PROVE  q.refCnt[b] = k.pool.refCnt[b] + owed[b] - owed[b]
                                      + (IF b \in Range(<<>>) THEN 1 ELSE 0)
                                      - (IF b \in Range(k.blocks[r]) THEN 1 ELSE 0)
    BY DEF RefsMoved
  <2>1. k.pool.refCnt[b] \in Nat /\ owed[b] \in Nat
    BY <1>1 DEF PoolOK, Pool
  <2>2. b \notin Range(<<>>) /\ b # NullBlock
    BY PoolAssumption DEF Range, Block, NullBlock
  <2> QED BY <1>4, <1>5, <2>1, <2>2 DEF blks
<1>8. KVOK(k2, owed) /\ k2.blocks[r] = <<>>
  <2>1. OwedFrom(k, r, owed, owed) /\ PoolOK(q) /\ SameHash(k, q)
    BY <1>5 DEF OwedFrom, SameHash
  <2> QED BY <1>1, <1>6, <1>7, <2>1, ReleaseBlocks
<1> QED BY <1>8 DEF k2

\* A change of the pool alone: hashes stay or go, and references go only with
\* what is owed.
LEMMA PoolOnly ==
    ASSUME NEW k, NEW owed, KVOK(k, owed), NEW q, PoolOK(q),
           NEW owed2 \in [Block -> Nat],
           NEW k2, k2 = [k EXCEPT !.pool = q],
           \A b \in Block : /\ q.hash[b] \in {NoHash, k.pool.hash[b]}
                            /\ owed2[b] =< owed[b]
                            /\ q.refCnt[b] = k.pool.refCnt[b] + owed2[b] - owed[b]
    PROVE  KVOK(k2, owed2) /\ k2.blocks = k.blocks
<1>1. k \in KV /\ PoolOK(k.pool) /\ owed \in [Block -> Nat]
      /\ CountsOK(k, k.pool, owed) /\ \A r \in Request : RequestOK(k, owed, r)
  BY DEF KVOK
<1>2. k2 \in KV /\ k2.pool = q /\ k2.blocks = k.blocks /\ k2.numCached = k.numCached
  BY <1>1 DEF KV, PoolOK
<1>3. \A b : Holders(k2, b) = Holders(k, b)
  BY <1>2 DEF Holders
<1>4. CountsOK(k2, k2.pool, owed2)
  <2> SUFFICES ASSUME NEW b \in Block
               PROVE  q.refCnt[b] = Cardinality(Holders(k, b)) + owed2[b]
    BY <1>2, <1>3 DEF CountsOK
  <2>1. k.pool.refCnt[b] = Cardinality(Holders(k, b)) + owed[b]
        /\ owed[b] \in Nat /\ owed2[b] \in Nat
    BY <1>1 DEF CountsOK
  <2>2. IsFiniteSet(Request) /\ Holders(k, b) \in SUBSET Request
    BY ManagerAssumption DEF Holders
  <2>3. Cardinality(Holders(k, b)) \in Nat
    BY <2>2, FS_Subset, FS_CardinalityType
  <2> QED BY <2>1, <2>3
<1>5. ASSUME NEW r \in Request PROVE RequestOK(k2, owed2, r)
  <2>1. RequestOK(k, owed, r)
    BY <1>1
  <2>2. ASSUME NEW i \in 1..Len(k.blocks[r]) PROVE PositionOK(k2, owed2, r, i)
    <3> DEFINE b == k.blocks[r][i]
    <3> SUFFICES ASSUME b # NullBlock
                 PROVE  /\ q.hash[b] \in {NoHash, BlockHash[r][i]}
                        /\ i > k.numCached[r] => /\ q.hash[b] = NoHash
                                                 /\ Holders(k, b) = {r} /\ owed2[b] = 0
      BY <1>2, <1>3 DEF PositionOK
    <3>1. /\ k.pool.hash[b] \in {NoHash, BlockHash[r][i]}
          /\ i > k.numCached[r] => /\ k.pool.hash[b] = NoHash
                                   /\ Holders(k, b) = {r} /\ owed[b] = 0
      BY <2>1 DEF RequestOK, PositionOK
    <3>2. b \in Block
      <4>1. k.blocks[r] \in Seq(Block \cup {NullBlock})
        BY <1>1 DEF KV
      <4> QED BY <4>1, ElementOfSeq
    <3> HIDE DEF b
    <3>3. owed2[b] \in Nat /\ owed[b] \in Nat
      BY <1>1, <3>2
    <3> QED BY <3>1, <3>2, <3>3
  <2> QED BY <1>2, <2>1, <2>2 DEF RequestOK
<1> QED BY <1>2, <1>4, <1>5 DEF KVOK

-----------------------------------------------------------------------------
(* Prefix cache lookup.                                                    *)

\* The scan of find_longest_cache_hit ends, and what it passed is cached.
LEMMA RunEndOK ==
    ASSUME NEW p, NEW H, NEW lo \in Nat, NEW hi \in Nat, lo =< hi
    PROVE  /\ RunEnd(p, H, lo, hi) \in lo..hi
           /\ \A i \in (lo + 1)..RunEnd(p, H, lo, hi) : IsCached(p, H[i])
<1> DEFINE P(n) == /\ \A i \in (lo + 1)..n : IsCached(p, H[i])
                   /\ n = hi \/ ~IsCached(p, H[n + 1])
           S == {n \in lo..hi : n = hi \/ ~IsCached(p, H[n + 1])}
<1>1. S \in SUBSET Nat /\ S # {}
  BY DEF S
<1>2. PICK m \in S : \A x \in S : m =< x
  <2> HIDE DEF S
  <2> QED BY <1>1, LeastElement
<1>3. m \in lo..hi /\ (m = hi \/ ~IsCached(p, H[m + 1]))
  OBVIOUS
<1>4. ASSUME NEW i \in (lo + 1)..m PROVE IsCached(p, H[i])
  <2>1. i - 1 \in lo..hi /\ ~(m =< i - 1) /\ i - 1 # hi /\ (i - 1) + 1 = i
    BY <1>3
  <2>2. i - 1 \notin S
    BY <1>2, <2>1
  <2> QED BY <2>1, <2>2
<1>5. m \in lo..hi /\ P(m)
  BY <1>3, <1>4
<1>6. RunEnd(p, H, lo, hi) = CHOOSE n \in lo..hi : P(n)
  BY DEF RunEnd
<1> HIDE DEF P
<1>7. RunEnd(p, H, lo, hi) \in lo..hi /\ P(RunEnd(p, H, lo, hi))
  BY <1>5, <1>6
<1> QED BY <1>7 DEF P

\* The blocks get_cached_block returns for cached hashes are a hit.
LEMMA HitBlocksOK ==
    ASSUME NEW k, NEW owed, KVOK(k, owed), NEW r \in Request,
           NEW from \in Nat, NEW to \in Nat, to =< MaxBlocks,
           \A i \in (from + 1)..to : IsCached(k.pool, BlockHash[r][i])
    PROVE  LET s == HitBlocks(k.pool, BlockHash[r], from, to)
           IN  HitOK(k, r, s) /\ Len(s) = to
<1> DEFINE s == HitBlocks(k.pool, BlockHash[r], from, to)
           B(i) == GetCachedBlock(k.pool, BlockHash[r][i])
<1>1. k.pool \in Pool /\ MapExact(k.pool)
  BY DEF KVOK, PoolOK
<1>2. BlockHash[r] \in [1..MaxBlocks -> Hash] /\ MaxBlocks \in Nat
  BY HashAssumption, MaxBlocksNat
<1>3. ASSUME NEW i \in 1..to, ~(i =< from)
      PROVE  B(i) \in Block /\ k.pool.hash[B(i)] = BlockHash[r][i]
  <2> DEFINE h == BlockHash[r][i]
             c == k.pool.cached[h]
  <2>1. i \in (from + 1)..to /\ i \in 1..MaxBlocks
    BY <1>2, <1>3
  <2>2. h \in Hash
    BY <1>2, <2>1
  <2>3. c # <<>>
    BY <2>1 DEF IsCached
  <2> HIDE DEF h
  <2>4. /\ c \in Seq(Block)
        /\ \A b \in Block : b \in Range(c) <=> k.pool.hash[b] = h
    BY <1>1, <2>2 DEF Pool, MapExact
  <2> HIDE DEF c
  <2>5. Head(c) \in Block /\ Head(c) = c[1] /\ 1 \in DOMAIN c
    BY <2>3, <2>4, HeadTailProperties, LenProperties, EmptySeq
  <2>6. Head(c) \in Range(c)
    BY <2>5 DEF Range
  <2> QED BY <2>4, <2>5, <2>6 DEF GetCachedBlock, c, h
<1>4. s = [i \in 1..to |-> IF i =< from THEN NullBlock ELSE B(i)]
  BY DEF HitBlocks
<1> HIDE DEF s, B
<1>5. s \in Seq(Block \cup {NullBlock}) /\ Len(s) = to
      /\ \A i \in 1..to : s[i] = IF i =< from THEN NullBlock ELSE B(i)
  BY <1>3, <1>4
<1>6. \A i \in 1..to : s[i] # NullBlock => k.pool.hash[s[i]] = BlockHash[r][i]
  BY <1>3, <1>5
<1>7. HitOK(k, r, s) /\ Len(s) = to
  BY <1>5, <1>6 DEF HitOK
<1> QED BY <1>7 DEF s

\* A hit without its last block is a hit.
LEMMA DropLastOK ==
    ASSUME NEW k, NEW r, NEW s, HitOK(k, r, s), NEW drop \in BOOLEAN
    PROVE  HitOK(k, r, DropLast(s, drop)) /\ Len(DropLast(s, drop)) =< Len(s)
<1> DEFINE T == Block \cup {NullBlock}
           n == Len(s)
           d == SubSeq(s, 1, n - 1)
<1>1. s \in Seq(T) /\ n \in Nat /\ n =< MaxBlocks /\ MaxBlocks \in Nat
  BY MaxBlocksNat, LenProperties DEF HitOK
<1>2. CASE ~(drop /\ s # <<>>)
  <2>1. DropLast(s, drop) = s
    BY <1>2 DEF DropLast
  <2> QED BY <1>1, <2>1
<1>3. CASE drop /\ s # <<>>
  <2>1. DropLast(s, drop) = d
    BY <1>3 DEF DropLast
  <2>2. n \in Nat \ {0} /\ \A i \in 1..n : s[i] \in T
    BY <1>1, <1>3, EmptySeq, ElementOfSeq
  <2> HIDE DEF T, n
  <2>3. \A i \in 1..(n - 1) : s[i] \in T
    BY <2>2
  <2>4. /\ d \in Seq(T) /\ Len(d) = IF 1 =< n - 1 THEN (n - 1) - 1 + 1 ELSE 0
        /\ \A i \in 1..((n - 1) - 1 + 1) : d[i] = s[1 + i - 1]
    <3>1. 1 \in Int /\ n - 1 \in Int
      BY <2>2
    <3> QED BY <2>3, <3>1, SubSeqProperties
  <2> HIDE DEF d
  <2>5. Len(d) = n - 1 /\ \A i \in 1..(n - 1) : i \in 1..n /\ d[i] = s[i]
    BY <2>2, <2>4
  <2>6. \A i \in 1..(n - 1) : d[i] # NullBlock => k.pool.hash[d[i]] = BlockHash[r][i]
    BY <2>5 DEF HitOK, n
  <2>7. n - 1 =< n /\ n - 1 =< MaxBlocks
    BY <1>1, <2>2
  <2>8. HitOK(k, r, d) /\ Len(d) =< n
    BY <2>4, <2>5, <2>6, <2>7 DEF HitOK, T
  <2> QED BY <2>1, <2>8 DEF n
<1> QED BY <1>2, <1>3

\* The blocks of the first maxLength tokens, none past the longest hit.
LEMMA FullHitOK ==
    ASSUME NEW k, NEW owed, KVOK(k, owed), NEW r \in Request, NEW last \in Nat,
           last =< MaxBlocks, NEW from \in Nat, from =< last
    PROVE  LET s == HitBlocks(k.pool, BlockHash[r], from,
                              RunEnd(k.pool, BlockHash[r], from, last))
           IN  HitOK(k, r, s) /\ Len(s) =< last
<1> DEFINE to == RunEnd(k.pool, BlockHash[r], from, last)
<1>1. to \in from..last
      /\ \A i \in (from + 1)..to : IsCached(k.pool, BlockHash[r][i])
  BY RunEndOK
<1> HIDE DEF to
<1>2. to \in Nat /\ to =< MaxBlocks /\ to =< last
  BY <1>1, MaxBlocksNat
<1>3. HitOK(k, r, HitBlocks(k.pool, BlockHash[r], from, to))
      /\ Len(HitBlocks(k.pool, BlockHash[r], from, to)) = to
  BY <1>1, <1>2, HitBlocksOK
<1> QED BY <1>2, <1>3 DEF to

\* A sliding window hit that ends a run of `need' cached blocks.
LEMMA SlidingEndOK ==
    ASSUME NEW need \in Nat, NEW last \in Nat, NEW ends \in SUBSET (need..last),
           ends # {}
    PROVE  LET end == CHOOSE e \in ends : \A f \in ends : f =< e
           IN  end \in ends
<1> DEFINE S == {last - e : e \in ends}
<1>1. S \in SUBSET Nat /\ S # {}
  OBVIOUS
<1>2. PICK m \in S : \A x \in S : m =< x
  <2> HIDE DEF S
  <2> QED BY <1>1, LeastElement
<1>3. PICK e \in ends : m = last - e
  OBVIOUS
<1>4. \A f \in ends : f =< e
  <2> SUFFICES ASSUME NEW f \in ends PROVE f =< e
    OBVIOUS
  <2>1. last - f \in S
    OBVIOUS
  <2>2. last - e =< last - f
    BY <1>2, <1>3, <2>1
  <2> QED BY <2>2
<1> QED BY <1>4

\* get_computed_blocks returns a hit, of full blocks without the last token.
LEMMA GetComputedBlocksOK ==
    ASSUME NEW k, NEW owed, KVOK(k, owed), NEW r \in Request,
           NEW n \in Nat \ {0}, n =< MaxModelLen
    PROVE  LET hits == GetComputedBlocks(k, r, n)
           IN  HitOK(k, r, hits) /\ Len(hits) * BlockSize =< n - 1
<1> DEFINE hits == GetComputedBlocks(k, r, n)
           p    == k.pool
           H    == BlockHash[r]
           len  == n - 1
           last == len \div BlockSize
<1>1. /\ BlockSize \in Nat \ {0} /\ AttnSize \in Nat \ {0} /\ UseEagle \in BOOLEAN
      /\ AttnKind \in {"full", "sliding", "chunked"}
      /\ MaxModelLen \in Nat
  BY ManagerAssumption
<1>2. len \in Nat /\ len =< MaxModelLen
  BY <1>1
<1>3. last \in Nat /\ last * BlockSize =< len /\ last =< MaxBlocks
  <2> HIDE DEF len
  <2>1. last \in Nat /\ last * BlockSize =< len
    BY <1>1, <1>2, DivProperties
  <2>2. last =< Cdiv(len, BlockSize) /\ Cdiv(len, BlockSize) =< Cdiv(MaxModelLen, BlockSize)
        /\ Cdiv(len, BlockSize) \in Nat
    BY <1>1, <1>2, CdivProperties
  <2>3. MaxBlocks \in Nat /\ MaxBlocks = Cdiv(MaxModelLen, BlockSize)
    BY MaxBlocksNat
  <2> HIDE DEF last
  <2> QED BY <2>1, <2>2, <2>3
<1>4. HitOK(k, r, hits) /\ Len(hits) =< last
  <2> HIDE DEF last, len
  <2> DEFINE lead == HitBlocks(p, H, 0, RunEnd(p, H, 0, last))
  <2>1. HitOK(k, r, lead) /\ Len(lead) =< last
    BY <1>3, FullHitOK
  <2>2. CASE AttnKind = "full"
    <3>1. hits = DropLast(lead, UseEagle)
      BY <2>2 DEF GetComputedBlocks, FullHit, len, last
    <3> HIDE DEF hits, lead
    <3>2. HitOK(k, r, hits) /\ Len(hits) =< Len(lead)
      BY <1>1, <2>1, <3>1, DropLastOK
    <3>3. Len(hits) \in Nat /\ Len(lead) \in Nat
      BY <2>1, <3>2, LenProperties DEF HitOK
    <3> QED BY <1>3, <2>1, <3>2, <3>3
  <2>3. CASE AttnKind = "sliding"
    <3> DEFINE need == Cdiv(AttnSize - 1, BlockSize) + (IF UseEagle THEN 1 ELSE 0)
               ends == {e \in need..last : \A i \in (e - need + 1)..e : IsCached(p, H[i])}
               end  == CHOOSE e \in ends : \A f \in ends : f =< e
               s    == IF ends # {} THEN HitBlocks(p, H, end - need, end) ELSE lead
    <3>1. hits = DropLast(s, UseEagle)
      BY <2>3 DEF GetComputedBlocks, SlidingHit, len, last
    <3>2. need \in Nat
      <4>1. AttnSize - 1 \in Nat
        BY <1>1
      <4>2. Cdiv(AttnSize - 1, BlockSize) \in Nat
        BY <4>1, CdivProperties
      <4> QED BY <4>2
    <3> HIDE DEF need, lead, hits
    <3>3. HitOK(k, r, s) /\ Len(s) =< last
      <4>1. CASE ends = {}
        BY <2>1, <4>1
      <4>2. CASE ends # {}
        <5>1. ends \in SUBSET (need..last)
          OBVIOUS
        <5>2. end \in ends
          <6> HIDE DEF ends
          <6> QED BY <1>3, <3>2, <4>2, <5>1, SlidingEndOK
        <5>3. end \in need..last /\ \A i \in (end - need + 1)..end : IsCached(p, H[i])
          <6> HIDE DEF end
          <6> QED BY <5>2
        <5>4. s = HitBlocks(p, H, end - need, end)
          BY <4>2
        <5> HIDE DEF end, s
        <5>5. end - need \in Nat /\ end \in Nat /\ end =< MaxBlocks /\ end =< last
          BY <1>3, <3>2, <5>3, MaxBlocksNat
        <5>6. HitOK(k, r, s) /\ Len(s) = end
          BY <5>3, <5>4, <5>5, HitBlocksOK
        <5> QED BY <5>5, <5>6
      <4> QED BY <4>1, <4>2
    <3> HIDE DEF s
    <3>4. HitOK(k, r, hits) /\ Len(hits) =< Len(s)
      BY <1>1, <3>1, <3>3, DropLastOK
    <3>5. Len(hits) \in Nat /\ Len(s) \in Nat
      BY <3>3, <3>4, LenProperties DEF HitOK
    <3> QED BY <1>3, <3>3, <3>4, <3>5
  <2>4. CASE AttnKind = "chunked"
    <3> DEFINE start == ((len \div AttnSize) * AttnSize) \div BlockSize
    <3>1. hits = HitBlocks(p, H, start, RunEnd(p, H, start, last))
      BY <2>4 DEF GetComputedBlocks, ChunkedHit, len, last
    <3>2. start \in Nat /\ start =< last
      <4> DEFINE seen == (len \div AttnSize) * AttnSize
      <4>1. seen \in Nat /\ seen =< len
        BY <1>1, <1>2, DivProperties
      <4> HIDE DEF seen
      <4>2. seen \div BlockSize \in Nat /\ seen \div BlockSize =< len \div BlockSize
        BY <1>1, <1>2, <4>1, DivProperties
      <4> QED BY <4>2 DEF seen, last
    <3> HIDE DEF start, hits
    <3> QED BY <1>3, <3>1, <3>2, FullHitOK
  <2> QED BY <1>1, <2>2, <2>3, <2>4
<1>5. Len(hits) \in Nat
  BY <1>4, LenProperties DEF HitOK
<1> HIDE DEF hits, last
<1>6. Len(hits) * BlockSize =< last * BlockSize
  BY <1>1, <1>3, <1>4, <1>5
<1>7. Len(hits) * BlockSize =< len
  <2>1. Len(hits) * BlockSize \in Nat /\ last * BlockSize \in Nat
    BY <1>1, <1>3, <1>5
  <2> HIDE DEF len
  <2> QED BY <1>2, <1>3, <1>6, <2>1
<1> QED BY <1>4, <1>7 DEF hits

-----------------------------------------------------------------------------
(* allocate_slots.                                                         *)

\* An operation on r that leaves the blocks of the other requests alone.
KeepsOthers(k, r, k2) == \A s \in Request \ {r} : k2.blocks[s] = k.blocks[s]

\* A record k2 that is k but for its pool and the blocks of r.
LEMMA UpdateKeeps ==
    ASSUME NEW k \in KV, NEW r \in Request, NEW q, NEW B
    PROVE  KeepsOthers(k, r, [k EXCEPT !.pool = q, !.blocks[r] = B])
<1>1. k.blocks \in [Request -> Seq(Block \cup {NullBlock})]
  BY DEF KV
<1> QED BY <1>1 DEF KV, KeepsOthers

\* remove_skipped_blocks changes the blocks of r only.
LEMMA RemoveSkippedKeeps ==
    ASSUME NEW k \in KV, NEW r \in Request, NEW computed
    PROVE  KeepsOthers(k, r, RemoveSkippedBlocks(k, r, computed))
<1> DEFINE blks == k.blocks[r]
           m    == Min2(NumSkippedBlocks(computed), Len(blks))
           real == {i \in 1..m : \A j \in i..m : blks[j] # NullBlock}
           n    == Cardinality(real)
           q    == FreeBlocks(k.pool, [i \in 1..n |-> blks[m + 1 - i]])
           B    == [i \in DOMAIN blks |-> IF i \in real THEN NullBlock ELSE blks[i]]
           k2   == RemoveSkippedBlocks(k, r, computed)
<1>1. k2 = IF real = {} THEN k ELSE [k EXCEPT !.pool = q, !.blocks[r] = B]
  BY DEF RemoveSkippedBlocks
<1> HIDE DEF real, q, B, k2
<1>2. KeepsOthers(k, r, k)
  BY DEF KeepsOthers
<1>3. KeepsOthers(k, r, [k EXCEPT !.pool = q, !.blocks[r] = B])
  BY UpdateKeeps
<1>4. KeepsOthers(k, r, k2)
  BY <1>1, <1>2, <1>3
<1> QED BY <1>4 DEF k2

\* add_local_computed_blocks changes the blocks of r only.
LEMMA AddLocalComputedKeeps ==
    ASSUME NEW k \in KV, NEW r \in Request, NEW hits, NEW computed
    PROVE  KeepsOthers(k, r, AddLocalComputedBlocks(k, r, hits, computed))
<1> DEFINE inside == SubSeq(hits, NumSkippedBlocks(computed) + 1, Len(hits))
           B      == [i \in 1..NumSkippedBlocks(computed) |-> NullBlock] \o inside
           q      == Touch(k.pool, inside)
           nc     == Len(B)
           k2     == AddLocalComputedBlocks(k, r, hits, computed)
<1>1. k2 = [k EXCEPT !.pool = q, !.blocks[r] = B, !.numCached[r] = nc]
  BY DEF AddLocalComputedBlocks
<1> HIDE DEF q, B, nc, k2
<1>2. k.blocks \in [Request -> Seq(Block \cup {NullBlock})]
  BY DEF KV
<1>3. KeepsOthers(k, r, k2)
  BY <1>1, <1>2 DEF KV, KeepsOthers
<1> QED BY <1>3 DEF k2

\* allocate_new_blocks changes the blocks of r only.
LEMMA AllocateNewKeeps ==
    ASSUME NEW k \in KV, NEW r \in Request, NEW required
    PROVE  KeepsOthers(k, r, AllocateNewBlocks(k, r, required))
<1> DEFINE n  == required - Len(k.blocks[r])
           g  == GetNewBlocks(k.pool, n)
           q  == g.pool
           B  == k.blocks[r] \o g.blocks
           k2 == AllocateNewBlocks(k, r, required)
<1>1. k2 = IF n =< 0 THEN k ELSE [k EXCEPT !.pool = q, !.blocks[r] = B]
  BY DEF AllocateNewBlocks
<1> HIDE DEF n, q, B, k2
<1>2. KeepsOthers(k, r, k)
  BY DEF KeepsOthers
<1>3. KeepsOthers(k, r, [k EXCEPT !.pool = q, !.blocks[r] = B])
  BY UpdateKeeps
<1>4. KeepsOthers(k, r, k2)
  BY <1>1, <1>2, <1>3
<1> QED BY <1>4 DEF k2

\* pop_blocks_for_free changes the blocks of r only.
LEMMA PopKeeps ==
    ASSUME NEW k \in KV, NEW r \in Request
    PROVE  PopBlocks(k, r) \in KV /\ KeepsOthers(k, r, PopBlocks(k, r))
<1> DEFINE k2 == PopBlocks(k, r)
<1>0. k.blocks \in [Request -> Seq(Block \cup {NullBlock})]
  BY DEF KV
<1>1. k2 = [k EXCEPT !.blocks[r] = <<>>, !.numCached[r] = Untracked]
  BY DEF PopBlocks
<1> HIDE DEF k2
<1>2. <<>> \in Seq(Block \cup {NullBlock})
  BY EmptySeq
<1>3. k2 \in KV
  BY <1>0, <1>1, <1>2 DEF KV
<1>4. KeepsOthers(k, r, k2)
  BY <1>0, <1>1 DEF KV, KeepsOthers
<1> QED BY <1>3, <1>4 DEF k2

\* free changes the blocks of r only.
LEMMA FreeKeeps ==
    ASSUME NEW k \in KV, NEW r \in Request
    PROVE  KeepsOthers(k, r, Free(k, r))
<1> DEFINE k2 == PopBlocks(k, r)
           q  == FreeBlocks(k2.pool, TailFirst(k.blocks[r]))
           k3 == Free(k, r)
<1>1. k3 = [k2 EXCEPT !.pool = q]
  BY DEF Free
<1>2. k2 \in KV /\ KeepsOthers(k, r, k2)
  BY PopKeeps
<1> HIDE DEF k2, q, k3
<1>3. k3.blocks = k2.blocks
  BY <1>1, <1>2 DEF KV
<1>4. KeepsOthers(k, r, k3)
  BY <1>2, <1>3 DEF KeepsOthers
<1> QED BY <1>4 DEF k3

\* What the scheduler passes to allocate_slots: for a waiting request its hit,
\* for a running one no hit and the tokens its blocks already hold.
ArgsOK(k, r, a) ==
    /\ a.computed \in Nat /\ a.new \in Nat /\ a.look \in Nat
    /\ a.tokens \in Nat /\ a.tokens =< MaxModelLen
    /\ HitOK(k, r, a.hits)
    /\ LocalComputed(a) =< MaxModelLen
    /\ \/ k.blocks[r] = <<>> /\ a.computed = 0
       \/ a.hits = <<>> /\ a.computed \div BlockSize =< Len(k.blocks[r])

\* The numbers allocate_slots computes from its arguments.
LEMMA ArgsFacts ==
    ASSUME NEW k, NEW r \in Request, NEW a, ArgsOK(k, r, a)
    PROVE  /\ Len(a.hits) \in Nat
           /\ LocalComputed(a) \in Nat /\ TotalComputed(a) = LocalComputed(a)
           /\ SlotTokens(a) \in Nat /\ SlotTokens(a) =< MaxModelLen
           /\ Cdiv(SlotTokens(a), BlockSize) \in Nat
           /\ Cdiv(SlotTokens(a), BlockSize) =< MaxBlocks
           /\ Watermark(a) \in Nat
           /\ Min2(TotalComputed(a) + a.new, a.tokens) \in Nat
           /\ Min2(TotalComputed(a) + a.new, a.tokens) =< SlotTokens(a)
<1>1. BlockSize \in Nat \ {0} /\ MaxModelLen \in Nat /\ WatermarkBlocks \in Nat
  BY ManagerAssumption
<1>2. /\ a.computed \in Nat /\ a.new \in Nat /\ a.look \in Nat
      /\ a.tokens \in Nat /\ a.tokens =< MaxModelLen
      /\ a.hits \in Seq(Block \cup {NullBlock})
      /\ LocalComputed(a) =< MaxModelLen
  BY DEF ArgsOK, HitOK
<1>3. Len(a.hits) \in Nat
  BY <1>2, LenProperties
<1>4. LocalComputed(a) \in Nat
  <2>1. Len(a.hits) * BlockSize \in Nat
    BY <1>1, <1>3
  <2> QED BY <1>2, <2>1 DEF LocalComputed
<1>5. TotalComputed(a) = LocalComputed(a)
  BY <1>1, <1>2, <1>4 DEF TotalComputed, Min2
<1>6. SlotTokens(a) \in Nat /\ SlotTokens(a) =< MaxModelLen
  BY <1>1, <1>2, <1>4, <1>5 DEF SlotTokens, Min2
<1>7. Cdiv(SlotTokens(a), BlockSize) \in Nat /\ Cdiv(SlotTokens(a), BlockSize) =< MaxBlocks
  BY <1>1, <1>6, CdivProperties, MaxBlocksNat
<1>8. Watermark(a) \in Nat
  BY <1>1 DEF Watermark
<1>9. /\ Min2(TotalComputed(a) + a.new, a.tokens) \in Nat
      /\ Min2(TotalComputed(a) + a.new, a.tokens) =< SlotTokens(a)
  BY <1>1, <1>2, <1>4, <1>5 DEF SlotTokens, Min2
<1> QED BY <1>3, <1>4, <1>5, <1>6, <1>7, <1>8, <1>9

\* NumEvictable counts positions of a list.
LEMMA NumEvictableNat ==
    ASSUME NEW p, NEW s \in Seq(Block \cup {NullBlock}), NEW i \in Int
    PROVE  NumEvictable(p, SubSeq(s, i, Len(s))) \in Nat
<1> DEFINE t == SubSeq(s, i, Len(s))
           n == Len(s) - i + 1
<1>1. Len(s) \in Nat
  BY LenProperties
<1>2. DOMAIN t = 1..n
  BY <1>1
<1>3. 1..n = IF n >= 0 THEN 1..n ELSE 1..0
  BY <1>1
<1> HIDE DEF t
<1>4. NumEvictable(p, t) = Cardinality({j \in 1..n : t[j] # NullBlock /\ p.refCnt[t[j]] = 0})
  BY <1>2 DEF NumEvictable
<1>5. PICK m \in Nat : 1..n = 1..m
  <2>1. n \in Int
    BY <1>1
  <2> HIDE DEF n
  <2>2. CASE n >= 0
    BY <2>1, <2>2
  <2>3. CASE ~(n >= 0)
    <3>1. 1..n = 1..0
      BY <1>3, <2>3
    <3> QED BY <3>1
  <2> QED BY <2>2, <2>3
<1> HIDE DEF n
<1>6. Cardinality({j \in 1..m : t[j] # NullBlock /\ p.refCnt[t[j]] = 0}) \in Nat
  BY PositionsFinite
<1>7. NumEvictable(p, t) \in Nat
  BY <1>4, <1>5, <1>6
<1> QED BY <1>7 DEF t

\* The gate of allocate_slots: what follows it finds its blocks in the pool.
LEMMA GateOK ==
    ASSUME NEW k, NEW owed, KVOK(k, owed), NEW r \in Request,
           NEW a, ArgsOK(k, r, a),
           CanAllocate(RemoveSkippedBlocks(k, r, TotalComputed(a)), r, a)
    PROVE  LET hit == WithHits(RemoveSkippedBlocks(k, r, TotalComputed(a)), r, a)
           IN  /\ KVOK(hit, owed)
               /\ Cdiv(SlotTokens(a), BlockSize) - Len(hit.blocks[r]) =< Len(hit.pool.free)
<1> DEFINE local == LocalComputed(a)
           trim == RemoveSkippedBlocks(k, r, TotalComputed(a))
           hit  == WithHits(trim, r, a)
           req  == Cdiv(SlotTokens(a), BlockSize)
           hits == a.hits
           held == Len(trim.blocks[r])
           free == Len(trim.pool.free)
           skipped == NumSkippedBlocks(local)
           from == Max2(0, skipped - held) + 1
           evict == NumEvictable(trim.pool, SubSeq(hits, from, Len(hits)))
<1>0. /\ Len(hits) \in Nat /\ local \in Nat /\ TotalComputed(a) = local
      /\ req \in Nat /\ Watermark(a) \in Nat
  BY ArgsFacts
<1>1. /\ KVOK(trim, owed) /\ held = Len(k.blocks[r]) /\ trim.numCached = k.numCached
      /\ k.blocks[r] = <<>> => trim = k
  <2>1. TotalComputed(a) \in Nat
    BY <1>0
  <2>2. Trimmed(k, r, owed, trim)
    BY <2>1, RemoveSkippedBlocksOK
  <2> HIDE DEF trim
  <2> QED BY <2>2 DEF Trimmed
<1>2. skipped \in Nat /\ skipped =< local \div BlockSize
  BY <1>0, SkippedBound
<1>3. /\ a.computed \in Nat /\ HitOK(k, r, hits)
      /\ \/ k.blocks[r] = <<>> /\ a.computed = 0
         \/ hits = <<>> /\ a.computed \div BlockSize =< Len(k.blocks[r])
  BY DEF ArgsOK
<1>4. free \in Nat /\ held \in Nat
  <2>1. trim.pool.free \in Seq(Block) /\ trim.blocks[r] \in Seq(Block \cup {NullBlock})
    BY <1>1 DEF KVOK, KV, Pool
  <2> QED BY <2>1, LenProperties
<1>5. evict \in Nat
  <2>1. hits \in Seq(Block \cup {NullBlock})
    BY <1>3 DEF HitOK
  <2>2. from \in Int
    BY <1>2, <1>4 DEF Max2
  <2> HIDE DEF from
  <2> QED BY <2>1, <2>2, NumEvictableNat
<1>6. skipped =< held + Len(hits)
  <2>1. BlockSize \in Nat \ {0}
    BY ManagerAssumption
  <2>2. CASE k.blocks[r] = <<>> /\ a.computed = 0
    <3>1. local = Len(hits) * BlockSize
      BY <1>0, <2>1, <2>2 DEF LocalComputed
    <3>2. local \div BlockSize = Len(hits)
      BY <1>0, <2>1, <3>1, DivProperties
    <3> HIDE DEF local, skipped, held, hits
    <3> QED BY <1>0, <1>2, <1>4, <3>2
  <2>3. CASE hits = <<>> /\ a.computed \div BlockSize =< Len(k.blocks[r])
    <3>1. Len(hits) = 0
      BY <2>3
    <3>2. local = a.computed
      BY <1>3, <2>1, <3>1 DEF LocalComputed
    <3>3. a.computed \div BlockSize \in Nat
      BY <1>3, <2>1, DivProperties
    <3> HIDE DEF local, skipped, held, hits
    <3> QED BY <1>1, <1>2, <1>4, <2>3, <3>1, <3>2, <3>3
  <2> QED BY <1>3, <2>2, <2>3
<1>7. NumBlocksToAllocate(trim, r, req, hits, local) + Watermark(a) =< free
  BY DEF CanAllocate, NumFree
<1>8. /\ trim.numCached[r] # Untracked =>
            NumBlocksToAllocate(trim, r, req, hits, local) = Max2(req - held, 0)
      /\ trim.numCached[r] = Untracked =>
            NumBlocksToAllocate(trim, r, req, hits, local) =
               Max2(req - Max2(skipped, Len(hits) + held), 0) + evict
  BY DEF NumBlocksToAllocate
<1>9. CASE hits = <<>>
  <2>1. hit = trim /\ Len(hits) = 0
    BY <1>9 DEF WithHits
  <2> HIDE DEF trim, hit, req, hits, held, free, skipped, evict, local
  <2>2. req - held =< free
    BY <1>0, <1>2, <1>4, <1>5, <1>6, <1>7, <1>8, <2>1 DEF Max2
  <2>3. KVOK(hit, owed) /\ req - Len(hit.blocks[r]) =< Len(hit.pool.free)
    BY <1>1, <2>1, <2>2 DEF held, free
  <2> QED BY <2>3 DEF hit, trim, req
<1>10. CASE hits # <<>>
  <2>1. k.blocks[r] = <<>> /\ trim = k
    BY <1>1, <1>3, <1>10
  <2>2. held = 0
    BY <1>1, <2>1
  <2>3. k.numCached[r] = Untracked
    BY <2>1 DEF KVOK, RequestOK
  <2>4. hit = AddLocalComputedBlocks(k, r, hits, local)
    BY <1>10, <2>1 DEF WithHits
  <2> DEFINE inside == SubSeq(hits, skipped + 1, Len(hits))
  <2> HIDE DEF hit, local, trim, req, hits, held, free, evict, from
  <2>5. skipped =< Len(hits)
    BY <1>0, <1>6, <2>2
  <2>6. /\ KVOK(hit, owed) /\ Len(hit.blocks[r]) = Len(hits)
        /\ NumEvictable(k.pool, inside) \in Nat
        /\ Len(hit.pool.free) >= Len(k.pool.free) - NumEvictable(k.pool, inside)
    <3>1. Extended(k, r, owed, hits, SubSeq(hits, NumSkippedBlocks(local) + 1, Len(hits)),
                   AddLocalComputedBlocks(k, r, hits, local))
      BY <1>0, <1>3, <1>10, <2>1, <2>5, AddLocalComputedBlocksOK
    <3>2. Extended(k, r, owed, hits, inside, hit)
      BY <2>4, <3>1
    <3> HIDE DEF inside
    <3> QED BY <3>2 DEF Extended
  <2>7. evict = NumEvictable(k.pool, inside)
    <3>1. from = skipped + 1
      <4> HIDE DEF skipped
      <4> QED BY <1>2, <2>2 DEF Max2, from
    <3> QED BY <2>1, <3>1 DEF evict
  <2>8. Len(hit.pool.free) \in Nat
    BY <2>6, LenProperties DEF KVOK, KV, Pool
  <2> HIDE DEF inside, skipped
  <2>9. Max2(req - Max2(skipped, Len(hits) + held), 0) + evict =< free
    <3> DEFINE need == NumBlocksToAllocate(trim, r, req, hits, local)
               gate == Max2(req - Max2(skipped, Len(hits) + held), 0) + evict
    <3>1. need = gate
      BY <1>8, <2>1, <2>3
    <3>2. gate \in Nat
      BY <1>0, <1>2, <1>4, <1>5 DEF Max2
    <3>3. need + Watermark(a) =< free
      BY <1>7
    <3> HIDE DEF need, gate
    <3>4. gate =< free
      BY <1>0, <1>4, <3>1, <3>2, <3>3
    <3> QED BY <3>4 DEF gate
  <2>10. req - Len(hits) + evict =< free
    BY <1>0, <1>2, <1>4, <1>5, <2>2, <2>5, <2>9 DEF Max2
  <2>11. free = Len(k.pool.free)
    BY <2>1 DEF free
  <2>12. req - Len(hit.blocks[r]) =< Len(hit.pool.free)
    <3> DEFINE left == Len(hit.pool.free)
    <3>1. left \in Nat /\ left >= free - evict /\ Len(hit.blocks[r]) = Len(hits)
      BY <2>6, <2>7, <2>8, <2>11
    <3> HIDE DEF left
    <3>2. req - Len(hits) =< left
      BY <1>0, <1>4, <1>5, <2>10, <3>1
    <3> QED BY <3>1, <3>2 DEF left
  <2> QED BY <2>6, <2>12 DEF hit, trim, req
<1> QED BY <1>9, <1>10

\* allocate_slots keeps the invariant.  When it succeeds the request has blocks
\* for all its computed and new tokens; when it fails it has as many as before.
LEMMA AllocateSlotsOK ==
    ASSUME NEW k, NEW owed, KVOK(k, owed), NEW r \in Request,
           NEW a, ArgsOK(k, r, a)
    PROVE  LET res == AllocateSlots(k, r, a)
           IN  /\ KVOK(res.kv, owed)
               /\ \A s \in Request \ {r} : res.kv.blocks[s] = k.blocks[s]
               /\ res.ok => Cdiv(SlotTokens(a), BlockSize) =< Len(res.kv.blocks[r])
               /\ ~res.ok => Len(res.kv.blocks[r]) = Len(k.blocks[r])
<1> DEFINE res  == AllocateSlots(k, r, a)
           trim == RemoveSkippedBlocks(k, r, TotalComputed(a))
           hit  == WithHits(trim, r, a)
           req  == Cdiv(SlotTokens(a), BlockSize)
           new  == AllocateNewBlocks(hit, r, req)
           done == Min2(TotalComputed(a) + a.new, a.tokens)
           last == CacheBlocks(new, r, done)
<1>0. /\ TotalComputed(a) \in Nat /\ SlotTokens(a) \in Nat
      /\ req \in Nat /\ req =< MaxBlocks /\ done \in Nat /\ done =< SlotTokens(a)
  BY ArgsFacts
<1>1. /\ KVOK(trim, owed) /\ Len(trim.blocks[r]) = Len(k.blocks[r])
  <2>1. Trimmed(k, r, owed, trim)
    BY <1>0, RemoveSkippedBlocksOK
  <2> HIDE DEF trim
  <2> QED BY <2>1 DEF Trimmed
<1>2. k \in KV /\ trim \in KV
  BY <1>1 DEF KVOK
<1>3. KeepsOthers(k, r, trim)
  BY <1>2, RemoveSkippedKeeps
<1>4. CASE a.full /\ ~FullSequenceFits(k, r, a)
  <2>1. res = [ok |-> FALSE, kv |-> k]
    BY <1>4 DEF AllocateSlots
  <2> QED BY <2>1
<1>5. CASE ~(a.full /\ ~FullSequenceFits(k, r, a)) /\ ~CanAllocate(trim, r, a)
  <2>1. res = [ok |-> FALSE, kv |-> trim]
    BY <1>5 DEF AllocateSlots
  <2> HIDE DEF trim, res
  <2>2. res.kv = trim /\ res.ok = FALSE
    BY <2>1
  <2> QED BY <1>1, <1>3, <2>2 DEF res, KeepsOthers
<1>6. CASE ~(a.full /\ ~FullSequenceFits(k, r, a)) /\ CanAllocate(trim, r, a)
  <2>1. res = [ok |-> TRUE, kv |-> last]
    BY <1>6 DEF AllocateSlots
  <2>2. KVOK(hit, owed) /\ req - Len(hit.blocks[r]) =< Len(hit.pool.free)
    BY <1>6, GateOK
  <2>3. KeepsOthers(trim, r, hit)
    <3> DEFINE added == AddLocalComputedBlocks(trim, r, a.hits, LocalComputed(a))
    <3>1. hit = IF a.hits = <<>> THEN trim ELSE added
      BY DEF WithHits
    <3> HIDE DEF trim, hit
    <3>2. KeepsOthers(trim, r, added)
      BY <1>2, AddLocalComputedKeeps
    <3>3. KeepsOthers(trim, r, trim)
      BY DEF KeepsOthers
    <3> HIDE DEF added
    <3> QED BY <3>1, <3>2, <3>3
  <2> HIDE DEF hit, trim, req, done, res
  <2>4. KVOK(new, owed) /\ Len(new.blocks[r]) = Max2(req, Len(hit.blocks[r]))
    BY <1>0, <2>2, AllocateNewBlocksOK
  <2>5. KeepsOthers(hit, r, new)
    <3>1. hit \in KV
      BY <2>2 DEF KVOK
    <3> QED BY <3>1, AllocateNewKeeps
  <2> HIDE DEF new
  <2>6. req =< Len(new.blocks[r]) /\ Len(new.blocks[r]) \in Nat
    <3>1. Len(hit.blocks[r]) \in Nat
      <4>1. hit.blocks[r] \in Seq(Block \cup {NullBlock})
        BY <2>2 DEF KVOK, KV
      <4> QED BY <4>1, LenProperties
    <3> QED BY <1>0, <2>4, <3>1 DEF Max2
  <2>7. done \div BlockSize =< Len(new.blocks[r])
    <3>1. BlockSize \in Nat \ {0} /\ done \div BlockSize \in Nat
      BY <1>0, ManagerAssumption, DivProperties
    <3>2. /\ done \div BlockSize =< Cdiv(done, BlockSize)
          /\ Cdiv(done, BlockSize) =< req /\ Cdiv(done, BlockSize) \in Nat
      BY <1>0, CdivProperties DEF req
    <3> QED BY <1>0, <2>6, <3>1, <3>2
  <2>8. KVOK(last, owed) /\ last.blocks = new.blocks
    BY <1>0, <2>4, <2>7, CacheBlocksOK
  <2> HIDE DEF last
  <2>9. res.kv = last /\ res.ok = TRUE
    BY <2>1
  <2>10. \A s \in Request \ {r} : res.kv.blocks[s] = k.blocks[s]
    BY <1>3, <2>3, <2>5, <2>8, <2>9 DEF KeepsOthers
  <2> QED BY <2>6, <2>8, <2>9, <2>10 DEF res, req
<1> QED BY <1>4, <1>5, <1>6

\* The slots cover the computed and the new tokens, when the model does.
LEMMA SlotsCover ==
    ASSUME NEW k, NEW r \in Request, NEW a, ArgsOK(k, r, a),
           LocalComputed(a) + a.new =< MaxModelLen
    PROVE  Cdiv(LocalComputed(a) + a.new, BlockSize) =< Cdiv(SlotTokens(a), BlockSize)
<1>1. /\ LocalComputed(a) \in Nat /\ TotalComputed(a) = LocalComputed(a)
      /\ SlotTokens(a) \in Nat /\ a.new \in Nat /\ a.look \in Nat
      /\ MaxModelLen \in Nat
  BY ArgsFacts, ManagerAssumption DEF ArgsOK
<1>2. LocalComputed(a) + a.new =< SlotTokens(a)
  BY <1>1 DEF SlotTokens, Min2
<1> QED BY <1>1, <1>2, CdivProperties
=============================================================================
