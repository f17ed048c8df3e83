-------------------- MODULE FreeKVCacheBlockQueueProofs --------------------
(***************************************************************************)
(* Proof that the linked list of free blocks is, for every number of       *)
(* blocks, the sequence of FreeBlockList.  The invariant says that some    *)
(* sequence of distinct blocks is threaded through the pointers; walking   *)
(* over the pointers finds that sequence, and each operation rethreads the *)
(* sequence that FreeBlockList's operation gives.                          *)
(***************************************************************************)
EXTENDS FreeKVCacheBlockQueue, FiniteSetTheorems, SequenceTheorems,
        NaturalsInduction, WellFoundedInduction, TLAPS

\* The i-th node of the list whose blocks are s, the fake nodes included.
At(s, i) == IF i = 0 THEN HeadNode ELSE IF i = Len(s) + 1 THEN TailNode ELSE s[i]

\* The pointers nxt and prv are those of the list of blocks s.
Threads(nxt, prv, s) ==
    /\ s \in Seq(BlockId) /\ IsInjective(s)
    /\ nxt \in [Node -> Node \cup {NoNode}]
    /\ prv \in [Node -> Node \cup {NoNode}]
    /\ \A i \in 0..Len(s) : /\ nxt[At(s, i)] = At(s, i + 1)
                            /\ prv[At(s, i + 1)] = At(s, i)
    /\ prv[HeadNode] = NoNode /\ nxt[TailNode] = NoNode
    /\ \A b \in BlockId \ ToSet(s) : prv[b] = NoNode /\ nxt[b] = NoNode

\* The inductive invariant.
Inv == \E s : Threads(next, prev, s) /\ num = Len(s)
-----------------------------------------------------------------------------
(* Walking over the list.                                                  *)

\* A set of naturals that is not empty has a least element.
LEMMA LeastElement ==
    ASSUME NEW S \in SUBSET Nat, S # {}
    PROVE  \E m \in S : \A x \in S : m =< x
<1>1. PICK m \in S : \A x \in S : ~(<<x, m>> \in OpToRel(<, Nat))
  BY NatLessThanWellFounded, WFMin
<1>2. \A x \in S : x \in Nat
  OBVIOUS
<1>3. \A x, y \in Nat : x < y => <<x, y>> \in OpToRel(<, Nat)
  BY DEF OpToRel
<1>4. \A x \in S : ~(x < m)
  BY <1>1, <1>2, <1>3, Zenon
<1> QED BY <1>2, <1>4

\* Two walks start together, and stay together at each of n steps.
SameSteps(f, g, n) ==
    /\ f[0] = g[0]
    /\ \A k \in 0..n : k # 0 /\ f[k - 1] = g[k - 1] => f[k] = g[k]

\* Such walks are the same.
LEMMA Agree ==
    ASSUME NEW n \in Nat, NEW f, NEW g, SameSteps(f, g, n)
    PROVE  \A k \in 0..n : f[k] = g[k]
<1> DEFINE Apart == {k \in 0..n : f[k] # g[k]}
<1> SUFFICES ASSUME Apart # {} PROVE FALSE
  OBVIOUS
<1>1. Apart \in SUBSET Nat /\ \A k : k \in Apart <=> k \in 0..n /\ f[k] # g[k]
  OBVIOUS
<1> HIDE DEF Apart
<1>2. PICK m \in Apart : \A x \in Apart : m =< x
  BY <1>1, LeastElement
<1>3. m \in 0..n /\ m # 0
  BY <1>1 DEF SameSteps
<1>4. m - 1 \in 0..n /\ ~(m =< m - 1)
  BY <1>3
<1>5. f[m - 1] = g[m - 1]
  BY <1>1, <1>2, <1>4
<1> QED BY <1>1, <1>3, <1>5 DEF SameSteps

\* Blocks and fake nodes are told apart.
LEMMA Nodes ==
    /\ NumBlocks \in Nat \ {0}
    /\ \A b \in BlockId : b \in Nat /\ b \in Node /\ b \notin {HeadNode, TailNode, NoNode}
    /\ HeadNode \in Node /\ TailNode \in Node /\ NoNode \notin Node
    /\ HeadNode # TailNode
    /\ \A x \in Node : x \in BlockId \/ x = HeadNode \/ x = TailNode
  BY QueueAssumption DEF BlockId, Node, HeadNode, TailNode, NoNode

\* The nodes of a list are distinct, and their blocks are those of the list.
LEMMA Positions ==
    ASSUME NEW s \in Seq(BlockId), IsInjective(s)
    PROVE  /\ Len(s) \in Nat /\ DOMAIN s = 1..Len(s)
           /\ \A i \in 1..Len(s) : s[i] \in BlockId /\ At(s, i) = s[i]
           /\ At(s, 0) = HeadNode /\ At(s, Len(s) + 1) = TailNode
           /\ \A i \in 0..(Len(s) + 1) : At(s, i) \in Node
           /\ \A i, j \in 0..(Len(s) + 1) : At(s, i) = At(s, j) => i = j
           /\ \A b : b \in ToSet(s) <=> \E i \in 1..Len(s) : s[i] = b
           /\ \A b \in ToSet(s) : b \in BlockId
<1>1. Len(s) \in Nat /\ DOMAIN s = 1..Len(s) /\ \A i \in 1..Len(s) : s[i] \in BlockId
  OBVIOUS
<1>2. /\ \A i \in 1..Len(s) : At(s, i) = s[i]
      /\ At(s, 0) = HeadNode /\ At(s, Len(s) + 1) = TailNode
  BY <1>1 DEF At
<1>3. \A i \in 0..(Len(s) + 1) : i = 0 \/ i \in 1..Len(s) \/ i = Len(s) + 1
  BY <1>1
<1>4. \A i \in 0..(Len(s) + 1) : At(s, i) \in Node
  BY <1>1, <1>2, <1>3, Nodes
<1>5. \A i, j \in 0..(Len(s) + 1) : At(s, i) = At(s, j) => i = j
  BY <1>1, <1>2, <1>3, Nodes DEF IsInjective
<1>6. \A b : b \in ToSet(s) <=> \E i \in 1..Len(s) : s[i] = b
  BY <1>1 DEF ToSet
<1> QED BY <1>1, <1>2, <1>4, <1>5, <1>6

\* There are n positions from 1 to n.
LEMMA IntervalSize ==
    ASSUME NEW n \in Nat PROVE IsFiniteSet(1..n) /\ Cardinality(1..n) = n
  BY FS_Interval

\* A list of distinct blocks is no longer than the pool.
LEMMA ListLength ==
    ASSUME NEW s \in Seq(BlockId), IsInjective(s)
    PROVE  Len(s) =< NumBlocks
<1>1. Len(s) \in Nat /\ s \in Injection(1..Len(s), BlockId)
  BY Positions DEF Injection
<1>2. IsFiniteSet(BlockId) /\ Cardinality(BlockId) = NumBlocks
  BY Nodes, FS_Interval DEF BlockId
<1>3. IsFiniteSet(1..Len(s)) /\ Cardinality(1..Len(s)) = Len(s)
  BY <1>1, IntervalSize
<1> QED BY <1>1, <1>2, <1>3, FS_Injection

\* What get_all_free_blocks collects is the list.
LEMMA WalkIs ==
    ASSUME NEW nxt, NEW prv, NEW s, Threads(nxt, prv, s)
    PROVE  Walk(nxt) = s
<1> DEFINE F(at) == [k \in 0..(NumBlocks + 1) |->
                        IF k = 0 THEN HeadNode
                        ELSE IF at[k - 1] \in {TailNode, NoNode} THEN NoNode
                        ELSE nxt[at[k - 1]]]
           at == CHOOSE f : f = F(f)
           w == [k \in 0..(NumBlocks + 1) |-> IF k =< Len(s) + 1 THEN At(s, k) ELSE NoNode]
<1>1. Walk(nxt) = [k \in 1..Cardinality({k \in DOMAIN at : at[k] \in BlockId}) |-> at[k]]
  BY DEF Walk
<1> HIDE DEF w
<1>2. /\ s \in Seq(BlockId) /\ IsInjective(s)
      /\ \A i \in 0..Len(s) : nxt[At(s, i)] = At(s, i + 1)
  BY DEF Threads
<1>3. /\ Len(s) \in Nat /\ Len(s) =< NumBlocks /\ NumBlocks \in Nat
      /\ \A i \in 0..(Len(s) + 1) : At(s, i) \in Node
      /\ \A i \in 1..Len(s) : s[i] \in BlockId /\ At(s, i) = s[i]
      /\ At(s, 0) = HeadNode /\ At(s, Len(s) + 1) = TailNode
      /\ \A i \in 0..(Len(s) + 1) : At(s, i) = TailNode => i = Len(s) + 1
  BY <1>2, Positions, ListLength, Nodes
<1>4. /\ w \in [0..(NumBlocks + 1) -> Node \cup {NoNode}]
      /\ \A k \in 0..(NumBlocks + 1) :
            w[k] = IF k =< Len(s) + 1 THEN At(s, k) ELSE NoNode
  BY <1>3 DEF w
<1>5. ASSUME NEW k \in 0..(NumBlocks + 1), k # 0
      PROVE  /\ k - 1 \in 0..(NumBlocks + 1)
             /\ w[k] = IF w[k - 1] \in {TailNode, NoNode} THEN NoNode ELSE nxt[w[k - 1]]
  <2>1. k - 1 \in 0..(NumBlocks + 1)
    BY <1>3, <1>5
  <2>2. CASE k =< Len(s) + 1
    <3>1. k - 1 \in 0..Len(s) /\ k - 1 \in 0..(Len(s) + 1) /\ k - 1 # Len(s) + 1 /\ (k - 1) + 1 = k
      BY <1>3, <1>5, <2>2
    <3>2. w[k - 1] = At(s, k - 1) /\ w[k] = At(s, k) /\ nxt[At(s, k - 1)] = At(s, k)
      BY <1>2, <1>3, <1>4, <2>1, <2>2, <3>1
    <3>3. At(s, k - 1) \notin {TailNode, NoNode}
      BY <1>3, <3>1, Nodes
    <3> QED BY <2>1, <3>2, <3>3
  <2>3. CASE k = Len(s) + 2
    BY <1>3, <1>4, <2>1, <2>3
  <2>4. CASE k > Len(s) + 2
    BY <1>3, <1>4, <2>1, <2>4
  <2> QED BY <1>3, <2>2, <2>3, <2>4
<1>6. w = F(w)
  BY <1>3, <1>4, <1>5
<1>7. at = F(at)
  BY <1>6
<1> HIDE DEF at
<1>8. \A k \in 0..(NumBlocks + 1) :
         at[k] = IF k = 0 THEN HeadNode
                 ELSE IF at[k - 1] \in {TailNode, NoNode} THEN NoNode
                 ELSE nxt[at[k - 1]]
  BY <1>7
<1>9. \A k \in 0..(NumBlocks + 1) : at[k] = w[k]
  <2>1. NumBlocks + 1 \in Nat /\ at[0] = w[0]
    BY <1>3, <1>4, <1>8
  <2>2. \A k \in 0..(NumBlocks + 1) : k # 0 /\ at[k - 1] = w[k - 1] => at[k] = w[k]
    BY <1>5, <1>8
  <2>3. SameSteps(at, w, NumBlocks + 1)
    BY <2>1, <2>2 DEF SameSteps
  <2> QED BY <2>1, <2>3, Agree
<1>10. DOMAIN at = 0..(NumBlocks + 1)
  BY <1>7
<1>11. {k \in DOMAIN at : at[k] \in BlockId} = 1..Len(s)
  <2>1. ASSUME NEW k \in 0..(NumBlocks + 1) PROVE w[k] \in BlockId <=> k \in 1..Len(s)
    BY <1>3, <1>4, Nodes
  <2>2. 1..Len(s) \subseteq 0..(NumBlocks + 1)
    BY <1>3
  <2> QED BY <1>9, <1>10, <2>1, <2>2
<1>12. Walk(nxt) = [k \in 1..Len(s) |-> at[k]]
  BY <1>1, <1>3, <1>11, IntervalSize
<1>13. \A k \in 1..Len(s) : at[k] = s[k]
  BY <1>3, <1>4, <1>9
<1> QED BY <1>2, <1>12, <1>13
-----------------------------------------------------------------------------
(* What each operation does to the list.                                   *)

\* Taking n blocks from the front threads the rest.
LEMMA TakeThreads ==
    ASSUME NEW nxt, NEW prv, NEW s, Threads(nxt, prv, s), NEW n \in 0..Len(s),
           NEW nn \in [Node -> Node \cup {NoNode}],
           NEW pp \in [Node -> Node \cup {NoNode}],
           \A k \in 1..n : nn[s[k]] = NoNode /\ pp[s[k]] = NoNode,
           nn[HeadNode] = At(s, n + 1), pp[At(s, n + 1)] = HeadNode,
           \A x \in Node : \/ \E k \in 1..n : x = s[k]
                           \/ /\ x = HeadNode \/ nn[x] = nxt[x]
                              /\ x = At(s, n + 1) \/ pp[x] = prv[x]
    PROVE  Threads(nn, pp, SubSeq(s, n + 1, Len(s)))
<1> DEFINE t == SubSeq(s, n + 1, Len(s))
           m == Len(s)
<1>1. /\ s \in Seq(BlockId) /\ IsInjective(s) /\ m \in Nat
      /\ \A i \in 0..m : nxt[At(s, i)] = At(s, i + 1) /\ prv[At(s, i + 1)] = At(s, i)
      /\ prv[HeadNode] = NoNode /\ nxt[TailNode] = NoNode
      /\ \A b \in BlockId \ ToSet(s) : prv[b] = NoNode /\ nxt[b] = NoNode
  BY DEF Threads
<1>2. /\ \A i \in 1..m : s[i] \in BlockId /\ At(s, i) = s[i]
      /\ At(s, 0) = HeadNode /\ At(s, m + 1) = TailNode
      /\ \A i \in 0..(m + 1) : At(s, i) \in Node
      /\ \A i, j \in 0..(m + 1) : At(s, i) = At(s, j) => i = j
      /\ \A b : b \in ToSet(s) <=> \E i \in 1..m : s[i] = b
  BY <1>1, Positions
<1>3. /\ t \in Seq(BlockId) /\ Len(t) = m - n
      /\ \A i \in 1..(m - n) : t[i] = s[n + i]
  BY <1>1, <1>2
<1>4. \A i \in 1..(m - n) : n + i \in 1..m
  BY <1>1
<1>5. IsInjective(t)
  BY <1>1, <1>3, <1>4 DEF IsInjective
<1>6. /\ At(t, 0) = HeadNode
      /\ \A i \in 1..(m - n + 1) : At(t, i) = At(s, n + i) /\ n + i \in 0..(m + 1)
  BY <1>1, <1>2, <1>3 DEF At
<1> HIDE DEF t, m
<1>7. \A b : b \in ToSet(t) <=> \E i \in 1..(m - n) : s[n + i] = b
  <2>1. \A b : b \in ToSet(t) <=> \E i \in 1..Len(t) : t[i] = b
    BY <1>3, <1>5, Positions
  <2> QED BY <1>3, <2>1
<1>8. ASSUME NEW i \in (n + 1)..(m + 1)
      PROVE  /\ \A k \in 1..n : At(s, i) # s[k]
             /\ At(s, i) # HeadNode
             /\ i # n + 1 => At(s, i) # At(s, n + 1)
             /\ At(s, i) \in Node
  <2>1. i \in 0..(m + 1) /\ n + 1 \in 0..(m + 1) /\ 0 \in 0..(m + 1) /\ i # 0
    BY <1>1 DEF m
  <2>2. \A k \in 1..n : k \in 0..(m + 1) /\ k \in 1..m /\ k # i
    BY <1>1 DEF m
  <2>3. \A k \in 1..n : At(s, k) = s[k]
    BY <1>2, <2>2
  <2>4. \A k \in 1..n : At(s, i) # s[k]
    BY <1>2, <2>1, <2>2, <2>3
  <2>5. At(s, i) # HeadNode
    BY <1>2, <2>1
  <2> QED BY <1>2, <2>1, <2>4, <2>5
<1>9. ASSUME NEW i \in 0..(m - n)
      PROVE  nn[At(t, i)] = At(t, i + 1) /\ pp[At(t, i + 1)] = At(t, i)
  <2>1. CASE i = 0
    <3>1. At(t, i + 1) = At(s, n + 1)
      BY <1>1, <1>6, <2>1
    <3> QED BY <1>6, <2>1, <3>1
  <2>2. CASE i # 0
    <3>1. /\ i \in 1..(m - n + 1) /\ i + 1 \in 1..(m - n + 1) /\ n + i \in 0..m
          /\ n + i \in (n + 1)..(m + 1) /\ n + (i + 1) = (n + i) + 1
          /\ (n + i) + 1 \in (n + 1)..(m + 1) /\ (n + i) + 1 # n + 1
      BY <1>1, <2>2
    <3>2. /\ At(t, i) = At(s, n + i) /\ At(t, i + 1) = At(s, (n + i) + 1)
          /\ nxt[At(s, n + i)] = At(s, (n + i) + 1) /\ prv[At(s, (n + i) + 1)] = At(s, n + i)
      BY <1>1, <1>6, <3>1
    <3>3. nn[At(s, n + i)] = nxt[At(s, n + i)]
      BY <1>8, <3>1
    <3>4. pp[At(s, (n + i) + 1)] = prv[At(s, (n + i) + 1)]
      BY <1>8, <3>1
    <3> QED BY <3>2, <3>3, <3>4
  <2> QED BY <2>1, <2>2
<1>10. pp[HeadNode] = NoNode /\ nn[TailNode] = NoNode
  <2>1. \A k \in 1..n : s[k] \notin {HeadNode, TailNode}
    BY <1>1, <1>2, Nodes DEF m
  <2>2. n + 1 \in 0..(m + 1) /\ n + 1 # 0
    BY <1>1 DEF m
  <2>3. HeadNode # At(s, n + 1)
    BY <1>1, <1>2, <2>2
  <2> QED BY <1>1, <2>1, <2>3, Nodes
<1>11. ASSUME NEW b \in BlockId \ ToSet(t) PROVE pp[b] = NoNode /\ nn[b] = NoNode
  <2>1. CASE \E k \in 1..n : b = s[k]
    BY <2>1
  <2>2. CASE ~ \E k \in 1..n : b = s[k]
    <3>1. ASSUME NEW i \in 1..m, s[i] = b PROVE FALSE
      <4>1. i - n \in 1..(m - n) /\ n + (i - n) = i
        BY <1>1, <2>2, <3>1 DEF m
      <4> QED BY <1>7, <3>1, <4>1
    <3>2. b \notin ToSet(s)
      BY <1>2, <3>1
    <3>3. b # HeadNode /\ b # At(s, n + 1) /\ b \in Node
      <4>1. n + 1 \in 1..m \/ n + 1 = m + 1
        BY <1>1 DEF m
      <4> QED BY <1>2, <3>1, <4>1, Nodes
    <3> QED BY <1>1, <2>2, <3>2, <3>3
  <2> QED BY <2>1, <2>2
<1>12. Threads(nn, pp, t)
  BY <1>3, <1>5, <1>9, <1>10, <1>11 DEF Threads
<1> QED BY <1>12 DEF t

\* Where the elements of a sequence go when one is removed.
LEMMA RemoveAtIs ==
    ASSUME NEW S, NEW s \in Seq(S), NEW j \in 1..Len(s)
    PROVE  /\ RemoveAt(s, j) \in Seq(S) /\ Len(RemoveAt(s, j)) = Len(s) - 1
           /\ \A i \in 1..(Len(s) - 1) : RemoveAt(s, j)[i] = IF i < j THEN s[i] ELSE s[i + 1]
<1> DEFINE a == SubSeq(s, 1, j - 1)
           c == SubSeq(s, j + 1, Len(s))
           t == a \o c
<1>0. Len(s) \in Nat /\ j \in Nat
  OBVIOUS
<1>1. /\ a \in Seq(S) /\ Len(a) = j - 1
      /\ \A i \in 1..(j - 1) : a[i] = s[i]
  OBVIOUS
<1>2. /\ c \in Seq(S) /\ Len(c) = Len(s) - j
      /\ \A i \in 1..(Len(s) - j) : c[i] = s[j + i]
  OBVIOUS
<1>3. RemoveAt(s, j) = t
  BY DEF RemoveAt
<1> HIDE DEF a, c
<1>4. /\ t \in Seq(S) /\ Len(t) = Len(a) + Len(c)
      /\ \A i \in 1..(Len(a) + Len(c)) : t[i] = IF i =< Len(a) THEN a[i] ELSE c[i - Len(a)]
  BY <1>1, <1>2, ConcatProperties
<1> HIDE DEF t
<1>5. ASSUME NEW i \in 1..(Len(s) - 1) PROVE t[i] = IF i < j THEN s[i] ELSE s[i + 1]
  <2>0. i \in 1..(Len(a) + Len(c)) /\ (i =< Len(a) <=> i < j)
    BY <1>0, <1>1, <1>2
  <2>1. CASE i < j
    <3>1. i \in 1..(j - 1)
      BY <1>0, <2>1
    <3> QED BY <1>1, <1>4, <2>0, <2>1, <3>1
  <2>2. CASE ~(i < j)
    <3>1. i - (j - 1) \in 1..(Len(s) - j) /\ j + (i - (j - 1)) = i + 1
      BY <1>0, <2>2
    <3>2. t[i] = c[i - (j - 1)]
      BY <1>1, <1>4, <2>0, <2>2
    <3>3. c[i - (j - 1)] = s[i + 1]
      BY <1>2, <3>1
    <3> QED BY <2>2, <3>2, <3>3
  <2> QED BY <2>1, <2>2
<1>6. Len(t) = Len(s) - 1
  BY <1>0, <1>1, <1>2, <1>4
<1> QED BY <1>3, <1>4, <1>5, <1>6

\* Unlinking the j-th block threads the others.
LEMMA RemoveThreads ==
    ASSUME NEW nxt, NEW prv, NEW s, Threads(nxt, prv, s), NEW j \in 1..Len(s),
           NEW nn, nn = [nxt EXCEPT ![prv[s[j]]] = nxt[s[j]], ![s[j]] = NoNode],
           NEW pp, pp = [prv EXCEPT ![nxt[s[j]]] = prv[s[j]], ![s[j]] = NoNode]
    PROVE  Threads(nn, pp, RemoveAt(s, j)) /\ Len(RemoveAt(s, j)) = Len(s) - 1
<1> DEFINE t == RemoveAt(s, j)
           m == Len(s)
<1>1. /\ s \in Seq(BlockId) /\ IsInjective(s) /\ m \in Nat
      /\ nxt \in [Node -> Node \cup {NoNode}] /\ prv \in [Node -> Node \cup {NoNode}]
      /\ \A i \in 0..m : nxt[At(s, i)] = At(s, i + 1) /\ prv[At(s, i + 1)] = At(s, i)
      /\ prv[HeadNode] = NoNode /\ nxt[TailNode] = NoNode
      /\ \A b \in BlockId \ ToSet(s) : prv[b] = NoNode /\ nxt[b] = NoNode
  BY DEF Threads
<1>2. /\ \A i \in 1..m : s[i] \in BlockId /\ At(s, i) = s[i]
      /\ At(s, 0) = HeadNode /\ At(s, m + 1) = TailNode
      /\ \A i \in 0..(m + 1) : At(s, i) \in Node
      /\ \A i, k \in 0..(m + 1) : At(s, i) = At(s, k) => i = k
      /\ \A b : b \in ToSet(s) <=> \E i \in 1..m : s[i] = b
  BY <1>1, Positions
<1>3. /\ t \in Seq(BlockId) /\ Len(t) = m - 1
      /\ \A i \in 1..(m - 1) : t[i] = IF i < j THEN s[i] ELSE s[i + 1]
  BY <1>1, RemoveAtIs
<1> HIDE DEF t
<1>4. /\ \A i \in 0..m : At(t, i) = IF i < j THEN At(s, i) ELSE At(s, i + 1)
      /\ \A i \in 0..m : i \in 0..(m + 1) /\ i + 1 \in 0..(m + 1)
  BY <1>1, <1>2, <1>3 DEF At
<1>5. IsInjective(t)
  <2>1. DOMAIN t = 1..(m - 1)
    BY <1>1, <1>3
  <2>2. \A i \in 1..(m - 1) : i \in 1..m /\ i + 1 \in 1..m
    BY <1>1
  <2>3. \A i, k \in 1..m : s[i] = s[k] => i = k
    BY <1>1 DEF IsInjective
  <2> QED BY <1>3, <2>1, <2>2, <2>3 DEF IsInjective
<1>6. \A b : b \in ToSet(t) <=> \E i \in 1..(m - 1) : t[i] = b
  BY <1>3, <1>5, Positions
<1>7. /\ j - 1 \in 0..m /\ j \in 0..m /\ (j - 1) + 1 = j
      /\ prv[s[j]] = At(s, j - 1) /\ nxt[s[j]] = At(s, j + 1) /\ At(s, j) = s[j]
      /\ j - 1 \in 0..(m + 1) /\ j + 1 \in 0..(m + 1) /\ j \in 0..(m + 1)
  <2>1. j - 1 \in 0..m /\ j \in 0..m /\ (j - 1) + 1 = j /\ j \in 1..m
    BY <1>1
  <2>2. j - 1 \in 0..(m + 1) /\ j + 1 \in 0..(m + 1) /\ j \in 0..(m + 1)
    BY <1>1
  <2> QED BY <1>1, <1>2, <2>1, <2>2
<1>8. /\ nn \in [Node -> Node \cup {NoNode}] /\ pp \in [Node -> Node \cup {NoNode}]
      /\ \A x \in Node : nn[x] = IF x = At(s, j) THEN NoNode
                                 ELSE IF x = At(s, j - 1) THEN At(s, j + 1) ELSE nxt[x]
      /\ \A x \in Node : pp[x] = IF x = At(s, j) THEN NoNode
                                 ELSE IF x = At(s, j + 1) THEN At(s, j - 1) ELSE prv[x]
  BY <1>1, <1>2, <1>7
<1> HIDE DEF m
<1>9. ASSUME NEW i \in 0..(m + 1), i # j
      PROVE  /\ nn[At(s, i)] = IF i = j - 1 THEN At(s, j + 1) ELSE nxt[At(s, i)]
             /\ pp[At(s, i)] = IF i = j + 1 THEN At(s, j - 1) ELSE prv[At(s, i)]
  <2>1. /\ At(s, i) \in Node /\ At(s, i) # At(s, j)
        /\ At(s, i) = At(s, j - 1) <=> i = j - 1
        /\ At(s, i) = At(s, j + 1) <=> i = j + 1
    BY <1>2, <1>7, <1>9
  <2> QED BY <1>8, <2>1
<1>10. ASSUME NEW i \in 0..(m - 1)
       PROVE  nn[At(t, i)] = At(t, i + 1) /\ pp[At(t, i + 1)] = At(t, i)
  <2>0. i \in 0..m /\ i + 1 \in 0..m /\ (i + 1) + 1 = i + 2 /\ i + 2 \in 0..(m + 1)
        /\ i \in 0..(m + 1) /\ i + 1 \in 0..(m + 1)
    BY <1>1
  <2>1. /\ At(t, i) = IF i < j THEN At(s, i) ELSE At(s, i + 1)
        /\ At(t, i + 1) = IF i + 1 < j THEN At(s, i + 1) ELSE At(s, i + 2)
        /\ nxt[At(s, i)] = At(s, i + 1) /\ prv[At(s, i + 1)] = At(s, i)
        /\ nxt[At(s, i + 1)] = At(s, i + 2) /\ prv[At(s, i + 2)] = At(s, i + 1)
    BY <1>1, <1>4, <2>0
  <2>2. CASE i + 1 < j
    <3>1. i # j /\ i # j - 1 /\ i + 1 # j /\ i + 1 # j + 1 /\ i < j
      BY <2>2
    <3> QED BY <1>9, <2>0, <2>1, <2>2, <3>1
  <2>3. CASE i + 1 = j
    <3>1. i # j /\ i = j - 1 /\ i + 2 # j /\ i + 2 = j + 1 /\ i < j /\ ~(i + 1 < j)
      BY <2>3
    <3> QED BY <1>9, <2>0, <2>1, <3>1
  <2>4. CASE i + 1 > j
    <3>1. i + 1 # j /\ i + 1 # j - 1 /\ i + 2 # j /\ i + 2 # j + 1 /\ ~(i < j) /\ ~(i + 1 < j)
      BY <2>4
    <3> QED BY <1>9, <2>0, <2>1, <3>1
  <2> QED BY <1>1, <2>2, <2>3, <2>4
<1>11. pp[HeadNode] = NoNode /\ nn[TailNode] = NoNode
  <2>1. 0 \in 0..(m + 1) /\ m + 1 \in 0..(m + 1) /\ 0 # j /\ 0 # j + 1
        /\ m + 1 # j /\ m + 1 # j - 1
    BY <1>1 DEF m
  <2> QED BY <1>1, <1>2, <1>9, <2>1
<1>12. ASSUME NEW b \in BlockId \ ToSet(t) PROVE pp[b] = NoNode /\ nn[b] = NoNode
  <2>1. b \in Node /\ b # HeadNode /\ b # TailNode
    BY Nodes
  <2>2. CASE b = s[j]
    BY <1>7, <1>8, <2>1, <2>2
  <2>3. CASE b # s[j]
    <3>1. ASSUME NEW i \in 1..m, s[i] = b PROVE FALSE
      <4>1. i # j /\ i \in 1..m
        BY <2>3, <3>1
      <4>2. CASE i < j
        <5>1. i \in 1..(m - 1)
          BY <1>1, <4>2 DEF m
        <5> QED BY <1>3, <1>6, <3>1, <4>2, <5>1
      <4>3. CASE i > j
        <5>1. i - 1 \in 1..(m - 1) /\ ~(i - 1 < j) /\ (i - 1) + 1 = i
          BY <1>1, <4>3 DEF m
        <5> QED BY <1>3, <1>6, <3>1, <5>1
      <4> QED BY <4>1, <4>2, <4>3
    <3>2. b \notin ToSet(s)
      BY <1>2, <3>1
    <3>3. \A i \in 0..(m + 1) : i = 0 \/ i \in 1..m \/ i = m + 1
      BY <1>1
    <3>4. \A i \in 0..(m + 1) : At(s, i) # b
      BY <1>2, <2>1, <3>1, <3>3
    <3> QED BY <1>1, <1>7, <1>8, <2>1, <3>2, <3>4
  <2> QED BY <2>2, <2>3
<1>13. Threads(nn, pp, t)
  BY <1>3, <1>5, <1>8, <1>10, <1>11, <1>12 DEF Threads
<1> QED BY <1>3, <1>13 DEF t, m

\* The i-th node of the blocks r between two neighbours.
Link(left, r, right, i) == IF i = 0 THEN left ELSE IF i = Len(r) + 1 THEN right ELSE r[i]

\* The pointers nn and pp are nxt and prv with r linked between neighbours.
Spliced(nxt, prv, nn, pp, left, r, right) ==
    /\ nn \in [Node -> Node \cup {NoNode}] /\ pp \in [Node -> Node \cup {NoNode}]
    /\ \A i \in 0..Len(r) : /\ nn[Link(left, r, right, i)] = Link(left, r, right, i + 1)
                            /\ pp[Link(left, r, right, i + 1)] = Link(left, r, right, i)
    /\ \A x \in Node \ ToSet(r) : /\ x = left \/ nn[x] = nxt[x]
                                  /\ x = right \/ pp[x] = prv[x]

\* The list t is s with r behind its q-th block.
Inserted(s, q, r, t) ==
    /\ t \in Seq(BlockId) /\ Len(t) = Len(s) + Len(r)
    /\ \A i \in 1..q : t[i] = s[i]
    /\ \A i \in 1..Len(r) : t[q + i] = r[i]
    /\ \A i \in (q + 1)..Len(s) : t[Len(r) + i] = s[i]

\* Linking r behind the q-th node of the list threads r in between.
LEMMA InsertThreads ==
    ASSUME NEW nxt, NEW prv, NEW s, Threads(nxt, prv, s), NEW q \in 0..Len(s),
           NEW r \in Seq(BlockId), IsInjective(r), ToSet(r) \cap ToSet(s) = {},
           NEW nn, NEW pp, Spliced(nxt, prv, nn, pp, At(s, q), r, At(s, q + 1)),
           NEW t, Inserted(s, q, r, t)
    PROVE  Threads(nn, pp, t)
<1> DEFINE m == Len(s)
           n == Len(r)
           left == At(s, q)
           right == At(s, q + 1)
<1>1. /\ s \in Seq(BlockId) /\ IsInjective(s) /\ m \in Nat
      /\ \A i \in 0..m : nxt[At(s, i)] = At(s, i + 1) /\ prv[At(s, i + 1)] = At(s, i)
      /\ prv[HeadNode] = NoNode /\ nxt[TailNode] = NoNode
      /\ \A b \in BlockId \ ToSet(s) : prv[b] = NoNode /\ nxt[b] = NoNode
  BY DEF Threads
<1>2. /\ \A i \in 1..m : s[i] \in BlockId /\ At(s, i) = s[i]
      /\ At(s, 0) = HeadNode /\ At(s, m + 1) = TailNode
      /\ \A i \in 0..(m + 1) : At(s, i) \in Node
      /\ \A i, k \in 0..(m + 1) : At(s, i) = At(s, k) => i = k
      /\ \A b : b \in ToSet(s) <=> \E i \in 1..m : s[i] = b
  BY <1>1, Positions
<1>3. /\ n \in Nat /\ \A i \in 1..n : r[i] \in BlockId
      /\ \A i, k \in 1..n : r[i] = r[k] => i = k
      /\ \A b : b \in ToSet(r) <=> \E i \in 1..n : r[i] = b
  BY Positions DEF IsInjective
<1>4. /\ nn \in [Node -> Node \cup {NoNode}] /\ pp \in [Node -> Node \cup {NoNode}]
      /\ \A i \in 0..n : /\ nn[Link(left, r, right, i)] = Link(left, r, right, i + 1)
                         /\ pp[Link(left, r, right, i + 1)] = Link(left, r, right, i)
      /\ \A x \in Node \ ToSet(r) : /\ x = left \/ nn[x] = nxt[x]
                                    /\ x = right \/ pp[x] = prv[x]
  BY DEF Spliced
<1>5. m \in Nat /\ n \in Nat /\ q \in Nat /\ q =< m /\ q \in 0..(m + 1) /\ q + 1 \in 0..(m + 1)
  BY <1>1, <1>3
<1> HIDE DEF m, n
<1>6. /\ t \in Seq(BlockId) /\ Len(t) = m + n
      /\ \A i \in 1..(m + n) : /\ i =< q => i \in 1..m /\ i \in 1..q
                               /\ q < i /\ i =< q + n => i - q \in 1..n /\ q + (i - q) = i
                               /\ q + n < i => i - n \in (q + 1)..m /\ n + (i - n) = i
  BY <1>5 DEF m, n, Inserted
<1>7. /\ \A i \in 1..q : t[i] = s[i]
      /\ \A i \in 1..n : t[q + i] = r[i]
      /\ \A i \in (q + 1)..m : t[n + i] = s[i]
  BY DEF m, n, Inserted
<1>8. ASSUME NEW i \in 1..(m + n)
      PROVE  /\ i =< q => t[i] = s[i]
             /\ q < i /\ i =< q + n => t[i] = r[i - q]
             /\ q + n < i => t[i] = s[i - n]
  BY <1>6, <1>7
<1> DEFINE Place(i) == IF i =< q THEN i ELSE i - n
<1>9. /\ \A i \in 0..q : At(t, i) = At(s, i)
      /\ \A i \in 1..n : At(t, q + i) = r[i]
      /\ \A i \in (q + n + 1)..(m + n + 1) : At(t, i) = At(s, i - n) /\ i - n \in 0..(m + 1)
  <2>1. ASSUME NEW i \in 0..q PROVE At(t, i) = At(s, i)
    <3>1. i = 0 \/ (i \in 1..(m + n) /\ i =< q /\ i \in 1..m /\ i # m + n + 1)
      BY <1>5
    <3> QED BY <1>2, <1>6, <1>8, <3>1 DEF At
  <2>2. ASSUME NEW i \in 1..n PROVE At(t, q + i) = r[i]
    <3>1. q + i # 0 /\ q + i # m + n + 1
      BY <1>5
    <3> QED BY <1>6, <1>7, <3>1 DEF At
  <2>3. ASSUME NEW i \in (q + n + 1)..(m + n + 1)
        PROVE  At(t, i) = At(s, i - n) /\ i - n \in 0..(m + 1)
    <3>1. /\ i - n \in 0..(m + 1) /\ i # 0
          /\ \/ i = m + n + 1 /\ i - n = m + 1
             \/ i \in 1..(m + n) /\ q + n < i /\ i # m + n + 1 /\ i - n \in 1..m
      BY <1>5
    <3> QED BY <1>2, <1>6, <1>8, <3>1 DEF At
  <2> QED BY <2>1, <2>2, <2>3
<1>10. \A i \in 1..m, k \in 1..n : s[i] # r[k]
  BY <1>2, <1>3
<1>11. IsInjective(t)
  <2> SUFFICES ASSUME NEW i \in 1..(m + n), NEW k \in 1..(m + n), t[i] = t[k] PROVE i = k
    BY <1>6 DEF IsInjective
  <2>1. \A a, b \in 1..m : s[a] = s[b] => a = b
    BY <1>1 DEF IsInjective, m
  <2>2. ASSUME NEW l \in 1..(m + n), ~(q < l /\ l =< q + n)
        PROVE  Place(l) \in 1..m /\ t[l] = s[Place(l)]
    <3>1. l =< q \/ q + n < l
      BY <1>5, <2>2
    <3>2. l - n \in (q + 1)..m => l - n \in 1..m
      BY <1>5
    <3>3. q + n < l => ~(l =< q)
      BY <1>5
    <3> QED BY <1>6, <1>8, <3>1, <3>2, <3>3
  <2>3. CASE q < i /\ i =< q + n
    <3>1. q < k /\ k =< q + n
      <4> SUFFICES ASSUME ~(q < k /\ k =< q + n) PROVE FALSE
        OBVIOUS
      <4>1. i - q \in 1..n /\ t[i] = r[i - q]
        BY <1>6, <1>8, <2>3
      <4> HIDE DEF Place
      <4>2. Place(k) \in 1..m /\ t[k] = s[Place(k)]
        BY <2>2
      <4> QED BY <1>10, <4>1, <4>2
    <3>2. i - q = k - q
      BY <1>3, <1>6, <1>8, <2>3, <3>1
    <3> QED BY <1>5, <3>2
  <2>4. CASE ~(q < i /\ i =< q + n)
    <3>1. ~(q < k /\ k =< q + n)
      <4> SUFFICES ASSUME q < k /\ k =< q + n PROVE FALSE
        OBVIOUS
      <4>1. k - q \in 1..n /\ t[k] = r[k - q]
        BY <1>6, <1>8
      <4> HIDE DEF Place
      <4>2. Place(i) \in 1..m /\ t[i] = s[Place(i)]
        BY <2>2, <2>4
      <4> QED BY <1>10, <4>1, <4>2
    <3>2. Place(i) = Place(k)
      <4> HIDE DEF Place
      <4> QED BY <2>1, <2>2, <2>4, <3>1
    <3>3. (i =< q \/ q + n < i) /\ (k =< q \/ q + n < k)
      BY <1>5, <2>4, <3>1
    <3> QED BY <1>5, <3>2, <3>3
  <2> QED BY <2>3, <2>4
<1>12. ASSUME NEW i \in 0..(m + 1)
       PROVE  /\ At(s, i) \in Node /\ At(s, i) \notin ToSet(r)
              /\ i # q => nn[At(s, i)] = nxt[At(s, i)]
              /\ i # q + 1 => pp[At(s, i)] = prv[At(s, i)]
  <2>1. At(s, i) \notin ToSet(r)
    <3>1. i = 0 \/ i \in 1..m \/ i = m + 1
      BY <1>5
    <3> QED BY <1>2, <1>3, <1>10, <3>1, Nodes
  <2>2. /\ At(s, i) \in Node
        /\ i # q => At(s, i) # left
        /\ i # q + 1 => At(s, i) # right
    BY <1>2, <1>5
  <2> HIDE DEF left, right
  <2> QED BY <1>4, <2>1, <2>2
<1>13. ASSUME NEW j \in 0..(n + 1) PROVE At(t, q + j) = Link(left, r, right, j)
  <2>1. CASE j = 0
    BY <1>5, <1>9, <2>1 DEF Link
  <2>2. CASE j \in 1..n
    <3>1. j # 0 /\ j # n + 1
      BY <1>5, <2>2
    <3> QED BY <1>9, <2>2, <3>1 DEF Link, n
  <2>3. CASE j = n + 1
    <3>1. j # 0 /\ q + j \in (q + n + 1)..(m + n + 1) /\ (q + j) - n = q + 1
      BY <1>5, <2>3
    <3> QED BY <1>9, <2>3, <3>1 DEF Link, n
  <2> QED BY <1>5, <2>1, <2>2, <2>3
<1>14. ASSUME NEW i \in 0..(m + n)
       PROVE  nn[At(t, i)] = At(t, i + 1) /\ pp[At(t, i + 1)] = At(t, i)
  <2>1. CASE i < q
    <3>1. /\ i \in 0..q /\ i + 1 \in 0..q /\ i \in 0..m /\ i # q /\ i + 1 # q + 1
          /\ i \in 0..(m + 1) /\ i + 1 \in 0..(m + 1)
      BY <1>5, <2>1
    <3> QED BY <1>1, <1>9, <1>12, <3>1
  <2>2. CASE q =< i /\ i =< q + n
    <3>1. /\ i - q \in 0..n /\ i - q \in 0..(n + 1) /\ (i - q) + 1 \in 0..(n + 1)
          /\ q + (i - q) = i /\ q + ((i - q) + 1) = i + 1
      BY <1>5, <2>2
    <3>2. At(t, i) = Link(left, r, right, i - q)
      BY <1>13, <3>1
    <3>3. At(t, i + 1) = Link(left, r, right, (i - q) + 1)
      BY <1>13, <3>1
    <3> HIDE DEF left, right
    <3> QED BY <1>4, <3>1, <3>2, <3>3
  <2>3. CASE q + n < i
    <3>0. i \in (q + n + 1)..(m + n + 1) /\ i + 1 \in (q + n + 1)..(m + n + 1)
      BY <1>5, <2>3
    <3>1. /\ i - n \in 0..m /\ (i + 1) - n = (i - n) + 1
          /\ i - n # q /\ (i - n) + 1 # q + 1
          /\ i - n \in 0..(m + 1) /\ (i - n) + 1 \in 0..(m + 1)
      BY <1>5, <2>3
    <3>2. At(t, i) = At(s, i - n) /\ At(t, i + 1) = At(s, (i - n) + 1)
      BY <1>9, <3>0, <3>1
    <3> QED BY <1>1, <1>12, <3>1, <3>2
  <2> QED BY <1>5, <2>1, <2>2, <2>3
<1>15. pp[HeadNode] = NoNode /\ nn[TailNode] = NoNode
  <2>1. 0 \in 0..(m + 1) /\ m + 1 \in 0..(m + 1) /\ 0 # q + 1 /\ m + 1 # q
    BY <1>5
  <2> QED BY <1>1, <1>2, <1>12, <2>1
<1>16. ASSUME NEW b \in BlockId \ ToSet(t) PROVE pp[b] = NoNode /\ nn[b] = NoNode
  <2>1. \A i \in 1..(m + n) : t[i] # b
    BY <1>6, <1>11, Positions
  <2>2. \A i \in 1..m : s[i] # b
    <3> TAKE i \in 1..m
    <3>1. CASE i =< q
      <4>1. i \in 1..q /\ i \in 1..(m + n)
        BY <1>5, <3>1
      <4> QED BY <1>7, <2>1, <4>1
    <3>2. CASE q < i
      <4>1. i \in (q + 1)..m /\ n + i \in 1..(m + n)
        BY <1>5, <3>2
      <4> QED BY <1>7, <2>1, <4>1
    <3> QED BY <1>5, <3>1, <3>2
  <2>3. \A i \in 1..n : r[i] # b
    <3> TAKE i \in 1..n
    <3>1. q + i \in 1..(m + n)
      BY <1>5
    <3> QED BY <1>7, <2>1, <3>1
  <2>4. b \notin ToSet(s) /\ b \notin ToSet(r) /\ b \in Node
    BY <1>2, <1>3, <2>2, <2>3, Nodes
  <2>5. b # left /\ b # right
    <3>1. \A i \in 0..(m + 1) : i = 0 \/ i \in 1..m \/ i = m + 1
      BY <1>5
    <3> QED BY <1>2, <1>5, <2>2, <3>1, Nodes
  <2> HIDE DEF left, right
  <2> QED BY <1>1, <1>4, <2>4, <2>5
<1> QED BY <1>4, <1>6, <1>11, <1>14, <1>15, <1>16 DEF Threads

\* Splice links the blocks r between its two nodes and leaves the rest.
LEMMA SpliceIs ==
    ASSUME next \in [Node -> Node \cup {NoNode}], prev \in [Node -> Node \cup {NoNode}],
           NEW left \in Node, NEW right \in Node, left # right,
           NEW r \in Seq(BlockId), IsInjective(r), left \notin ToSet(r), right \notin ToSet(r),
           Splice(left, r, right)
    PROVE  Spliced(next, prev, next', prev', left, r, right)
<1> DEFINE n == Len(r)
           L(i) == Link(left, r, right, i)
           chain == <<left>> \o r \o <<right>>
           Pos(x) == CHOOSE i \in DOMAIN chain : chain[i] = x
<1>1. /\ n \in Nat /\ \A i \in 1..n : r[i] \in Node
      /\ \A i, k \in 1..n : r[i] = r[k] => i = k
      /\ \A b : b \in ToSet(r) <=> \E i \in 1..n : r[i] = b
      /\ \A b : b \in ToSet(r) <=> Contains(r, b)
  BY Positions, Nodes DEF IsInjective, Contains
<1>2. /\ L(0) = left /\ L(n + 1) = right /\ \A i \in 1..n : L(i) = r[i]
      /\ \A i \in 0..(n + 1) : i = 0 \/ i \in 1..n \/ i = n + 1
  BY <1>1 DEF Link
<1>3. chain \in Seq(Node) /\ Len(chain) = n + 2 /\ \A i \in 0..(n + 1) : chain[i + 1] = L(i)
  <2> DEFINE a == <<left>> \o r
  <2>1. r \in Seq(Node) /\ <<left>> \in Seq(Node) /\ <<right>> \in Seq(Node)
        /\ Len(<<left>>) = 1 /\ Len(<<right>>) = 1 /\ <<left>>[1] = left /\ <<right>>[1] = right
    BY <1>1
  <2>2. /\ a \in Seq(Node) /\ Len(a) = 1 + n /\ a[1] = left
        /\ \A i \in 1..n : a[i + 1] = r[i]
    BY <1>1, <2>1, ConcatProperties
  <2> HIDE DEF a
  <2>3. chain = a \o <<right>>
    BY DEF a
  <2>4. /\ chain \in Seq(Node) /\ Len(chain) = n + 2 /\ chain[n + 2] = right
        /\ \A i \in 1..(n + 1) : chain[i] = a[i]
    BY <1>1, <2>1, <2>2, <2>3, ConcatProperties
  <2> HIDE DEF chain, L, n
  <2>5. ASSUME NEW i \in 0..(n + 1) PROVE chain[i + 1] = L(i)
    <3>1. i \in 0..n => i + 1 \in 1..(n + 1)
      BY <1>1
    <3>2. CASE i = 0
      BY <1>1, <1>2, <2>2, <2>4, <3>2
    <3>3. CASE i \in 1..n
      <4>1. i + 1 \in 1..(n + 1)
        BY <1>1, <3>3
      <4> QED BY <1>2, <2>2, <2>4, <3>3, <4>1
    <3>4. CASE i = n + 1
      <4>1. i + 1 = n + 2
        BY <1>1, <3>4
      <4> QED BY <1>2, <2>4, <3>4, <4>1
    <3> QED BY <1>2, <3>2, <3>3, <3>4
  <2> QED BY <2>4, <2>5
<1>4. \A i, k \in 0..(n + 1) : L(i) = L(k) => i = k
  <2> HIDE DEF L, n
  <2> QED BY <1>1, <1>2
<1>5. \A i \in 0..(n + 1) : L(i) \in Node
  <2> HIDE DEF L, n
  <2> QED BY <1>1, <1>2
<1>6. /\ next' = [x \in Node |-> IF x = left \/ Contains(r, x) THEN chain[Pos(x) + 1] ELSE next[x]]
      /\ prev' = [x \in Node |-> IF x = right \/ Contains(r, x) THEN chain[Pos(x) - 1] ELSE prev[x]]
  BY DEF Splice
<1> HIDE DEF chain, L, n
<1>7. ASSUME NEW i \in 0..(n + 1) PROVE Pos(L(i)) = i + 1
  <2>1. DOMAIN chain = 1..(n + 2)
    BY <1>1, <1>3
  <2>2. i + 1 \in 1..(n + 2) /\ chain[i + 1] = L(i)
    BY <1>1, <1>3
  <2>3. ASSUME NEW k \in 1..(n + 2), chain[k] = L(i) PROVE k = i + 1
    <3>1. k - 1 \in 0..(n + 1) /\ (k - 1) + 1 = k
      BY <1>1
    <3>2. L(k - 1) = L(i)
      BY <1>3, <2>3, <3>1
    <3>3. k - 1 = i
      BY <1>4, <3>1, <3>2
    <3> QED BY <3>1, <3>3
  <2> QED BY <2>1, <2>2, <2>3
<1> HIDE DEF Pos
<1>8. ASSUME NEW i \in 0..n
      PROVE  next'[L(i)] = L(i + 1) /\ prev'[L(i + 1)] = L(i)
  <2>1. /\ i \in 0..(n + 1) /\ i + 1 \in 0..(n + 1)
        /\ (i = 0 \/ i \in 1..n) /\ (i + 1 = n + 1 \/ i + 1 \in 1..n)
        /\ ((i + 1) + 1) - 1 = i + 1 /\ (i + 1) + 1 = i + 2
    BY <1>1
  <2>2. L(i) = left \/ Contains(r, L(i))
    BY <1>1, <1>2, <2>1
  <2>3. L(i + 1) = right \/ Contains(r, L(i + 1))
    BY <1>1, <1>2, <2>1
  <2>4. next'[L(i)] = chain[Pos(L(i)) + 1]
    BY <1>5, <1>6, <2>1, <2>2
  <2>5. prev'[L(i + 1)] = chain[Pos(L(i + 1)) - 1]
    BY <1>5, <1>6, <2>1, <2>3
  <2>6. Pos(L(i)) = i + 1 /\ Pos(L(i + 1)) = (i + 1) + 1
    BY <1>7, <2>1
  <2>7. next'[L(i)] = chain[(i + 1) + 1] /\ prev'[L(i + 1)] = chain[i + 1]
    BY <2>1, <2>4, <2>5, <2>6
  <2> QED BY <1>3, <2>1, <2>7
<1>9. next' \in [Node -> Node \cup {NoNode}] /\ prev' \in [Node -> Node \cup {NoNode}]
  <2>1. ASSUME NEW x \in Node, x = left \/ Contains(r, x)
        PROVE  chain[Pos(x) + 1] \in Node
    <3>1. PICK i \in 0..n : x = L(i)
      BY <1>1, <1>2, <2>1
    <3>2. i \in 0..(n + 1) /\ i + 1 \in 0..(n + 1)
      BY <1>1
    <3> QED BY <1>3, <1>5, <1>7, <3>1, <3>2
  <2>2. ASSUME NEW x \in Node, x = right \/ Contains(r, x)
        PROVE  chain[Pos(x) - 1] \in Node
    <3>1. PICK i \in 1..(n + 1) : x = L(i)
      BY <1>1, <1>2, <2>2
    <3>2. i \in 0..(n + 1) /\ i - 1 \in 0..(n + 1) /\ (i + 1) - 1 = (i - 1) + 1
      BY <1>1
    <3> QED BY <1>3, <1>5, <1>7, <3>1, <3>2
  <2> QED BY <1>6, <2>1, <2>2
<1>10. ASSUME NEW x \in Node \ ToSet(r)
       PROVE  /\ x = left \/ next'[x] = next[x]
              /\ x = right \/ prev'[x] = prev[x]
  BY <1>1, <1>6
<1> QED BY <1>8, <1>9, <1>10 DEF Spliced, L, n
-----------------------------------------------------------------------------
(* The steps.                                                              *)

\* The step of FreeBlockList from the list s to the list t.
ListStep(s, t) ==
    \/ \E n \in 0..NumBlocks : /\ n =< Len(s)
                               /\ t = SubSeq(s, n + 1, Len(s))
                               /\ call' = Call("take", n, SubSeq(s, 1, n))
    \/ \E b \in BlockId : \E i \in DOMAIN s : /\ s[i] = b
                                              /\ t = RemoveAt(s, i)
                                              /\ call' = Call("remove", b, <<>>)
    \/ \E r \in {r \in BoundedSeq(BlockId \ ToSet(s), NumBlocks) : IsInjective(r)} :
          \/ t = r \o s /\ call' = Call("prepend", r, <<>>)
          \/ t = s \o r /\ call' = Call("append", r, <<>>)

\* What a list that has become t after s must show.
Becomes(s, t) == ListStep(s, t) /\ Threads(next', prev', t) /\ num' = Len(t)

\* A block has pointers when it is in the list.
LEMMA LinkedIs ==
    ASSUME NEW s, Threads(next, prev, s)
    PROVE  /\ \A b \in BlockId : Linked(b) <=> b \in ToSet(s)
           /\ {b \in BlockId : ~Linked(b)} = BlockId \ ToSet(s)
<1>1. /\ s \in Seq(BlockId) /\ IsInjective(s)
      /\ \A i \in 0..Len(s) : next[At(s, i)] = At(s, i + 1) /\ prev[At(s, i + 1)] = At(s, i)
      /\ \A b \in BlockId \ ToSet(s) : prev[b] = NoNode /\ next[b] = NoNode
  BY DEF Threads
<1>2. /\ Len(s) \in Nat /\ \A i \in 1..Len(s) : At(s, i) = s[i]
      /\ \A i \in 0..(Len(s) + 1) : At(s, i) \in Node
      /\ \A b : b \in ToSet(s) <=> \E i \in 1..Len(s) : s[i] = b
  BY <1>1, Positions
<1>3. ASSUME NEW b \in BlockId, b \in ToSet(s) PROVE Linked(b)
  <2>1. PICK i \in 1..Len(s) : s[i] = b
    BY <1>2, <1>3
  <2>2. /\ i \in 0..Len(s) /\ i - 1 \in 0..Len(s) /\ (i - 1) + 1 = i
        /\ i + 1 \in 0..(Len(s) + 1) /\ i - 1 \in 0..(Len(s) + 1)
    BY <1>2
  <2>3. next[b] = At(s, i + 1) /\ prev[b] = At(s, i - 1)
    BY <1>1, <1>2, <2>1, <2>2
  <2> QED BY <1>2, <2>2, <2>3, Nodes DEF Linked
<1>4. ASSUME NEW b \in BlockId, b \notin ToSet(s) PROVE ~Linked(b)
  BY <1>1, <1>4 DEF Linked
<1> QED BY <1>3, <1>4

\* popleft takes the block in front.
LEMMA PopleftStep ==
    ASSUME NEW s, Threads(next, prev, s), num = Len(s), Popleft
    PROVE  \E t : Becomes(s, t)
<1> DEFINE t == SubSeq(s, 2, Len(s))
<1>1. /\ s \in Seq(BlockId) /\ IsInjective(s)
      /\ next \in [Node -> Node \cup {NoNode}] /\ prev \in [Node -> Node \cup {NoNode}]
      /\ \A i \in 0..Len(s) : next[At(s, i)] = At(s, i + 1)
  BY DEF Threads
<1>2. /\ Len(s) \in Nat /\ \A i \in 1..Len(s) : At(s, i) = s[i] /\ s[i] \in BlockId
      /\ At(s, 0) = HeadNode /\ At(s, Len(s) + 1) = TailNode
      /\ \A i \in 0..(Len(s) + 1) : At(s, i) \in Node
      /\ \A i, k \in 0..(Len(s) + 1) : At(s, i) = At(s, k) => i = k
  BY <1>1, Positions
<1>3. next[HeadNode] = At(s, 1)
  BY <1>1, <1>2
<1>4. Len(s) >= 1
  BY <1>2, <1>3 DEF Popleft
<1>5. /\ next[HeadNode] = s[1] /\ next[s[1]] = At(s, 2)
      /\ s[1] \in Node /\ s[1] = At(s, 1) /\ At(s, 2) \in Node
      /\ At(s, 2) # s[1] /\ At(s, 2) # HeadNode /\ s[1] # HeadNode
  <2>1. 1 \in 0..Len(s) /\ 1 \in 1..Len(s) /\ 1 \in 0..(Len(s) + 1)
        /\ 2 \in 0..(Len(s) + 1) /\ 0 \in 0..(Len(s) + 1) /\ 1 + 1 = 2
    BY <1>2, <1>4
  <2> QED BY <1>1, <1>2, <1>3, <2>1
<1>6. /\ next' = [next EXCEPT ![HeadNode] = At(s, 2), ![s[1]] = NoNode]
      /\ prev' = [prev EXCEPT ![At(s, 2)] = HeadNode, ![s[1]] = NoNode]
      /\ num' = num - 1 /\ call' = Call("take", 1, <<s[1]>>)
  BY <1>5 DEF Popleft
<1>7. /\ next' \in [Node -> Node \cup {NoNode}] /\ prev' \in [Node -> Node \cup {NoNode}]
      /\ next'[s[1]] = NoNode /\ prev'[s[1]] = NoNode
      /\ next'[HeadNode] = At(s, 2) /\ prev'[At(s, 2)] = HeadNode
      /\ \A x \in Node : x = s[1] \/ /\ x = HeadNode \/ next'[x] = next[x]
                                     /\ x = At(s, 2) \/ prev'[x] = prev[x]
  BY <1>1, <1>5, <1>6, Nodes
<1>8. Threads(next', prev', t)
  <2>1. 1 \in 0..Len(s) /\ 1 + 1 = 2 /\ \A k \in 1..1 : k = 1
    BY <1>2, <1>4
  <2>2. /\ \A k \in 1..1 : next'[s[k]] = NoNode /\ prev'[s[k]] = NoNode
        /\ \A x \in Node : \/ \E k \in 1..1 : x = s[k]
                           \/ /\ x = HeadNode \/ next'[x] = next[x]
                              /\ x = At(s, 1 + 1) \/ prev'[x] = prev[x]
    BY <1>7, <2>1
  <2>3. Threads(next', prev', SubSeq(s, 1 + 1, Len(s)))
    BY <1>7, <2>1, <2>2, TakeThreads
  <2> QED BY <2>3
<1>9. num' = Len(t)
  BY <1>1, <1>2, <1>4, <1>6
<1>10. ListStep(s, t)
  <2>1. <<s[1]>> = SubSeq(s, 1, 1)
    BY <1>1, <1>2, <1>4
  <2>2. 1 \in 0..NumBlocks /\ 1 =< Len(s) /\ 1 + 1 = 2
    BY <1>4, Nodes
  <2> QED BY <1>6, <2>1, <2>2 DEF ListStep
<1> QED BY <1>8, <1>9, <1>10 DEF Becomes

\* popleft_n walks over the first n blocks and takes them.
LEMMA PopleftNStep ==
    ASSUME NEW s, Threads(next, prev, s), num = Len(s), NEW n \in 0..NumBlocks, PopleftN(n)
    PROVE  \E t : Becomes(s, t)
<1> DEFINE t == SubSeq(s, n + 1, Len(s))
           F(f) == [k \in 0..n |-> IF k = 0 THEN HeadNode ELSE next[f[k - 1]]]
           at == CHOOSE f : f = F(f)
           out == {at[k] : k \in 1..n}
           w == [k \in 0..n |-> At(s, k)]
<1>1. /\ s \in Seq(BlockId) /\ IsInjective(s)
      /\ next \in [Node -> Node \cup {NoNode}] /\ prev \in [Node -> Node \cup {NoNode}]
      /\ \A i \in 0..Len(s) : next[At(s, i)] = At(s, i + 1)
  BY DEF Threads
<1>2. /\ Len(s) \in Nat /\ \A i \in 1..Len(s) : At(s, i) = s[i] /\ s[i] \in BlockId
      /\ At(s, 0) = HeadNode
      /\ \A i \in 0..(Len(s) + 1) : At(s, i) \in Node
      /\ \A i, k \in 0..(Len(s) + 1) : At(s, i) = At(s, k) => i = k
  BY <1>1, Positions
<1>3. /\ n =< num /\ num' = num - n
      /\ call' = Call("take", n, [k \in 1..n |-> at[k]])
      /\ next' = [x \in Node |-> CASE x \in out -> NoNode
                                   [] x = HeadNode -> next[at[n]]
                                   [] OTHER -> next[x]]
      /\ prev' = [x \in Node |-> CASE x \in out -> NoNode
                                   [] x = next[at[n]] -> HeadNode
                                   [] OTHER -> prev[x]]
  BY DEF PopleftN
<1>4. n \in Nat /\ n =< Len(s) /\ \A k \in 1..n : k \in 1..Len(s) /\ k \in 0..(Len(s) + 1) /\ k # 0
  BY <1>2, <1>3, Nodes
<1>5. w = F(w)
  <2>1. ASSUME NEW k \in 0..n, k # 0 PROVE At(s, k) = next[w[k - 1]]
    <3>1. k - 1 \in 0..n /\ k - 1 \in 0..Len(s) /\ (k - 1) + 1 = k
      BY <1>4, <2>1
    <3> QED BY <1>1, <3>1
  <2> QED BY <1>2, <2>1
<1>6. at = F(at)
  BY <1>5
<1> HIDE DEF at
<1>7. \A k \in 0..n : at[k] = At(s, k)
  <2>1. at[0] = w[0]
    BY <1>2, <1>4, <1>6
  <2>2. ASSUME NEW k \in 0..n, k # 0, at[k - 1] = w[k - 1] PROVE at[k] = w[k]
    <3>1. at[k] = next[at[k - 1]]
      BY <1>6, <2>2
    <3>2. w[k] = next[w[k - 1]]
      BY <1>5, <2>2
    <3> QED BY <2>2, <3>1, <3>2
  <2> HIDE DEF w
  <2>3. SameSteps(at, w, n)
    BY <2>1, <2>2 DEF SameSteps
  <2>4. \A k \in 0..n : at[k] = w[k]
    BY <1>4, <2>3, Agree
  <2> QED BY <2>4 DEF w
<1>8. next[at[n]] = At(s, n + 1) /\ \A x : x \in out <=> \E k \in 1..n : x = s[k]
  <2>1. \A k \in 1..n : at[k] = s[k]
    BY <1>2, <1>4, <1>7
  <2>2. at[n] = At(s, n) /\ n \in 0..Len(s)
    BY <1>4, <1>7
  <2> QED BY <1>1, <2>1, <2>2
<1> HIDE DEF out
<1>9. /\ At(s, n + 1) \in Node /\ At(s, n + 1) # HeadNode
      /\ \A k \in 1..n : /\ s[k] \in out /\ s[k] \in Node
                         /\ s[k] # At(s, n + 1) /\ s[k] # HeadNode
      /\ HeadNode \notin out /\ At(s, n + 1) \notin out
  <2>1. n + 1 \in 0..(Len(s) + 1) /\ 0 \in 0..(Len(s) + 1) /\ n + 1 # 0 /\ \A k \in 1..n : k # n + 1
    BY <1>2, <1>4
  <2> QED BY <1>2, <1>4, <1>8, <2>1
<1>10. /\ next' \in [Node -> Node \cup {NoNode}] /\ prev' \in [Node -> Node \cup {NoNode}]
       /\ \A k \in 1..n : next'[s[k]] = NoNode /\ prev'[s[k]] = NoNode
       /\ next'[HeadNode] = At(s, n + 1) /\ prev'[At(s, n + 1)] = HeadNode
       /\ \A x \in Node : \/ \E k \in 1..n : x = s[k]
                          \/ /\ x = HeadNode \/ next'[x] = next[x]
                             /\ x = At(s, n + 1) \/ prev'[x] = prev[x]
  BY <1>1, <1>3, <1>8, <1>9, Nodes
<1>11. Threads(next', prev', t)
  <2>1. n \in 0..Len(s)
    BY <1>2, <1>4
  <2> QED BY <1>10, <2>1, TakeThreads
<1>12. num' = Len(t)
  BY <1>1, <1>2, <1>3, <1>4
<1>13. [k \in 1..n |-> at[k]] = SubSeq(s, 1, n)
  <2>1. /\ SubSeq(s, 1, n) \in Seq(BlockId) /\ Len(SubSeq(s, 1, n)) = n
        /\ \A k \in 1..n : SubSeq(s, 1, n)[k] = s[k]
    BY <1>1, <1>2, <1>4
  <2>2. \A k \in 1..n : at[k] = s[k]
    BY <1>2, <1>4, <1>7
  <2> QED BY <1>4, <2>1, <2>2
<1>14. ListStep(s, t)
  BY <1>3, <1>4, <1>13 DEF ListStep
<1> QED BY <1>11, <1>12, <1>14 DEF Becomes

\* remove unlinks a block of the list.
LEMMA RemoveBlockStep ==
    ASSUME NEW s, Threads(next, prev, s), num = Len(s), NEW b \in BlockId, RemoveBlock(b)
    PROVE  \E t : Becomes(s, t)
<1>1. s \in Seq(BlockId) /\ IsInjective(s)
  BY DEF Threads
<1>2. PICK j \in 1..Len(s) : s[j] = b
  BY <1>1, LinkedIs, Positions DEF RemoveBlock
<1>3. /\ next' = [next EXCEPT ![prev[s[j]]] = next[s[j]], ![s[j]] = NoNode]
      /\ prev' = [prev EXCEPT ![next[s[j]]] = prev[s[j]], ![s[j]] = NoNode]
      /\ num' = num - 1 /\ call' = Call("remove", b, <<>>)
  BY <1>2 DEF RemoveBlock
<1>4. Threads(next', prev', RemoveAt(s, j)) /\ Len(RemoveAt(s, j)) = Len(s) - 1
  BY <1>3, RemoveThreads
<1>5. ListStep(s, RemoveAt(s, j))
  <2>1. j \in DOMAIN s
    BY <1>1
  <2> QED BY <1>2, <1>3, <2>1 DEF ListStep
<1> QED BY <1>3, <1>4, <1>5 DEF Becomes

\* Blocks linked behind the fake head go in front of the list.
LEMMA FrontStep ==
    ASSUME NEW s, Threads(next, prev, s), num = Len(s),
           NEW r \in Seq(BlockId), IsInjective(r), ToSet(r) \cap ToSet(s) = {},
           Spliced(next, prev, next', prev', HeadNode, r, next[HeadNode])
    PROVE  Threads(next', prev', r \o s) /\ Len(r \o s) = Len(s) + Len(r)
<1>1. /\ s \in Seq(BlockId) /\ IsInjective(s) /\ Len(s) \in Nat
      /\ \A i \in 0..Len(s) : next[At(s, i)] = At(s, i + 1)
  BY DEF Threads
<1>2. /\ r \o s \in Seq(BlockId) /\ Len(r \o s) = Len(r) + Len(s) /\ Len(r) \in Nat
      /\ \A i \in 1..(Len(r) + Len(s)) : (r \o s)[i] = IF i =< Len(r) THEN r[i] ELSE s[i - Len(r)]
  BY <1>1, ConcatProperties
<1> DEFINE t == r \o s
<1> HIDE DEF t
<1>3. /\ \A i \in 1..0 : t[i] = s[i]
      /\ \A i \in 1..Len(r) : t[0 + i] = r[i]
      /\ \A i \in (0 + 1)..Len(s) : t[Len(r) + i] = s[i]
  BY <1>1, <1>2 DEF t
<1>4. 0 \in 0..Len(s) /\ At(s, 0) = HeadNode /\ next[HeadNode] = At(s, 0 + 1)
  BY <1>1, Positions
<1>5. t \in Seq(BlockId) /\ Len(t) = Len(s) + Len(r)
  BY <1>1, <1>2 DEF t
<1>6. Spliced(next, prev, next', prev', At(s, 0), r, At(s, 0 + 1))
  BY <1>4
<1>7. Inserted(s, 0, r, t)
  BY <1>3, <1>5 DEF Inserted
<1>8. Threads(next', prev', t)
  BY <1>4, <1>6, <1>7, InsertThreads
<1> QED BY <1>5, <1>8 DEF t

\* Blocks linked before the fake tail go behind the list.
LEMMA BackStep ==
    ASSUME NEW s, Threads(next, prev, s), num = Len(s),
           NEW r \in Seq(BlockId), IsInjective(r), ToSet(r) \cap ToSet(s) = {},
           Spliced(next, prev, next', prev', prev[TailNode], r, TailNode)
    PROVE  Threads(next', prev', s \o r) /\ Len(s \o r) = Len(s) + Len(r)
<1>1. /\ s \in Seq(BlockId) /\ IsInjective(s) /\ Len(s) \in Nat
      /\ \A i \in 0..Len(s) : prev[At(s, i + 1)] = At(s, i)
  BY DEF Threads
<1>2. /\ s \o r \in Seq(BlockId) /\ Len(s \o r) = Len(s) + Len(r) /\ Len(r) \in Nat
      /\ \A i \in 1..(Len(s) + Len(r)) : (s \o r)[i] = IF i =< Len(s) THEN s[i] ELSE r[i - Len(s)]
  BY <1>1, ConcatProperties
<1> DEFINE t == s \o r
           q == Len(s)
<1> HIDE DEF t, q
<1>3. /\ \A i \in 1..q : t[i] = s[i]
      /\ \A i \in 1..Len(r) : t[q + i] = r[i]
      /\ \A i \in (q + 1)..Len(s) : t[Len(r) + i] = s[i]
  BY <1>1, <1>2 DEF t, q
<1>4. q \in 0..Len(s) /\ At(s, q + 1) = TailNode /\ prev[TailNode] = At(s, q)
  BY <1>1, Positions DEF q
<1>5. t \in Seq(BlockId) /\ Len(t) = Len(s) + Len(r)
  BY <1>1, <1>2 DEF t
<1>6. Spliced(next, prev, next', prev', At(s, q), r, At(s, q + 1))
  BY <1>4
<1>7. Inserted(s, q, r, t)
  BY <1>3, <1>5 DEF Inserted
<1>8. Threads(next', prev', t)
  BY <1>4, <1>6, <1>7, InsertThreads
<1> QED BY <1>5, <1>8 DEF t

\* The blocks a caller gives back are outside the list, and so are none of the
\* nodes they are linked between.
LEMMA GivenBackIs ==
    ASSUME NEW s, Threads(next, prev, s), NEW r \in GivenBack
    PROVE  /\ r \in Seq(BlockId) /\ IsInjective(r) /\ ToSet(r) \cap ToSet(s) = {}
           /\ r \in BoundedSeq(BlockId \ ToSet(s), NumBlocks)
           /\ \A i \in 0..(Len(s) + 1) : At(s, i) \notin ToSet(r)
<1>1. r \in BoundedSeq(BlockId \ ToSet(s), NumBlocks) /\ IsInjective(r)
  BY LinkedIs DEF GivenBack
<1>2. PICK m \in 0..NumBlocks : r \in [1..m -> BlockId \ ToSet(s)]
  BY <1>1 DEF BoundedSeq, SeqOf
<1>3. m \in Nat /\ r \in Seq(BlockId) /\ Len(r) = m
  BY <1>2, Nodes
<1>4. \A b \in ToSet(r) : b \in BlockId \ ToSet(s)
  BY <1>2, <1>3 DEF ToSet
<1>5. s \in Seq(BlockId) /\ IsInjective(s)
  BY DEF Threads
<1>6. \A i \in 0..(Len(s) + 1) : i = 0 \/ i \in 1..Len(s) \/ i = Len(s) + 1
  BY <1>5
<1>7. \A i \in 0..(Len(s) + 1) : At(s, i) \in ToSet(s) \/ At(s, i) = HeadNode \/ At(s, i) = TailNode
  BY <1>5, <1>6, Positions
<1> QED BY <1>1, <1>3, <1>4, <1>7, Nodes

\* prepend_n puts the blocks in front.
LEMMA PrependStep ==
    ASSUME NEW s, Threads(next, prev, s), num = Len(s), NEW r \in GivenBack, PrependN(r)
    PROVE  \E t : Becomes(s, t)
<1>1. /\ r \in Seq(BlockId) /\ IsInjective(r) /\ ToSet(r) \cap ToSet(s) = {}
      /\ r \in BoundedSeq(BlockId \ ToSet(s), NumBlocks)
      /\ \A i \in 0..(Len(s) + 1) : At(s, i) \notin ToSet(r)
  BY GivenBackIs
<1>2. /\ s \in Seq(BlockId) /\ IsInjective(s) /\ Len(s) \in Nat
      /\ next \in [Node -> Node \cup {NoNode}] /\ prev \in [Node -> Node \cup {NoNode}]
      /\ \A i \in 0..Len(s) : next[At(s, i)] = At(s, i + 1)
  BY DEF Threads
<1>3. num' = num + Len(r) /\ call' = Call("prepend", r, <<>>)
  BY DEF PrependN
<1>4. ListStep(s, r \o s)
  BY <1>1, <1>3 DEF ListStep
<1>5. CASE r = <<>>
  <2>1. r \o s = s /\ Len(r) = 0
    BY <1>2, <1>5
  <2>2. next' = next /\ prev' = prev
    BY <1>5 DEF PrependN
  <2>3. Threads(next', prev', r \o s) /\ num' = Len(r \o s)
    BY <1>2, <1>3, <2>1, <2>2
  <2> QED BY <1>4, <2>3 DEF Becomes
<1>6. CASE r # <<>>
  <2>1. /\ At(s, 0) = HeadNode /\ next[HeadNode] = At(s, 1) /\ At(s, 1) \in Node
        /\ At(s, 1) # HeadNode /\ 0 \in 0..(Len(s) + 1) /\ 1 \in 0..(Len(s) + 1)
    <3>1. 0 \in 0..(Len(s) + 1) /\ 1 \in 0..(Len(s) + 1) /\ 0 \in 0..Len(s) /\ 0 + 1 = 1
      BY <1>2
    <3>2. /\ \A i \in 0..(Len(s) + 1) : At(s, i) \in Node
          /\ \A i, j \in 0..(Len(s) + 1) : At(s, i) = At(s, j) => i = j
          /\ At(s, 0) = HeadNode
      BY <1>2, Positions
    <3> QED BY <1>2, <3>1, <3>2
  <2>2. Splice(HeadNode, r, next[HeadNode])
    BY <1>6 DEF PrependN
  <2>3. HeadNode \notin ToSet(r) /\ next[HeadNode] \notin ToSet(r)
    BY <1>1, <2>1
  <2>4. Spliced(next, prev, next', prev', HeadNode, r, next[HeadNode])
    BY <1>1, <1>2, <2>1, <2>2, <2>3, SpliceIs, Nodes
  <2>5. Threads(next', prev', r \o s) /\ Len(r \o s) = Len(s) + Len(r)
    BY <1>1, <2>4, FrontStep
  <2> QED BY <1>3, <1>4, <2>5 DEF Becomes
<1> QED BY <1>5, <1>6

\* append_n puts the blocks behind.
LEMMA AppendNStep ==
    ASSUME NEW s, Threads(next, prev, s), num = Len(s), NEW r \in GivenBack, AppendN(r)
    PROVE  \E t : Becomes(s, t)
<1>1. /\ r \in Seq(BlockId) /\ IsInjective(r) /\ ToSet(r) \cap ToSet(s) = {}
      /\ r \in BoundedSeq(BlockId \ ToSet(s), NumBlocks)
      /\ \A i \in 0..(Len(s) + 1) : At(s, i) \notin ToSet(r)
  BY GivenBackIs
<1>2. /\ s \in Seq(BlockId) /\ IsInjective(s) /\ Len(s) \in Nat
      /\ next \in [Node -> Node \cup {NoNode}] /\ prev \in [Node -> Node \cup {NoNode}]
      /\ \A i \in 0..Len(s) : prev[At(s, i + 1)] = At(s, i)
  BY DEF Threads
<1>3. num' = num + Len(r) /\ call' = Call("append", r, <<>>)
  BY DEF AppendN
<1>4. ListStep(s, s \o r)
  BY <1>1, <1>3 DEF ListStep
<1>5. CASE r = <<>>
  <2>1. s \o r = s /\ Len(r) = 0
    BY <1>2, <1>5
  <2>2. next' = next /\ prev' = prev
    BY <1>5 DEF AppendN
  <2>3. Threads(next', prev', s \o r) /\ num' = Len(s \o r)
    BY <1>2, <1>3, <2>1, <2>2
  <2> QED BY <1>4, <2>3 DEF Becomes
<1>6. CASE r # <<>>
  <2>1. /\ At(s, Len(s) + 1) = TailNode /\ prev[TailNode] = At(s, Len(s))
        /\ At(s, Len(s)) \in Node /\ At(s, Len(s)) # TailNode
        /\ Len(s) \in 0..(Len(s) + 1) /\ Len(s) + 1 \in 0..(Len(s) + 1)
    <3>1. Len(s) \in 0..(Len(s) + 1) /\ Len(s) + 1 \in 0..(Len(s) + 1)
          /\ Len(s) \in 0..Len(s) /\ Len(s) # Len(s) + 1
      BY <1>2
    <3>2. /\ \A i \in 0..(Len(s) + 1) : At(s, i) \in Node
          /\ \A i, j \in 0..(Len(s) + 1) : At(s, i) = At(s, j) => i = j
          /\ At(s, Len(s) + 1) = TailNode
      BY <1>2, Positions
    <3> QED BY <1>2, <3>1, <3>2
  <2>2. Splice(prev[TailNode], r, TailNode)
    BY <1>6 DEF AppendN
  <2>3. TailNode \notin ToSet(r) /\ prev[TailNode] \notin ToSet(r)
    BY <1>1, <2>1
  <2>4. Spliced(next, prev, next', prev', prev[TailNode], r, TailNode)
    BY <1>1, <1>2, <2>1, <2>2, <2>3, SpliceIs, Nodes
  <2>5. Threads(next', prev', s \o r) /\ Len(s \o r) = Len(s) + Len(r)
    BY <1>1, <2>4, BackStep
  <2> QED BY <1>3, <1>4, <2>5 DEF Becomes
<1> QED BY <1>5, <1>6

\* append puts one block behind.
LEMMA AppendStep ==
    ASSUME NEW s, Threads(next, prev, s), num = Len(s), NEW b \in BlockId, AppendBlock(b)
    PROVE  \E t : Becomes(s, t)
<1> DEFINE r == <<b>>
           last == prev[TailNode]
<1>1. b \notin ToSet(s)
  BY LinkedIs DEF AppendBlock
<1>2. /\ s \in Seq(BlockId) /\ IsInjective(s) /\ Len(s) \in Nat
      /\ next \in [Node -> Node \cup {NoNode}] /\ prev \in [Node -> Node \cup {NoNode}]
      /\ \A i \in 0..Len(s) : prev[At(s, i + 1)] = At(s, i)
  BY DEF Threads
<1>3. r \in Seq(BlockId) /\ Len(r) = 1 /\ r[1] = b /\ IsInjective(r) /\ ToSet(r) = {b}
  <2>1. r \in Seq(BlockId) /\ Len(r) = 1 /\ r[1] = b /\ DOMAIN r = {1}
    OBVIOUS
  <2> HIDE DEF r
  <2> QED BY <2>1 DEF IsInjective, ToSet
<1>4. r \in BoundedSeq(BlockId \ ToSet(s), NumBlocks)
  <2>1. 1 \in 0..NumBlocks
    BY Nodes
  <2>2. r \in [1..1 -> BlockId \ ToSet(s)]
    BY <1>1
  <2> HIDE DEF r
  <2> QED BY <2>1, <2>2 DEF BoundedSeq, SeqOf
<1>5. /\ last = At(s, Len(s)) /\ last \in Node /\ last # TailNode /\ last # b
      /\ b # TailNode /\ b \in Node
  <2>1. Len(s) \in 0..(Len(s) + 1) /\ Len(s) + 1 \in 0..(Len(s) + 1)
        /\ Len(s) \in 0..Len(s) /\ Len(s) # Len(s) + 1 /\ (Len(s) = 0 \/ Len(s) \in 1..Len(s))
    BY <1>2
  <2>2. /\ \A i \in 0..(Len(s) + 1) : At(s, i) \in Node
        /\ \A i, j \in 0..(Len(s) + 1) : At(s, i) = At(s, j) => i = j
        /\ At(s, Len(s) + 1) = TailNode /\ At(s, 0) = HeadNode
        /\ \A i \in 1..Len(s) : At(s, i) = s[i] /\ s[i] \in ToSet(s)
    BY <1>2, Positions
  <2> QED BY <1>1, <1>2, <2>1, <2>2, Nodes
<1> HIDE DEF last
<1>6. /\ next' = [next EXCEPT ![last] = b, ![b] = TailNode]
      /\ prev' = [prev EXCEPT ![b] = last, ![TailNode] = b]
      /\ num' = num + 1 /\ call' = Call("append", r, <<>>)
  BY DEF AppendBlock, last
<1> HIDE DEF r
<1>7. /\ next' \in [Node -> Node \cup {NoNode}] /\ prev' \in [Node -> Node \cup {NoNode}]
      /\ next'[last] = b /\ next'[b] = TailNode
      /\ prev'[b] = last /\ prev'[TailNode] = b
      /\ \A x \in Node : x # b => /\ x = last \/ next'[x] = next[x]
                                  /\ x = TailNode \/ prev'[x] = prev[x]
  BY <1>2, <1>5, <1>6, Nodes
<1>8. Spliced(next, prev, next', prev', last, r, TailNode)
  <2>1. /\ Link(last, r, TailNode, 0) = last /\ Link(last, r, TailNode, 1) = b
        /\ Link(last, r, TailNode, 2) = TailNode
    BY <1>3 DEF Link
  <2>2. \A i \in 0..Len(r) : i = 0 \/ i = 1
    BY <1>3
  <2>3. ASSUME NEW i \in 0..Len(r)
        PROVE  /\ next'[Link(last, r, TailNode, i)] = Link(last, r, TailNode, i + 1)
               /\ prev'[Link(last, r, TailNode, i + 1)] = Link(last, r, TailNode, i)
    BY <1>7, <2>1, <2>2
  <2>4. \A x \in Node \ ToSet(r) : /\ x = last \/ next'[x] = next[x]
                                   /\ x = TailNode \/ prev'[x] = prev[x]
    BY <1>3, <1>7
  <2> QED BY <1>7, <2>3, <2>4 DEF Spliced
<1>9. Threads(next', prev', s \o r) /\ Len(s \o r) = Len(s) + Len(r)
  BY <1>1, <1>3, <1>8, BackStep DEF last
<1>10. ListStep(s, s \o r)
  BY <1>3, <1>4, <1>6 DEF ListStep
<1> QED BY <1>3, <1>6, <1>9, <1>10 DEF Becomes

\* Every step keeps the invariant and is a step of FreeBlockList.
LEMMA NextStep ==
    ASSUME NEW s, Threads(next, prev, s), num = Len(s), Next
    PROVE  \E t : Becomes(s, t)
<1>1. CASE Popleft
  BY <1>1, PopleftStep
<1>2. ASSUME NEW n \in 0..NumBlocks, PopleftN(n) PROVE \E t : Becomes(s, t)
  BY <1>2, PopleftNStep
<1>3. ASSUME NEW b \in BlockId, RemoveBlock(b) PROVE \E t : Becomes(s, t)
  BY <1>3, RemoveBlockStep
<1>4. ASSUME NEW b \in BlockId, AppendBlock(b) PROVE \E t : Becomes(s, t)
  BY <1>4, AppendStep
<1>5. ASSUME NEW r \in GivenBack, PrependN(r) PROVE \E t : Becomes(s, t)
  BY <1>5, PrependStep
<1>6. ASSUME NEW r \in GivenBack, AppendN(r) PROVE \E t : Becomes(s, t)
  BY <1>6, AppendNStep
<1> QED BY <1>1, <1>2, <1>3, <1>4, <1>5, <1>6 DEF Next

\* The queue starts with all blocks, in the order of their ids.
LEMMA InitThreads ==
    ASSUME Init
    PROVE  Threads(next, prev, [i \in 1..NumBlocks |-> i - 1]) /\ num = NumBlocks
<1> DEFINE s == [i \in 1..NumBlocks |-> i - 1]
<1>0. NumBlocks \in Nat \ {0} /\ \A i \in 1..NumBlocks : i - 1 \in BlockId
  BY Nodes DEF BlockId
<1>1. s \in Seq(BlockId) /\ Len(s) = NumBlocks /\ \A i \in 1..NumBlocks : s[i] = i - 1
  BY <1>0
<1>2. DOMAIN s = 1..NumBlocks
  OBVIOUS
<1> HIDE DEF s
<1>3. IsInjective(s)
  BY <1>0, <1>1, <1>2 DEF IsInjective
<1>4. \A b \in BlockId : b \in ToSet(s)
  <2> TAKE b \in BlockId
  <2>1. b + 1 \in 1..NumBlocks /\ (b + 1) - 1 = b
    BY <1>0 DEF BlockId
  <2> QED BY <1>1, <1>2, <2>1 DEF ToSet
<1>5. /\ next \in [Node -> Node \cup {NoNode}]
      /\ next[HeadNode] = 0 /\ next[TailNode] = NoNode /\ next[NumBlocks - 1] = TailNode
      /\ \A b \in BlockId : b # NumBlocks - 1 => next[b] = b + 1
  BY <1>0 DEF Init, BlockId, Node, HeadNode, TailNode, NoNode
<1>6. /\ prev \in [Node -> Node \cup {NoNode}]
      /\ prev[HeadNode] = NoNode /\ prev[TailNode] = NumBlocks - 1 /\ prev[0] = HeadNode
      /\ \A b \in BlockId : b # 0 => prev[b] = b - 1
  BY <1>0 DEF Init, BlockId, Node, HeadNode, TailNode, NoNode
<1>7. ASSUME NEW i \in 0..NumBlocks
      PROVE  next[At(s, i)] = At(s, i + 1) /\ prev[At(s, i + 1)] = At(s, i)
  <2>1. At(s, i) = IF i = 0 THEN HeadNode ELSE i - 1
    BY <1>0, <1>1 DEF At
  <2>2. At(s, i + 1) = IF i = NumBlocks THEN TailNode ELSE i
    BY <1>0, <1>1 DEF At
  <2>3. /\ i # 0 => i - 1 \in BlockId
        /\ i # 0 /\ i # NumBlocks => i - 1 # NumBlocks - 1 /\ (i - 1) + 1 = i
        /\ i # NumBlocks => i \in BlockId
    BY <1>0 DEF BlockId
  <2> QED BY <1>0, <1>5, <1>6, <2>1, <2>2, <2>3
<1>8. Threads(next, prev, s) /\ num = NumBlocks
  BY <1>1, <1>3, <1>4, <1>5, <1>6, <1>7 DEF Threads, Init
<1> QED BY <1>8 DEF s
-----------------------------------------------------------------------------
\* Some list is threaded through the pointers in every reachable state.
THEOREM Invariance == Spec => []Inv
<1>1. Init => Inv
  <2>1. Len([i \in 1..NumBlocks |-> i - 1]) = NumBlocks
    BY Nodes
  <2> QED BY <2>1, InitThreads DEF Inv
<1>2. Inv /\ [Next]_vars => Inv'
  <2> SUFFICES ASSUME Inv, [Next]_vars PROVE Inv'
    OBVIOUS
  <2>1. PICK s : Threads(next, prev, s) /\ num = Len(s)
    BY DEF Inv
  <2>2. CASE Next
    <3>1. PICK t : Becomes(s, t)
      BY <2>1, <2>2, NextStep
    <3> QED BY <3>1 DEF Becomes, Inv
  <2>3. CASE UNCHANGED vars
    BY <2>1, <2>3 DEF vars, Inv
  <2> QED BY <2>2, <2>3
<1> QED BY <1>1, <1>2, PTL DEF Spec

\* The forward and backward pointers agree, the counter counts the blocks of
\* the list, and the blocks outside have no pointers, however the operations
\* of FreeKVCacheBlockQueue are called and however many blocks there are.
THEOREM LinksAreConsistent == Spec => []LinksConsistent
<1>1. Inv => LinksConsistent
  <2> SUFFICES ASSUME NEW s, Threads(next, prev, s), num = Len(s) PROVE LinksConsistent
    BY DEF Inv
  <2>1. /\ s \in Seq(BlockId) /\ IsInjective(s)
        /\ next \in [Node -> Node \cup {NoNode}] /\ prev \in [Node -> Node \cup {NoNode}]
        /\ \A i \in 0..Len(s) : next[At(s, i)] = At(s, i + 1) /\ prev[At(s, i + 1)] = At(s, i)
        /\ \A b \in BlockId \ ToSet(s) : prev[b] = NoNode /\ next[b] = NoNode
    BY DEF Threads
  <2>2. /\ Len(s) \in Nat /\ \A i \in 1..Len(s) : At(s, i) = s[i] /\ s[i] \in BlockId
        /\ At(s, 0) = HeadNode /\ At(s, Len(s) + 1) = TailNode
        /\ \A b : b \in ToSet(s) <=> \E i \in 1..Len(s) : s[i] = b
    BY <2>1, Positions
  <2>3. TypeOK
    <3>1. num \in 0..NumBlocks
      BY <2>1, <2>2, ListLength, Nodes
    <3> QED BY <2>1, <3>1 DEF TypeOK
  <2>4. Walk(next) = s
    BY WalkIs
  <2>5. ASSUME NEW x \in {HeadNode} \cup ToSet(s)
        PROVE  next[x] \in BlockId \cup {TailNode} /\ prev[next[x]] = x
    <3>1. PICK i \in 0..Len(s) : x = At(s, i)
      BY <2>2
    <3>2. i + 1 \in 1..Len(s) \/ i + 1 = Len(s) + 1
      BY <2>2
    <3> QED BY <2>1, <2>2, <3>1, <3>2
  <2> HIDE DEF Walk
  <2> QED BY <2>1, <2>3, <2>4, <2>5 DEF LinksConsistent
<1> QED BY <1>1, Invariance, PTL

\* The linked list implements the sequence that the block pool relies on: each
\* operation returns the blocks FreeBlockList's does and leaves its list.
THEOREM ImplementsList == Spec => ImplementsFreeList
<1>1. Init => FreeList!ListInit
  <2> SUFFICES ASSUME Init PROVE FreeList!ListInit
    OBVIOUS
  <2>1. Walk(next) = [i \in 1..NumBlocks |-> i - 1]
    BY InitThreads, WalkIs
  <2>2. call = Call("init", <<>>, <<>>)
    BY DEF Init
  <2> QED BY <2>1, <2>2 DEF FreeList!ListInit, FreeList!Call, Call
<1>2. Inv /\ [Next]_vars => [FreeList!ListNext]_<<Walk(next), call>>
  <2> SUFFICES ASSUME Inv, [Next]_vars PROVE [FreeList!ListNext]_<<Walk(next), call>>
    OBVIOUS
  <2>1. PICK s : Threads(next, prev, s) /\ num = Len(s)
    BY DEF Inv
  <2>2. Walk(next) = s
    BY <2>1, WalkIs
  <2>3. CASE UNCHANGED vars
    BY <2>3 DEF vars
  <2>4. CASE Next
    <3>1. PICK t : Becomes(s, t)
      BY <2>1, <2>4, NextStep
    <3>2. Walk(next)' = t
      BY <3>1, WalkIs DEF Becomes
    <3>3. ListStep(Walk(next), Walk(next)')
      BY <2>2, <3>1, <3>2 DEF Becomes
    <3>4. FreeList!ListNext
      BY <3>3
      DEF ListStep, FreeList!ListNext, FreeList!Take, FreeList!Unlink, FreeList!PutFront,
          FreeList!PutBack, FreeList!Returned, FreeList!BlockId, FreeList!Call,
          FreeList!Taken, Call, BlockId, RemoveAt, BoundedSeq, SeqOf, ToSet, IsInjective
    <3> QED BY <3>4
  <2> QED BY <2>3, <2>4
<1> QED BY <1>1, <1>2, Invariance, PTL DEF Spec, ImplementsFreeList, FreeList!ListSpec
=============================================================================
