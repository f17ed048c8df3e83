------------------------- MODULE PrefixCacheProofs -------------------------
(***************************************************************************)
(* The safety properties of module PrefixCache, for every pool, block and  *)
(* model size, every set of requests and of pending frees, and every kind  *)
(* of attention.  All follow from one inductive invariant.                 *)
(***************************************************************************)
EXTENDS PrefixCache, KVCacheManagerProofs

\* The pending frees, of the lists p, that hold block b; their number.
Tickets(p, b) == {t \in Ticket : b \in Range(p[t])}
Owed(p) == [b \in Block |-> Cardinality(Tickets(p, b))]

\* Scheduled tokens fit the model, and the blocks of their request.
TokensOK(k, computed, tokens) ==
    /\ computed \in [Request -> Nat] /\ tokens \in [Request -> Nat \ {0}]
    /\ \A r \in Request : /\ tokens[r] =< MaxModelLen
                          /\ computed[r] =< MaxModelLen
                          /\ Cdiv(computed[r], BlockSize) =< Len(k.blocks[r])

PoppedOK(p) ==
    /\ p \in [Ticket -> Seq(Block \cup {NullBlock})]
    /\ \A t \in Ticket : NoRepeat(p[t])

\* The inductive invariant.
Inv == /\ KVOK(kv, Owed(popped))
       /\ TokensOK(kv, numComputed, numTokens)
       /\ PoppedOK(popped)
-----------------------------------------------------------------------------
(* Pending frees.                                                          *)

\* Finitely many frees are pending.
LEMMA TicketsFinite ==
    ASSUME NEW p, NEW b
    PROVE  IsFiniteSet(Tickets(p, b)) /\ Cardinality(Tickets(p, b)) \in Nat
<1>1. IsFiniteSet(Ticket) /\ Tickets(p, b) \in SUBSET Ticket
  BY ClientAssumption DEF Tickets
<1> QED BY <1>1, FS_Subset, FS_CardinalityType

\* A block is owed once more when a list that holds it becomes pending.
LEMMA OwedPop ==
    ASSUME NEW p, NEW p2, NEW t \in Ticket, p[t] = <<>>,
           \A u \in Ticket \ {t} : p2[u] = p[u]
    PROVE  /\ Owed(p) \in [Block -> Nat] /\ Owed(p2) \in [Block -> Nat]
           /\ \A b \in Block : Owed(p2)[b] = IF b \in Range(p2[t]) THEN Owed(p)[b] + 1
                                                                   ELSE Owed(p)[b]
<1>1. ASSUME NEW b \in Block
      PROVE  Cardinality(Tickets(p2, b)) = IF b \in Range(p2[t])
                                           THEN Cardinality(Tickets(p, b)) + 1
                                           ELSE Cardinality(Tickets(p, b))
  <2>1. t \notin Tickets(p, b)
    BY DEF Tickets, Range
  <2>2. b \in Range(p2[t]) => Tickets(p2, b) = Tickets(p, b) \cup {t}
    BY DEF Tickets
  <2>3. b \notin Range(p2[t]) => Tickets(p2, b) = Tickets(p, b)
    BY <2>1 DEF Tickets
  <2>4. IsFiniteSet(Tickets(p, b))
    BY TicketsFinite
  <2>5. Cardinality(Tickets(p, b) \cup {t}) = Cardinality(Tickets(p, b)) + 1
    BY <2>1, <2>4, FS_AddElement
  <2> QED BY <2>2, <2>3, <2>5
<1>2. \A b \in Block : /\ Cardinality(Tickets(p, b)) \in Nat
                       /\ Cardinality(Tickets(p2, b)) \in Nat
  BY TicketsFinite
<1> QED BY <1>1, <1>2 DEF Owed
-----------------------------------------------------------------------------
(* The invariant holds in the initial state and is kept by every action.   *)

\* The manager starts with every block free and no request.
LEMMA InitInv == Init => Inv
<1> SUFFICES ASSUME Init PROVE Inv
  OBVIOUS
<1>0. /\ kv = InitKV /\ numComputed = [r \in Request |-> 0] /\ numTokens = PromptLen
      /\ popped = [t \in Ticket |-> <<>>]
  BY DEF Init
<1>1. /\ kv.pool = InitPool /\ kv.blocks = [r \in Request |-> <<>>]
      /\ kv.numCached = [r \in Request |-> Untracked]
  BY <1>0 DEF InitKV
<1>2. <<>> \in Seq(Block \cup {NullBlock}) /\ Len(<<>>) = 0 /\ NoRepeat(<<>>)
      /\ \A b : b \notin Range(<<>>)
  BY EmptySeq DEF NoRepeat, Range
<1>3. PoolOK(kv.pool)
  BY <1>1, InitPoolOK
<1>4. kv \in KV
  <2>1. InitPool \in Pool
    BY <1>1, <1>3 DEF PoolOK
  <2> QED BY <1>0, <1>2, <2>1 DEF InitKV, KV
<1>5. \A b : Holders(kv, b) = {} /\ Tickets(popped, b) = {}
  BY <1>0, <1>1, <1>2 DEF Holders, Tickets
<1>6. Owed(popped) \in [Block -> Nat] /\ \A b \in Block : Owed(popped)[b] = 0
  BY <1>5, FS_EmptySet DEF Owed
<1>7. CountsOK(kv, kv.pool, Owed(popped))
  <2>1. \A b \in Block : InitPool.refCnt[b] = 0
    BY DEF InitPool
  <2>2. \A b : Cardinality(Holders(kv, b)) = 0
    BY <1>5, FS_EmptySet
  <2> SUFFICES ASSUME NEW b \in Block
               PROVE  kv.pool.refCnt[b] = Cardinality(Holders(kv, b)) + Owed(popped)[b]
    BY DEF CountsOK
  <2>3. kv.pool.refCnt[b] = 0
    BY <1>1, <2>1
  <2> QED BY <1>6, <2>2, <2>3
<1>8. \A r \in Request : RequestOK(kv, Owed(popped), r)
  <2>1. 0 =< MaxBlocks /\ Untracked =< 0
    BY MaxBlocksNat DEF Untracked
  <2> QED BY <1>1, <1>2, <2>1 DEF RequestOK
<1>9. KVOK(kv, Owed(popped))
  BY <1>3, <1>4, <1>6, <1>7, <1>8 DEF KVOK
<1>10. TokensOK(kv, numComputed, numTokens)
  <2>1. Cdiv(0, BlockSize) = 0 /\ MaxModelLen \in Nat
    BY CdivProperties, ManagerAssumption
  <2>2. PromptLen \in [Request -> 1..(MaxModelLen - 1)]
    BY ClientAssumption
  <2>3. \A r \in Request : PromptLen[r] \in Nat \ {0} /\ PromptLen[r] =< MaxModelLen
    BY <2>1, <2>2
  <2>4. PromptLen \in [Request -> Nat \ {0}]
    BY <2>2, <2>3
  <2> QED BY <1>0, <1>1, <1>2, <2>1, <2>3, <2>4 DEF TokensOK
<1>11. PoppedOK(popped)
  BY <1>0, <1>2 DEF PoppedOK
<1> QED BY <1>9, <1>10, <1>11 DEF Inv

\* Changing the tokens and the blocks of one request.
LEMMA TokensUpdate ==
    ASSUME NEW k, NEW computed, NEW tokens, TokensOK(k, computed, tokens),
           NEW r \in Request, NEW k2, \A s \in Request \ {r} : k2.blocks[s] = k.blocks[s],
           NEW x \in Nat, x =< MaxModelLen, Cdiv(x, BlockSize) =< Len(k2.blocks[r]),
           NEW y \in Nat \ {0}, y =< MaxModelLen
    PROVE  TokensOK(k2, [computed EXCEPT ![r] = x], [tokens EXCEPT ![r] = y])
  BY DEF TokensOK

\* A waiting request calls allocate_slots with the hit of its own prefix.
LEMMA WaitingArgs ==
    ASSUME Inv, NEW r \in Request, ~Admitted(r), NEW n \in Nat, NEW look \in Nat,
           NEW full
    PROVE  LET hits == GetComputedBlocks(kv, r, numTokens[r])
               a    == Args(r, n, look, hits, full)
           IN  ArgsOK(kv, r, a) /\ LocalComputed(a) \in Nat
<1> DEFINE hits == GetComputedBlocks(kv, r, numTokens[r])
           a    == Args(r, n, look, hits, full)
<1>1. KVOK(kv, Owed(popped)) /\ TokensOK(kv, numComputed, numTokens)
  BY DEF Inv
<1>2. /\ numTokens[r] \in Nat \ {0} /\ numTokens[r] =< MaxModelLen
      /\ numComputed[r] \in Nat /\ Cdiv(numComputed[r], BlockSize) =< Len(kv.blocks[r])
      /\ BlockSize \in Nat \ {0} /\ MaxModelLen \in Nat
  BY <1>1, ManagerAssumption DEF TokensOK
<1>3. kv.blocks[r] = <<>>
  BY DEF Admitted
<1>4. numComputed[r] = 0
  <2>1. Cdiv(numComputed[r], BlockSize) =< 0
    BY <1>2, <1>3
  <2>2. Cdiv(1, BlockSize) = 1
    BY <1>2 DEF Cdiv
  <2>3. 1 =< numComputed[r] => Cdiv(1, BlockSize) =< Cdiv(numComputed[r], BlockSize)
    BY <1>2, CdivProperties
  <2>4. Cdiv(numComputed[r], BlockSize) \in Nat
    BY <1>2, CdivProperties
  <2> QED BY <1>2, <2>1, <2>2, <2>3, <2>4
<1>5. HitOK(kv, r, hits) /\ Len(hits) * BlockSize =< numTokens[r] - 1
  BY <1>1, <1>2, GetComputedBlocksOK
<1> HIDE DEF hits
<1>6. /\ a.computed = numComputed[r] /\ a.tokens = numTokens[r] /\ a.new = n
      /\ a.look = look /\ a.hits = hits
  BY DEF Args
<1> HIDE DEF a
<1>7. Len(hits) \in Nat
  BY <1>5, LenProperties DEF HitOK
<1>8. Len(hits) * BlockSize \in Nat
  BY <1>2, <1>7
<1>9. LocalComputed(a) = Len(hits) * BlockSize
  BY <1>4, <1>6, <1>8 DEF LocalComputed
<1>10. LocalComputed(a) =< MaxModelLen
  BY <1>2, <1>5, <1>8, <1>9
<1>11. ArgsOK(kv, r, a) /\ LocalComputed(a) \in Nat
  BY <1>2, <1>3, <1>4, <1>5, <1>6, <1>8, <1>9, <1>10 DEF ArgsOK
<1> QED BY <1>11 DEF a, hits

\* A running request calls it with the tokens its blocks hold.
LEMMA RunningArgs ==
    ASSUME Inv, NEW r \in Request, NEW n \in Nat, NEW look \in Nat, NEW full
    PROVE  LET a == Args(r, n, look, <<>>, full)
           IN  ArgsOK(kv, r, a) /\ LocalComputed(a) = numComputed[r]
<1> DEFINE a == Args(r, n, look, <<>>, full)
<1>1. KVOK(kv, Owed(popped)) /\ TokensOK(kv, numComputed, numTokens)
  BY DEF Inv
<1>2. /\ numTokens[r] \in Nat \ {0} /\ numTokens[r] =< MaxModelLen
      /\ numComputed[r] \in Nat /\ numComputed[r] =< MaxModelLen
      /\ Cdiv(numComputed[r], BlockSize) =< Len(kv.blocks[r])
      /\ BlockSize \in Nat \ {0}
  BY <1>1, ManagerAssumption DEF TokensOK
<1>3. /\ a.computed = numComputed[r] /\ a.tokens = numTokens[r] /\ a.new = n
      /\ a.look = look /\ a.hits = <<>>
  BY DEF Args
<1> HIDE DEF a
<1>4. <<>> \in Seq(Block \cup {NullBlock}) /\ Len(<<>>) = 0 /\ MaxBlocks \in Nat
  BY EmptySeq, MaxBlocksNat
<1>5. HitOK(kv, r, <<>>)
  BY <1>4 DEF HitOK
<1>6. LocalComputed(a) = numComputed[r]
  BY <1>2, <1>3, <1>4 DEF LocalComputed
<1>7. numComputed[r] \div BlockSize =< Len(kv.blocks[r])
  <2>1. /\ numComputed[r] \div BlockSize =< Cdiv(numComputed[r], BlockSize)
        /\ Cdiv(numComputed[r], BlockSize) \in Nat
        /\ numComputed[r] \div BlockSize \in Nat
    BY <1>2, CdivProperties, DivProperties
  <2>2. Len(kv.blocks[r]) \in Nat
    BY <1>1, ListFacts
  <2> QED BY <1>2, <2>1, <2>2
<1>8. ArgsOK(kv, r, a)
  BY <1>2, <1>3, <1>5, <1>6, <1>7 DEF ArgsOK
<1> QED BY <1>6, <1>8 DEF a

\* Admission keeps the invariant, whether allocate_slots succeeds or not.
LEMMA AdmitInv ==
    ASSUME Inv, NEW r \in Request, NEW n \in 1..MaxNew, NEW look \in Lookahead,
           Admit(r, n, look)
    PROVE  Inv'
<1> DEFINE hits == GetComputedBlocks(kv, r, numTokens[r])
           a    == Args(r, n, look, hits, TRUE)
           res  == AllocateSlots(kv, r, a)
           x    == IF res.ok THEN LocalComputed(a) + n ELSE numComputed[r]
<1>1. KVOK(kv, Owed(popped)) /\ TokensOK(kv, numComputed, numTokens) /\ PoppedOK(popped)
  BY DEF Inv
<1>2. /\ ~Admitted(r) /\ n =< numTokens[r] - LocalComputed(a) /\ kv' = res.kv
      /\ numComputed' = [numComputed EXCEPT ![r] = x]
      /\ numTokens' = numTokens /\ popped' = popped
  BY DEF Admit
<1>3. n \in Nat /\ look \in Nat
  BY ClientAssumption
<1>4. ArgsOK(kv, r, a) /\ LocalComputed(a) \in Nat
  BY <1>2, <1>3, WaitingArgs
<1>5. a.new = n
  BY DEF Args
<1> HIDE DEF a, res
<1>6. /\ KVOK(res.kv, Owed(popped))
      /\ \A s \in Request \ {r} : res.kv.blocks[s] = kv.blocks[s]
      /\ res.ok => Cdiv(SlotTokens(a), BlockSize) =< Len(res.kv.blocks[r])
      /\ ~res.ok => Len(res.kv.blocks[r]) = Len(kv.blocks[r])
  BY <1>1, <1>4, AllocateSlotsOK DEF res
<1>7. /\ numTokens[r] \in Nat \ {0} /\ numTokens[r] =< MaxModelLen
      /\ numComputed[r] \in Nat /\ numComputed[r] =< MaxModelLen
      /\ Cdiv(numComputed[r], BlockSize) =< Len(kv.blocks[r])
      /\ MaxModelLen \in Nat /\ numTokens \in [Request -> Nat \ {0}]
  BY <1>1, ManagerAssumption DEF TokensOK
<1>8. x \in Nat /\ x =< MaxModelLen /\ Cdiv(x, BlockSize) =< Len(res.kv.blocks[r])
  <2>1. CASE ~res.ok
    BY <1>6, <1>7, <2>1
  <2>2. CASE res.ok
    <3>1. x = LocalComputed(a) + n /\ x \in Nat /\ x =< MaxModelLen
      BY <1>2, <1>3, <1>4, <1>7, <2>2
    <3>2. Cdiv(x, BlockSize) =< Cdiv(SlotTokens(a), BlockSize)
      BY <1>4, <1>5, <3>1, SlotsCover
    <3>3. /\ Cdiv(x, BlockSize) \in Nat /\ Cdiv(SlotTokens(a), BlockSize) \in Nat
      BY <1>4, <3>1, ArgsFacts, CdivProperties
    <3>4. Len(res.kv.blocks[r]) \in Nat
      BY <1>6, ListFacts
    <3> HIDE DEF x
    <3> QED BY <1>6, <2>2, <3>1, <3>2, <3>3, <3>4
  <2> QED BY <2>1, <2>2
<1> HIDE DEF x
<1>9. TokensOK(kv', numComputed', numTokens')
  <2>1. TokensOK(res.kv, [numComputed EXCEPT ![r] = x],
                 [numTokens EXCEPT ![r] = numTokens[r]])
    BY <1>1, <1>6, <1>7, <1>8, TokensUpdate
  <2>2. [numTokens EXCEPT ![r] = numTokens[r]] = numTokens
    BY <1>7
  <2> QED BY <1>2, <2>1, <2>2
<1>10. KVOK(kv', Owed(popped')) /\ PoppedOK(popped')
  BY <1>1, <1>2, <1>6
<1> QED BY <1>9, <1>10 DEF Inv

\* So does scheduling more tokens of a running request.
LEMMA GrowInv ==
    ASSUME Inv, NEW r \in Request, NEW n \in 1..MaxNew, NEW look \in Lookahead,
           Grow(r, n, look)
    PROVE  Inv'
<1> DEFINE a   == Args(r, n, look, <<>>, FALSE)
           res == AllocateSlots(kv, r, a)
           x   == IF res.ok THEN numComputed[r] + n ELSE numComputed[r]
<1>1. KVOK(kv, Owed(popped)) /\ TokensOK(kv, numComputed, numTokens) /\ PoppedOK(popped)
  BY DEF Inv
<1>2. /\ numComputed[r] + n =< MaxModelLen /\ kv' = res.kv
      /\ numComputed' = [numComputed EXCEPT ![r] = x]
      /\ numTokens' = numTokens /\ popped' = popped
  BY DEF Grow
<1>3. n \in Nat /\ look \in Nat
  BY ClientAssumption
<1>4. ArgsOK(kv, r, a) /\ LocalComputed(a) = numComputed[r]
  BY <1>3, RunningArgs
<1>5. a.new = n
  BY DEF Args
<1> HIDE DEF a, res
<1>6. /\ KVOK(res.kv, Owed(popped))
      /\ \A s \in Request \ {r} : res.kv.blocks[s] = kv.blocks[s]
      /\ res.ok => Cdiv(SlotTokens(a), BlockSize) =< Len(res.kv.blocks[r])
      /\ ~res.ok => Len(res.kv.blocks[r]) = Len(kv.blocks[r])
  BY <1>1, <1>4, AllocateSlotsOK DEF res
<1>7. /\ numTokens[r] \in Nat \ {0} /\ numTokens[r] =< MaxModelLen
      /\ numComputed[r] \in Nat /\ numComputed[r] =< MaxModelLen
      /\ Cdiv(numComputed[r], BlockSize) =< Len(kv.blocks[r])
      /\ MaxModelLen \in Nat /\ numTokens \in [Request -> Nat \ {0}]
  BY <1>1, ManagerAssumption DEF TokensOK
<1>8. x \in Nat /\ x =< MaxModelLen /\ Cdiv(x, BlockSize) =< Len(res.kv.blocks[r])
  <2>1. CASE ~res.ok
    BY <1>6, <1>7, <2>1
  <2>2. CASE res.ok
    <3>1. x = LocalComputed(a) + n /\ x \in Nat /\ x =< MaxModelLen
      BY <1>2, <1>3, <1>4, <1>7, <2>2
    <3>2. Cdiv(x, BlockSize) =< Cdiv(SlotTokens(a), BlockSize)
      BY <1>4, <1>5, <3>1, SlotsCover
    <3>3. /\ Cdiv(x, BlockSize) \in Nat /\ Cdiv(SlotTokens(a), BlockSize) \in Nat
      BY <1>4, <3>1, ArgsFacts, CdivProperties
    <3>4. Len(res.kv.blocks[r]) \in Nat
      BY <1>6, ListFacts
    <3> HIDE DEF x
    <3> QED BY <1>6, <2>2, <3>1, <3>2, <3>3, <3>4
  <2> QED BY <2>1, <2>2
<1> HIDE DEF x
<1>9. TokensOK(kv', numComputed', numTokens')
  <2>1. TokensOK(res.kv, [numComputed EXCEPT ![r] = x],
                 [numTokens EXCEPT ![r] = numTokens[r]])
    BY <1>1, <1>6, <1>7, <1>8, TokensUpdate
  <2>2. [numTokens EXCEPT ![r] = numTokens[r]] = numTokens
    BY <1>7
  <2> QED BY <1>2, <2>1, <2>2
<1>10. KVOK(kv', Owed(popped')) /\ PoppedOK(popped')
  BY <1>1, <1>2, <1>6
<1> QED BY <1>9, <1>10 DEF Inv

\* The output of a step: drafts that were rejected are no longer computed.
LEMMA OutputInv ==
    ASSUME Inv, NEW r \in Request, NEW k \in 0..MaxDraft, Output(r, k)
    PROVE  Inv'
<1> DEFINE x == numTokens[r] + k
           y == numTokens[r] + k + 1
<1>1. KVOK(kv, Owed(popped)) /\ TokensOK(kv, numComputed, numTokens) /\ PoppedOK(popped)
  BY DEF Inv
<1>2. /\ k =< numComputed[r] - numTokens[r] /\ y =< MaxModelLen
      /\ numTokens' = [numTokens EXCEPT ![r] = y]
      /\ numComputed' = [numComputed EXCEPT ![r] = x]
      /\ kv' = kv /\ popped' = popped
  BY DEF Output
<1>3. /\ numTokens[r] \in Nat \ {0} /\ numComputed[r] \in Nat /\ MaxModelLen \in Nat
      /\ numComputed[r] =< MaxModelLen
      /\ Cdiv(numComputed[r], BlockSize) =< Len(kv.blocks[r])
      /\ k \in Nat
  BY <1>1, ClientAssumption, ManagerAssumption DEF TokensOK
<1>4. x \in Nat /\ x =< numComputed[r] /\ x =< MaxModelLen /\ y \in Nat \ {0}
  BY <1>2, <1>3
<1> HIDE DEF x, y
<1>5. Cdiv(x, BlockSize) =< Len(kv.blocks[r])
  <2>1. /\ Cdiv(x, BlockSize) =< Cdiv(numComputed[r], BlockSize)
        /\ Cdiv(x, BlockSize) \in Nat /\ Cdiv(numComputed[r], BlockSize) \in Nat
    BY <1>3, <1>4, CdivProperties
  <2>2. Len(kv.blocks[r]) \in Nat
    BY <1>1, ListFacts
  <2> QED BY <1>3, <2>1, <2>2
<1>6. TokensOK(kv, [numComputed EXCEPT ![r] = x], [numTokens EXCEPT ![r] = y])
  BY <1>1, <1>2, <1>4, <1>5, TokensUpdate
<1> QED BY <1>1, <1>2, <1>6 DEF Inv

\* cache_blocks after the step.
LEMMA CommitInv ==
    ASSUME Inv, NEW r \in Request, Commit(r)
    PROVE  Inv'
<1> DEFINE done == Min2(numComputed[r], numTokens[r])
<1>1. KVOK(kv, Owed(popped)) /\ TokensOK(kv, numComputed, numTokens) /\ PoppedOK(popped)
  BY DEF Inv
<1>2. /\ kv' = CacheBlocks(kv, r, done)
      /\ numTokens' = numTokens /\ numComputed' = numComputed /\ popped' = popped
  BY DEF Commit
<1>3. /\ numTokens[r] \in Nat \ {0} /\ numComputed[r] \in Nat
      /\ Cdiv(numComputed[r], BlockSize) =< Len(kv.blocks[r])
      /\ BlockSize \in Nat \ {0}
  BY <1>1, ManagerAssumption DEF TokensOK
<1>4. done \in Nat /\ done =< numComputed[r]
  BY <1>3 DEF Min2
<1> HIDE DEF done
<1>5. done \div BlockSize =< Len(kv.blocks[r])
  <2>1. /\ done \div BlockSize =< Cdiv(done, BlockSize)
        /\ Cdiv(done, BlockSize) =< Cdiv(numComputed[r], BlockSize)
        /\ done \div BlockSize \in Nat
        /\ Cdiv(done, BlockSize) \in Nat /\ Cdiv(numComputed[r], BlockSize) \in Nat
    BY <1>3, <1>4, CdivProperties, DivProperties
  <2>2. Len(kv.blocks[r]) \in Nat
    BY <1>1, ListFacts
  <2> QED BY <1>3, <2>1, <2>2
<1>6. KVOK(kv', Owed(popped)) /\ kv'.blocks = kv.blocks
  BY <1>1, <1>2, <1>4, <1>5, CacheBlocksOK
<1>7. TokensOK(kv', numComputed, numTokens)
  BY <1>1, <1>6 DEF TokensOK
<1> QED BY <1>1, <1>2, <1>6, <1>7 DEF Inv

\* A released request has no tokens computed.
LEMMA ReleasedTokens ==
    ASSUME Inv, NEW r \in Request, Released(r),
           NEW k2, k2.blocks[r] = <<>>,
           \A s \in Request \ {r} : k2.blocks[s] = kv.blocks[s]
    PROVE  TokensOK(k2, numComputed', numTokens')
<1>1. TokensOK(kv, numComputed, numTokens)
  BY DEF Inv
<1>2. PICK y \in {numTokens[r], PromptLen[r]} : numTokens' = [numTokens EXCEPT ![r] = y]
  BY DEF Released
<1>3. numComputed' = [numComputed EXCEPT ![r] = 0]
  BY DEF Released
<1>4. y \in Nat \ {0} /\ y =< MaxModelLen /\ 0 =< MaxModelLen
  <2>1. PromptLen[r] \in 1..(MaxModelLen - 1) /\ MaxModelLen \in Nat
    BY ClientAssumption, ManagerAssumption
  <2>2. numTokens[r] \in Nat \ {0} /\ numTokens[r] =< MaxModelLen
    BY <1>1 DEF TokensOK
  <2> QED BY <2>1, <2>2
<1>5. 0 \in Nat /\ Cdiv(0, BlockSize) =< Len(k2.blocks[r])
  BY CdivProperties
<1>6. TokensOK(k2, [numComputed EXCEPT ![r] = 0], [numTokens EXCEPT ![r] = y])
  BY <1>1, <1>4, <1>5, TokensUpdate
<1> QED BY <1>2, <1>3, <1>6

\* Preemption and the end of a request, freed at once.
LEMMA ReleaseInv ==
    ASSUME Inv, NEW r \in Request, Release(r)
    PROVE  Inv'
<1>1. KVOK(kv, Owed(popped)) /\ PoppedOK(popped) /\ kv \in KV
  BY DEF Inv, KVOK
<1>2. kv' = Free(kv, r) /\ Released(r) /\ popped' = popped
  BY DEF Release
<1>3. KVOK(kv', Owed(popped)) /\ kv'.blocks[r] = <<>>
  BY <1>1, <1>2, FreeOK
<1>4. \A s \in Request \ {r} : kv'.blocks[s] = kv.blocks[s]
  BY <1>1, <1>2, FreeKeeps DEF KeepsOthers
<1>5. TokensOK(kv', numComputed', numTokens')
  BY <1>2, <1>3, <1>4, ReleasedTokens
<1> QED BY <1>1, <1>2, <1>3, <1>5 DEF Inv

\* The same, with the free deferred: the references of r become owed.
LEMMA PopInv ==
    ASSUME Inv, NEW r \in Request, NEW t \in Ticket, Pop(r, t)
    PROVE  Inv'
<1>1. KVOK(kv, Owed(popped)) /\ PoppedOK(popped) /\ kv \in KV
  BY DEF Inv, KVOK
<1>2. /\ popped[t] = <<>> /\ kv' = PopBlocks(kv, r) /\ Released(r)
      /\ popped' = [popped EXCEPT ![t] = kv.blocks[r]]
  BY DEF Pop
<1>3. /\ popped'[t] = kv.blocks[r]
      /\ \A u \in Ticket \ {t} : popped'[u] = popped[u]
      /\ popped' \in [Ticket -> Seq(Block \cup {NullBlock})]
  BY <1>1, <1>2 DEF PoppedOK, KV
<1>4. /\ Owed(popped') \in [Block -> Nat]
      /\ \A b \in Block : Owed(popped')[b] = IF b \in Range(kv.blocks[r])
                                             THEN Owed(popped)[b] + 1
                                             ELSE Owed(popped)[b]
  <2>1. popped[t] = <<>> /\ \A u \in Ticket \ {t} : popped'[u] = popped[u]
    BY <1>2, <1>3
  <2>2. /\ Owed(popped') \in [Block -> Nat]
        /\ \A b \in Block : Owed(popped')[b] = IF b \in Range(popped'[t])
                                               THEN Owed(popped)[b] + 1
                                               ELSE Owed(popped)[b]
    BY <2>1, OwedPop
  <2> QED BY <1>3, <2>2
<1>5. KVOK(kv', Owed(popped')) /\ kv'.blocks[r] = <<>>
  <2> DEFINE owed  == Owed(popped)
             owed2 == Owed(popped')
  <2>1. KVOK(kv, owed) /\ owed2 \in [Block -> Nat]
        /\ \A b \in Block : owed2[b] = IF b \in Range(kv.blocks[r]) THEN owed[b] + 1
                                                                   ELSE owed[b]
    BY <1>1, <1>4
  <2> HIDE DEF owed, owed2
  <2>2. KVOK(PopBlocks(kv, r), owed2) /\ PopBlocks(kv, r).blocks[r] = <<>>
    BY <2>1, PopBlocksOK
  <2> QED BY <1>2, <2>2 DEF owed2
<1>6. \A s \in Request \ {r} : kv'.blocks[s] = kv.blocks[s]
  BY <1>1, <1>2, PopKeeps DEF KeepsOthers
<1>7. TokensOK(kv', numComputed', numTokens')
  BY <1>2, <1>5, <1>6, ReleasedTokens
<1>8. PoppedOK(popped')
  <2>1. NoRepeat(kv.blocks[r])
    BY <1>1 DEF KVOK, RequestOK
  <2> QED BY <1>1, <1>3, <2>1 DEF PoppedOK
<1> QED BY <1>5, <1>7, <1>8 DEF Inv

\* A pending free is carried out: every block on the list is still referenced.
LEMMA FreePoppedInv ==
    ASSUME Inv, NEW t \in Ticket, FreePopped(t)
    PROVE  Inv'
<1> DEFINE blks == popped[t]
           tail == TailFirst(blks)
           q    == FreeBlocks(kv.pool, tail)
<1>1. /\ KVOK(kv, Owed(popped)) /\ PoppedOK(popped) /\ kv \in KV /\ PoolOK(kv.pool)
      /\ TokensOK(kv, numComputed, numTokens)
  BY DEF Inv, KVOK
<1>2. /\ kv' = [kv EXCEPT !.pool = q] /\ popped' = [popped EXCEPT ![t] = <<>>]
      /\ numComputed' = numComputed /\ numTokens' = numTokens
  BY DEF FreePopped
<1>3. /\ popped'[t] = <<>> /\ \A u \in Ticket \ {t} : popped[u] = popped'[u]
      /\ popped' \in [Ticket -> Seq(Block \cup {NullBlock})]
      /\ blks \in Seq(Block \cup {NullBlock}) /\ NoRepeat(blks)
  <2>1. <<>> \in Seq(Block \cup {NullBlock})
    BY EmptySeq
  <2> QED BY <1>1, <1>2, <2>1 DEF PoppedOK
<1>4. /\ Owed(popped) \in [Block -> Nat] /\ Owed(popped') \in [Block -> Nat]
      /\ \A b \in Block : Owed(popped)[b] = IF b \in Range(blks)
                                            THEN Owed(popped')[b] + 1
                                            ELSE Owed(popped')[b]
  BY <1>3, OwedPop
<1>5. /\ tail \in Seq(Block \cup {NullBlock}) /\ NoRepeat(tail)
      /\ Range(tail) = Range(blks)
  BY <1>3, TailFirstOK
<1>6. \A b \in Range(tail) \ {NullBlock} : kv.pool.refCnt[b] # 0
  <2> SUFFICES ASSUME NEW b \in Range(blks) \ {NullBlock}
               PROVE  kv.pool.refCnt[b] # 0
    BY <1>5
  <2>1. b \in Block
    BY <1>3, RangeOfSeq
  <2>2. Owed(popped)[b] # 0
    <3>1. Owed(popped')[b] \in Nat
      BY <1>4, <2>1
    <3> QED BY <1>4, <2>1, <3>1
  <2> QED BY <1>1, <2>1, <2>2, FreshUnheld
<1> HIDE DEF tail
<1>7. /\ PoolOK(q) /\ q.hash = kv.pool.hash
      /\ q.refCnt = [b \in Block |-> IF b \in Range(tail) \ {NullBlock}
                                     THEN kv.pool.refCnt[b] - 1 ELSE kv.pool.refCnt[b]]
  BY <1>1, <1>5, <1>6, FreeBlocksOK
<1> HIDE DEF q
<1>8. ASSUME NEW b \in Block
      PROVE  /\ q.hash[b] \in {NoHash, kv.pool.hash[b]}
             /\ Owed(popped')[b] =< Owed(popped)[b]
             /\ q.refCnt[b] = kv.pool.refCnt[b] + Owed(popped')[b] - Owed(popped)[b]
  <2>1. /\ b # NullBlock /\ kv.pool.refCnt[b] \in Nat
        /\ Owed(popped)[b] \in Nat /\ Owed(popped')[b] \in Nat
    BY <1>1, <1>4, PoolAssumption DEF Block, NullBlock, PoolOK, Pool
  <2>2. CASE b \in Range(blks)
    <3>1. q.refCnt[b] = kv.pool.refCnt[b] - 1 /\ Owed(popped)[b] = Owed(popped')[b] + 1
      BY <1>4, <1>5, <1>7, <2>1, <2>2
    <3> QED BY <1>7, <2>1, <3>1
  <2>3. CASE b \notin Range(blks)
    <3>1. q.refCnt[b] = kv.pool.refCnt[b] /\ Owed(popped)[b] = Owed(popped')[b]
      BY <1>4, <1>5, <1>7, <2>3
    <3> QED BY <1>7, <2>1, <3>1
  <2> QED BY <2>2, <2>3
<1>9. KVOK(kv', Owed(popped')) /\ kv'.blocks = kv.blocks
  <2> DEFINE owed  == Owed(popped)
             owed2 == Owed(popped')
  <2>1. KVOK(kv, owed) /\ owed2 \in [Block -> Nat] /\ PoolOK(q)
    BY <1>1, <1>4, <1>7
  <2>2. \A b \in Block : /\ q.hash[b] \in {NoHash, kv.pool.hash[b]}
                         /\ owed2[b] =< owed[b]
                         /\ q.refCnt[b] = kv.pool.refCnt[b] + owed2[b] - owed[b]
    BY <1>8
  <2> HIDE DEF owed, owed2
  <2>3. KVOK([kv EXCEPT !.pool = q], owed2) /\ [kv EXCEPT !.pool = q].blocks = kv.blocks
    BY <2>1, <2>2, PoolOnly
  <2> QED BY <1>2, <2>3 DEF owed2
<1>10. TokensOK(kv', numComputed', numTokens')
  BY <1>1, <1>2, <1>9 DEF TokensOK
<1>11. PoppedOK(popped')
  <2>1. NoRepeat(<<>>)
    BY DEF NoRepeat
  <2> QED BY <1>1, <1>3, <2>1 DEF PoppedOK
<1> QED BY <1>9, <1>10, <1>11 DEF Inv

\* Dropping hashes, for some blocks or for all, leaves the rest alone.
LEMMA DropHashesInv ==
    ASSUME Inv, NEW q, PoolOK(q), q.refCnt = kv.pool.refCnt,
           \A b \in Block : q.hash[b] \in {NoHash, kv.pool.hash[b]},
           kv' = [kv EXCEPT !.pool = q],
           UNCHANGED <<numComputed, numTokens, popped>>
    PROVE  Inv'
<1> DEFINE owed == Owed(popped)
<1>1. /\ KVOK(kv, owed) /\ PoppedOK(popped) /\ owed \in [Block -> Nat]
      /\ TokensOK(kv, numComputed, numTokens) /\ kv.pool \in Pool
  BY DEF Inv, KVOK, PoolOK
<1> HIDE DEF owed
<1>2. \A b \in Block : /\ q.hash[b] \in {NoHash, kv.pool.hash[b]}
                       /\ owed[b] =< owed[b]
                       /\ q.refCnt[b] = kv.pool.refCnt[b] + owed[b] - owed[b]
  <2> SUFFICES ASSUME NEW b \in Block
               PROVE  /\ owed[b] =< owed[b]
                      /\ q.refCnt[b] = kv.pool.refCnt[b] + owed[b] - owed[b]
    OBVIOUS
  <2>1. owed[b] \in Nat /\ kv.pool.refCnt[b] \in Nat
    BY <1>1 DEF Pool
  <2> QED BY <2>1
<1>3. KVOK([kv EXCEPT !.pool = q], owed) /\ [kv EXCEPT !.pool = q].blocks = kv.blocks
  BY <1>1, <1>2, PoolOnly
<1>4. TokensOK(kv', numComputed, numTokens)
  BY <1>1, <1>3 DEF TokensOK
<1> QED BY <1>1, <1>3, <1>4 DEF Inv, owed

\* evict_blocks, of blocks in use or not.
LEMMA EvictBlocksInv ==
    ASSUME Inv, NEW B \in SUBSET Block, EvictBlocks(B)
    PROVE  Inv'
<1> DEFINE q == Evict(kv.pool, B)
<1>1. PoolOK(kv.pool)
  BY DEF Inv, KVOK
<1>2. /\ PoolOK(q) /\ q.refCnt = kv.pool.refCnt
      /\ q.hash = [b \in Block |-> IF b \in B THEN NoHash ELSE kv.pool.hash[b]]
  BY <1>1, EvictOK
<1>3. kv' = [kv EXCEPT !.pool = q] /\ UNCHANGED <<numComputed, numTokens, popped>>
  BY DEF EvictBlocks
<1> HIDE DEF q
<1>4. \A b \in Block : q.hash[b] \in {NoHash, kv.pool.hash[b]}
  BY <1>2
<1> QED BY <1>2, <1>3, <1>4, DropHashesInv

\* reset_prefix_cache.
LEMMA ResetInv ==
    ASSUME Inv, Reset
    PROVE  Inv'
<1> DEFINE q == ResetPrefixCache(kv.pool)
<1>1. PoolOK(kv.pool)
  BY DEF Inv, KVOK
<1>2. /\ PoolOK(q) /\ q.refCnt = kv.pool.refCnt /\ q.hash = [b \in Block |-> NoHash]
  BY <1>1, ResetPrefixCacheOK
<1>3. kv' = [kv EXCEPT !.pool = q] /\ UNCHANGED <<numComputed, numTokens, popped>>
  BY DEF Reset
<1> HIDE DEF q
<1>4. \A b \in Block : q.hash[b] \in {NoHash, kv.pool.hash[b]}
  BY <1>2
<1> QED BY <1>2, <1>3, <1>4, DropHashesInv

\* Inv is an invariant of every caller that respects the protocol.
THEOREM Invariance == Spec => []Inv
<1>1. Init => Inv
  BY InitInv
<1>2. Inv /\ [Next]_vars => Inv'
  <2> SUFFICES ASSUME Inv, [Next]_vars PROVE Inv'
    OBVIOUS
  <2>1. ASSUME NEW r \in Request, NEW n \in 1..MaxNew, NEW look \in Lookahead,
               Admit(r, n, look)
        PROVE  Inv'
    BY <2>1, AdmitInv
  <2>2. ASSUME NEW r \in Request, NEW n \in 1..MaxNew, NEW look \in Lookahead,
               Grow(r, n, look)
        PROVE  Inv'
    BY <2>2, GrowInv
  <2>3. ASSUME NEW r \in Request, Commit(r) PROVE Inv'
    BY <2>3, CommitInv
  <2>4. ASSUME NEW r \in Request, Release(r) PROVE Inv'
    BY <2>4, ReleaseInv
  <2>5. ASSUME NEW r \in Request, NEW k \in 0..MaxDraft, Output(r, k) PROVE Inv'
    BY <2>5, OutputInv
  <2>6. ASSUME NEW r \in Request, NEW t \in Ticket, Pop(r, t) PROVE Inv'
    BY <2>6, PopInv
  <2>7. ASSUME NEW t \in Ticket, FreePopped(t) PROVE Inv'
    BY <2>7, FreePoppedInv
  <2>8. ASSUME NEW b \in Evictable, EvictBlocks({b}) PROVE Inv'
    <3>1. {b} \in SUBSET Block
      BY ClientAssumption
    <3> QED BY <2>8, <3>1, EvictBlocksInv
  <2>9. CASE Reset
    BY <2>9, ResetInv
  <2>10. CASE UNCHANGED vars
    BY <2>10 DEF vars, Inv
  <2> QED BY <2>1, <2>2, <2>3, <2>4, <2>5, <2>6, <2>7, <2>8, <2>9, <2>10 DEF Next
<1> QED BY <1>1, <1>2, PTL DEF Spec
-----------------------------------------------------------------------------
(* What the invariant implies.                                             *)

\* The state of the manager keeps the shape of the objects of the code; in
\* particular free_blocks never makes a reference count negative.
THEOREM TypeCorrect == Spec => []TypeOK
<1>1. Inv => TypeOK
  <2> SUFFICES ASSUME Inv PROVE TypeOK
    OBVIOUS
  <2>1. kv \in KV
    BY DEF Inv, KVOK
  <2>2. numComputed \in [Request -> Nat] /\ numTokens \in [Request -> Nat \ {0}]
    BY DEF Inv, TokensOK
  <2>3. numTokens \in [Request -> Nat]
    BY <2>2
  <2>4. popped \in [Ticket -> Seq(Block \cup {NullBlock})]
    BY DEF Inv, PoppedOK
  <2> QED BY <2>1, <2>2, <2>3, <2>4 DEF TypeOK, KV
<1> QED BY <1>1, Invariance, PTL

\* ref_cnt of a block is the number of its holders, whatever touch,
\* get_new_blocks, remove_skipped_blocks, free and deferred frees do.
THEOREM RefCounts == Spec => []RefCntExact
<1>1. Inv => RefCntExact
  <2> SUFFICES ASSUME Inv, NEW b \in Block
               PROVE  kv.pool.refCnt[b] = Cardinality(HoldersOf(b))
                                            + Cardinality(TicketsOf(b))
    BY DEF RefCntExact
  <2>1. kv.pool.refCnt[b] = Cardinality(Holders(kv, b)) + Owed(popped)[b]
    BY DEF Inv, KVOK, CountsOK
  <2>2. Owed(popped)[b] = Cardinality(Tickets(popped, b))
    BY DEF Owed
  <2> QED BY <2>1, <2>2 DEF HoldersOf, Holders, TicketsOf, Tickets
<1> QED BY <1>1, Invariance, PTL

\* The free queue holds the unreferenced blocks, each once.
THEOREM FreeQueue == Spec => []FreeQueueExact
<1>1. Inv => FreeQueueExact
  BY DEF Inv, KVOK, PoolOK, QueueExact, FreeQueueExact
<1> QED BY <1>1, Invariance, PTL

\* The hash map and the hashes in the blocks agree.
THEOREM CacheMap == Spec => []CacheMapExact
<1>1. Inv => CacheMapExact
  BY DEF Inv, KVOK, PoolOK, MapExact, CacheMapExact
<1> QED BY <1>1, Invariance, PTL

\* A subscriber to the KV events knows the cache.
THEOREM EventsReplay == Spec => []EventsReplayCache
<1>1. Inv => EventsReplayCache
  BY DEF Inv, KVOK, PoolOK, MapExact, EventsReplayCache
<1> QED BY <1>1, Invariance, PTL

\* No request ever reads the blocks of another prefix.
THEOREM PrefixMatch == Spec => []BlocksMatchPrefix
<1>1. Inv => BlocksMatchPrefix
  <2> SUFFICES ASSUME Inv, NEW r \in Request, NEW i \in DOMAIN kv.blocks[r],
                      kv.blocks[r][i] # NullBlock
               PROVE  kv.pool.hash[kv.blocks[r][i]] \in {NoHash, BlockHash[r][i]}
    BY DEF BlocksMatchPrefix
  <2>1. KVOK(kv, Owed(popped)) /\ RequestOK(kv, Owed(popped), r)
    BY DEF Inv, KVOK
  <2>2. i \in 1..Len(kv.blocks[r])
    BY <2>1, ListFacts
  <2> QED BY <2>1, <2>2 DEF RequestOK, PositionOK
<1> QED BY <1>1, Invariance, PTL

\* No request writes to a block that is cached or that another one holds.
THEOREM PrivateTail == Spec => []TailIsPrivate
<1>1. Inv => TailIsPrivate
  <2> DEFINE B(r, i) == kv.blocks[r][i]
  <2> SUFFICES ASSUME Inv, NEW r \in Request, NEW i \in DOMAIN kv.blocks[r],
                      i > kv.numCached[r], B(r, i) # NullBlock
               PROVE  /\ kv.pool.hash[B(r, i)] = NoHash
                      /\ HoldersOf(B(r, i)) = {r} /\ TicketsOf(B(r, i)) = {}
    BY DEF TailIsPrivate
  <2>1. KVOK(kv, Owed(popped)) /\ RequestOK(kv, Owed(popped), r)
    BY DEF Inv, KVOK
  <2>2. i \in 1..Len(kv.blocks[r]) /\ B(r, i) \in Range(kv.blocks[r])
        /\ \A b \in Range(kv.blocks[r]) \ {NullBlock} : b \in Block
    <3>1. /\ DOMAIN kv.blocks[r] = 1..Len(kv.blocks[r])
          /\ \A j \in 1..Len(kv.blocks[r]) : kv.blocks[r][j] \in Range(kv.blocks[r])
          /\ \A b \in Range(kv.blocks[r]) \ {NullBlock} : b \in Block
      BY <2>1, ListFacts
    <3> QED BY <3>1
  <2>3. /\ kv.pool.hash[B(r, i)] = NoHash
        /\ Holders(kv, B(r, i)) = {r} /\ Owed(popped)[B(r, i)] = 0
    BY <2>1, <2>2 DEF RequestOK, PositionOK
  <2> HIDE DEF B
  <2>4. Cardinality(Tickets(popped, B(r, i))) = 0
    BY <2>2, <2>3 DEF Owed
  <2>5. Tickets(popped, B(r, i)) = {}
    BY <2>4, TicketsFinite, FS_EmptySet
  <2> QED BY <2>3, <2>5 DEF HoldersOf, Holders, TicketsOf, Tickets
<1> QED BY <1>1, Invariance, PTL

\* get_new_blocks never raises after the gate of allocate_slots.
THEOREM GateSuffices == Spec => []GateCoversAllocation
<1>1. Inv => GateCoversAllocation
  <2> DEFINE hits(r) == IF Admitted(r) THEN <<>>
                        ELSE GetComputedBlocks(kv, r, numTokens[r])
             a(r, n, look) == Args(r, n, look, hits(r), FALSE)
             trim(r, n, look) == RemoveSkippedBlocks(kv, r, TotalComputed(a(r, n, look)))
             hit(r, n, look) == WithHits(trim(r, n, look), r, a(r, n, look))
  <2> SUFFICES ASSUME Inv, NEW r \in Request, NEW n \in 1..MaxNew, NEW look \in Lookahead,
                      CanAllocate(trim(r, n, look), r, a(r, n, look))
               PROVE  Cdiv(SlotTokens(a(r, n, look)), BlockSize)
                         - Len(hit(r, n, look).blocks[r])
                            =< Len(hit(r, n, look).pool.free)
    BY DEF GateCoversAllocation, NumFree
  <2>1. n \in Nat /\ look \in Nat
    BY ClientAssumption
  <2>2. ArgsOK(kv, r, a(r, n, look))
    <3>1. CASE Admitted(r)
      BY <2>1, <3>1, RunningArgs
    <3>2. CASE ~Admitted(r)
      BY <2>1, <3>2, WaitingArgs
    <3> QED BY <3>1, <3>2
  <2>3. KVOK(kv, Owed(popped))
    BY DEF Inv
  <2> HIDE DEF a
  <2> QED BY <2>2, <2>3, GateOK
<1> QED BY <1>1, Invariance, PTL
=============================================================================
