----------------------------- MODULE BlockPool -----------------------------
(***************************************************************************)
(* The pool of KV cache blocks (vllm/v1/core/block_pool.py), as functions  *)
(* on a record p:                                                          *)
(*                                                                         *)
(*   p.free       the free block queue, first to be evicted first (the     *)
(*                linked list itself is module FreeKVCacheBlockQueue)      *)
(*   p.refCnt     KVCacheBlock.ref_cnt                                     *)
(*   p.hash       KVCacheBlock.block_hash                                  *)
(*   p.cached     BlockHashToBlockMap: the blocks of a hash, in the order  *)
(*                they were inserted                                       *)
(*   p.published  the KV events emitted so far, as a subscriber replaying  *)
(*                them counts them: stored minus removed, per hash         *)
(*                                                                         *)
(* Block ids are 0..NumGpuBlocks-1.  Block 0 is the null block: the code   *)
(* does not maintain its reference count, and neither does p.              *)
(***************************************************************************)
EXTENDS Integers, Sequences, FiniteSets, Functions

CONSTANTS NumGpuBlocks,   \* the size of the pool, null block included
          Hash,           \* the hashes of full blocks
          NoHash          \* block_hash = None

ASSUME PoolAssumption == /\ NumGpuBlocks \in Nat \ {0}
                         /\ NoHash \notin Hash

NullBlock == 0
Block == 1..(NumGpuBlocks - 1)

Pool == [free : Seq(Block), refCnt : [Block -> Nat],
         hash : [Block -> Hash \cup {NoHash}],
         cached : [Hash -> Seq(Block)], published : [Hash -> Int]]

\* The subsequence of s of the elements that belong to S.
Filter(s, S) ==
    LET kept   == {i \in DOMAIN s : s[i] \in S}
        Nth(k) == CHOOSE i \in kept : Cardinality({j \in kept : j =< i}) = k
    IN  [k \in 1..Cardinality(kept) |-> s[Nth(k)]]

Without(s, S) == Filter(s, Range(s) \ S)

InitPool ==
    [free      |-> [i \in 1..(NumGpuBlocks - 1) |-> i],
     refCnt    |-> [b \in Block |-> 0],
     hash      |-> [b \in Block |-> NoHash],
     cached    |-> [h \in Hash |-> <<>>],
     published |-> [h \in Hash |-> 0]]

NumFree(p) == Len(p.free)

IsCached(p, h) == p.cached[h] # <<>>
GetCachedBlock(p, h) == Head(p.cached[h])

\* Mutant: the entry of an evicted block stays in the map.
Evict_KeepsMap(p, B) ==
    [p EXCEPT !.hash = [b \in Block |-> IF b \in B THEN NoHash ELSE p.hash[b]]]

\* Mutant: no BlockRemoved event.
Evict_NoEvent(p, B) ==
    LET gone == {b \in B : p.hash[b] # NoHash}
    IN  [p EXCEPT
          !.hash = [b \in Block |-> IF b \in gone THEN NoHash ELSE p.hash[b]],
          !.cached = [h \in Hash |-> Without(p.cached[h], gone)]]

\* _maybe_evict_cached_block for every block of B.
Evict(p, B) ==
    LET gone == {b \in B : /\ p.hash[b] # NoHash
                           /\ b \in Range(p.cached[p.hash[b]])}
    IN  [p EXCEPT
          !.hash = [b \in Block |-> IF b \in gone THEN NoHash ELSE p.hash[b]],
          !.cached = [h \in Hash |->
                        IF \E b \in gone : p.hash[b] = h
                        THEN Without(p.cached[h], gone) ELSE p.cached[h]],
          !.published = [h \in Hash |->
                           @[h] - Cardinality({b \in gone : p.hash[b] = h})]]

\* Mutant: a reallocated block keeps its hash.
GetNewBlocks_NoEvict(p, n) ==
    LET blks == SubSeq(p.free, 1, n)
    IN  [blocks |-> blks,
         pool   |-> [p EXCEPT
                      !.free = SubSeq(p.free, n + 1, Len(p.free)),
                      !.refCnt = [b \in Block |-> IF b \in Range(blks)
                                                  THEN p.refCnt[b] + 1
                                                  ELSE p.refCnt[b]]]]

\* The caller has checked n =< NumFree(p); GateCoversAllocation is that check.
GetNewBlocks(p, n) ==
    LET blks == SubSeq(p.free, 1, n)
        q    == Evict(p, Range(blks))
    IN  [blocks |-> blks,
         pool   |-> [q EXCEPT
                      !.free = SubSeq(p.free, n + 1, Len(p.free)),
                      !.refCnt = [b \in Block |-> IF b \in Range(blks)
                                                  THEN p.refCnt[b] + 1
                                                  ELSE p.refCnt[b]]]]

\* Mutant: a hit takes the block out of the free queue only.
Touch_NoRef(p, blks) == [p EXCEPT !.free = Without(p.free, Range(blks))]

\* Mutant: a hit on a free block leaves it in the free queue.
Touch_KeepsFree(p, blks) ==
    [p EXCEPT !.refCnt = [b \in Block |-> IF b \in Range(blks) THEN p.refCnt[b] + 1
                                                               ELSE p.refCnt[b]]]

Touch(p, blks) ==
    LET hit == Range(blks) \ {NullBlock}
    IN  [p EXCEPT
          !.free = Without(p.free, {b \in hit : p.refCnt[b] = 0}),
          !.refCnt = [b \in Block |-> IF b \in hit THEN p.refCnt[b] + 1
                                                   ELSE p.refCnt[b]]]

\* Mutant: blocks without a hash are appended like the others.
FreeBlocks_AppendAll(p, ordered) ==
    LET released == Range(ordered) \ {NullBlock}
    IN  [p EXCEPT
          !.free = p.free \o Filter(ordered, {b \in released : p.refCnt[b] = 1}),
          !.refCnt = [b \in Block |-> IF b \in released THEN p.refCnt[b] - 1
                                                        ELSE p.refCnt[b]]]

\* Blocks without a hash go to the front of the queue, the others to the back,
\* both in the order given.
FreeBlocks(p, ordered) ==
    LET released == Range(ordered) \ {NullBlock}
        idle     == {b \in released : p.refCnt[b] = 1}
        hashed   == {b \in idle : p.hash[b] # NoHash}
    IN  [p EXCEPT
          !.free = Filter(ordered, idle \ hashed) \o p.free
                       \o Filter(ordered, hashed),
          !.refCnt = [b \in Block |-> IF b \in released THEN p.refCnt[b] - 1
                                                        ELSE p.refCnt[b]]]

\* Blocks from+1..to of a request whose i-th block hash is hashes[i].
CacheFullBlocks(p, hashes, blks, from, to) ==
    LET new == {i \in (from + 1)..to : blks[i] # NullBlock}
    IN  [p EXCEPT
          !.hash = [b \in Block |->
                      IF \E i \in new : blks[i] = b
                      THEN hashes[CHOOSE i \in new : blks[i] = b] ELSE p.hash[b]],
          !.cached = [h \in Hash |->
                        IF \E i \in new : hashes[i] = h
                        THEN Append(p.cached[h],
                                    blks[CHOOSE i \in new : hashes[i] = h])
                        ELSE p.cached[h]],
          !.published = [h \in Hash |->
                           IF \E i \in new : hashes[i] = h THEN @[h] + 1
                                                           ELSE @[h]]]

\* reset_prefix_cache succeeds only when no block but the null block is used.
CanReset(p) == NumGpuBlocks - NumFree(p) = 1

ResetPrefixCache(p) ==
    [p EXCEPT !.hash      = [b \in Block |-> NoHash],
              !.cached    = [h \in Hash |-> <<>>],
              !.published = [h \in Hash |-> 0]]
=============================================================================
