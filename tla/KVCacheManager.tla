--------------------------- MODULE KVCacheManager ---------------------------
(***************************************************************************)
(* KVCacheManager over the unitary coordinator: one KV cache group, whose  *)
(* manager is FullAttentionManager, SlidingWindowManager or                *)
(* ChunkedLocalAttentionManager, prefix caching enabled.  The operations   *)
(* are functions on a record kv:                                           *)
(*                                                                         *)
(*   kv.pool       the block pool (module BlockPool)                       *)
(*   kv.blocks     req_to_blocks: the blocks of a request, in order        *)
(*   kv.numCached  num_cached_block: how many of them are cached, or       *)
(*                 Untracked when the request has no entry                 *)
(*                                                                         *)
(* A request's tokens are abstracted to the hashes of its full blocks:     *)
(* BlockHash[r][i] is the hash of its i-th block and of all those before   *)
(* it, so that two requests share a hash exactly when they share a prefix. *)
(***************************************************************************)
EXTENDS BlockPool

CONSTANTS Request,          \* request ids
          BlockHash,        \* Request.block_hashes, one per full block
          BlockSize,        \* tokens per block
          MaxModelLen,      \* tokens per request
          AttnKind,         \* "full", "sliding" or "chunked"
          AttnSize,         \* sliding_window or attention_chunk_size
          UseEagle,         \* drop the last block of a hit (EAGLE / MTP)
          MaxNumBatchedTokens,
          WatermarkBlocks   \* kept free when a waiting request is admitted

MaxBlocks == (MaxModelLen + BlockSize - 1) \div BlockSize

ASSUME ManagerAssumption ==
    /\ IsFiniteSet(Request)
    /\ BlockSize \in Nat \ {0}
    /\ MaxModelLen \in Nat \ {0}
    /\ AttnKind \in {"full", "sliding", "chunked"}
    /\ AttnSize \in Nat \ {0}
    /\ AttnKind = "sliding" => AttnSize > 1   \* a window of one caches nothing
    /\ UseEagle \in BOOLEAN
    /\ MaxNumBatchedTokens \in Nat \ {0}
    /\ WatermarkBlocks \in Nat

\* Block hashes are chained: the hash of a block determines its position and
\* the hash of the block before it.
ASSUME HashAssumption ==
    /\ BlockHash \in [Request -> [1..MaxBlocks -> Hash]]
    /\ \A q, r \in Request : \A i, j \in 1..MaxBlocks :
          BlockHash[q][i] = BlockHash[r][j] =>
              /\ i = j
              /\ i > 1 => BlockHash[q][i - 1] = BlockHash[r][i - 1]

Untracked == -1
Cdiv(a, b) == (a + b - 1) \div b
Min2(a, b) == IF a =< b THEN a ELSE b
Max2(a, b) == IF a >= b THEN a ELSE b

InitKV == [pool      |-> InitPool,
           blocks    |-> [r \in Request |-> <<>>],
           numCached |-> [r \in Request |-> Untracked]]

\* get_num_skipped_tokens: tokens no longer attended to once n are computed.
NumSkippedTokens(n) ==
    CASE AttnKind = "full"    -> 0
      [] AttnKind = "sliding" -> Max2(0, n - AttnSize + 1)
      [] AttnKind = "chunked" -> (n \div AttnSize) * AttnSize

NumSkippedBlocks(n) == NumSkippedTokens(n) \div BlockSize

\* _max_admission_blocks_per_request; a full-attention request has no cap.
AdmissionCap(n) ==
    CASE AttnKind = "full"    -> n
      [] AttnKind = "sliding" ->
           Min2(n, Cdiv(Min2(AttnSize - 1 + MaxNumBatchedTokens, MaxModelLen),
                        BlockSize) + 1)
      [] AttnKind = "chunked" ->
           Min2(n, Cdiv(Min2(AttnSize + MaxNumBatchedTokens, MaxModelLen),
                        BlockSize))
-----------------------------------------------------------------------------
(* Prefix cache lookup: find_longest_cache_hit of the three managers.      *)

\* The largest n in lo..hi such that blocks lo+1..n are all cached.
RunEnd(p, H, lo, hi) ==
    CHOOSE n \in lo..hi : /\ \A i \in (lo + 1)..n : IsCached(p, H[i])
                          /\ n = hi \/ ~IsCached(p, H[n + 1])

\* Null blocks 1..from, then the cached blocks from+1..to.
HitBlocks(p, H, from, to) ==
    [i \in 1..to |-> IF i =< from THEN NullBlock ELSE GetCachedBlock(p, H[i])]

DropLast(s, drop) == IF drop /\ s # <<>> THEN SubSeq(s, 1, Len(s) - 1) ELSE s

FullHit(p, H, maxLength) ==
    DropLast(HitBlocks(p, H, 0, RunEnd(p, H, 0, maxLength \div BlockSize)),
             UseEagle)

\* The rightmost run of `need' cached blocks; failing that, the leading run.
SlidingHit(p, H, maxLength) ==
    LET need == Cdiv(AttnSize - 1, BlockSize) + (IF UseEagle THEN 1 ELSE 0)
        last == maxLength \div BlockSize
        ends == {e \in need..last :
                   \A i \in (e - need + 1)..e : IsCached(p, H[i])}
        end  == CHOOSE e \in ends : \A f \in ends : f =< e
    IN  DropLast(IF ends # {} THEN HitBlocks(p, H, end - need, end)
                              ELSE HitBlocks(p, H, 0, RunEnd(p, H, 0, last)),
                 UseEagle)

\* Everything left of the chunk of the last token counts as computed.
ChunkedHit(p, H, maxLength) ==
    LET start == ((maxLength \div AttnSize) * AttnSize) \div BlockSize
    IN  HitBlocks(p, H, start, RunEnd(p, H, start, maxLength \div BlockSize))

\* At least the last of the n known tokens is recomputed, for its logits.
GetComputedBlocks(kv, r, n) ==
    CASE AttnKind = "full"    -> FullHit(kv.pool, BlockHash[r], n - 1)
      [] AttnKind = "sliding" -> SlidingHit(kv.pool, BlockHash[r], n - 1)
      [] AttnKind = "chunked" -> ChunkedHit(kv.pool, BlockHash[r], n - 1)
-----------------------------------------------------------------------------
(* Operations of the manager.                                              *)

\* Mutant: one block too many.
RemoveSkippedBlocks_OneMore(kv, r, computed) ==
    LET blks == kv.blocks[r]
        k    == Min2(NumSkippedBlocks(computed) + 1, Len(blks))
        real == {i \in 1..k : \A j \in i..k : blks[j] # NullBlock}
    IN  IF NumSkippedTokens(computed) = 0 \/ real = {} THEN kv ELSE
        [kv EXCEPT
          !.pool = FreeBlocks(@, [i \in 1..Cardinality(real) |-> blks[k + 1 - i]]),
          !.blocks[r] = [i \in DOMAIN blks |-> IF i \in real THEN NullBlock
                                                             ELSE blks[i]]]

\* Mutant: hits that leave the free queue are not counted.
NumEvictable_None(p, blks) == 0

\* Free the blocks that fell out of the attention window, last block first,
\* up to the first that is null already.
RemoveSkippedBlocks(kv, r, computed) ==
    LET blks == kv.blocks[r]
        k    == Min2(NumSkippedBlocks(computed), Len(blks))
        real == {i \in 1..k : \A j \in i..k : blks[j] # NullBlock}
        n    == Cardinality(real)
    IN  IF real = {} THEN kv ELSE
        [kv EXCEPT
          !.pool = FreeBlocks(@, [i \in 1..n |-> blks[k + 1 - i]]),
          !.blocks[r] = [i \in DOMAIN blks |-> IF i \in real THEN NullBlock
                                                             ELSE blks[i]]]

NumEvictable(p, blks) ==
    Cardinality({i \in DOMAIN blks : /\ blks[i] # NullBlock
                                     /\ p.refCnt[blks[i]] = 0})

\* get_num_blocks_to_allocate for required blocks in all.
NumBlocksToAllocate(kv, r, required, hits, computed) ==
    LET held    == Len(kv.blocks[r])
        skipped == NumSkippedBlocks(computed)
    IN  IF kv.numCached[r] # Untracked
        THEN Max2(required - held, 0)
        ELSE Max2(required - Max2(skipped, Len(hits) + held), 0)
             + NumEvictable(kv.pool, SubSeq(hits, Max2(0, skipped - held) + 1,
                                            Len(hits)))

\* add_local_computed_blocks: blocks out of the window are padded with nulls.
AddLocalComputedBlocks(kv, r, hits, computed) ==
    LET skipped == NumSkippedBlocks(computed)
        inside  == SubSeq(hits, skipped + 1, Len(hits))
        blks    == [i \in 1..skipped |-> NullBlock] \o inside
    IN  [kv EXCEPT !.pool = Touch(@, inside),
                   !.blocks[r] = blks,
                   !.numCached[r] = Len(blks)]

AllocateNewBlocks(kv, r, required) ==
    LET n   == required - Len(kv.blocks[r])
        new == GetNewBlocks(kv.pool, n)
    IN  IF n =< 0 THEN kv
        ELSE [kv EXCEPT !.pool = new.pool, !.blocks[r] = @ \o new.blocks]

CacheBlocks(kv, r, tokens) ==
    LET from == Max2(kv.numCached[r], 0)
        to   == tokens \div BlockSize
    IN  IF from >= to THEN kv
        ELSE [kv EXCEPT
               !.pool = CacheFullBlocks(@, BlockHash[r], kv.blocks[r], from, to),
               !.numCached[r] = to]

\* What allocate_slots reads of its arguments:
\*   a.computed  request.num_computed_tokens    a.tokens  request.num_tokens
\*   a.new       num_new_tokens                 a.look    num_lookahead_tokens
\*   a.hits      new_computed_blocks
\*   a.full      full_sequence_must_fit         a.watermark  whether the
\*               watermark applies: a waiting request, others scheduled already
LocalComputed(a) == a.computed + Len(a.hits) * BlockSize
TotalComputed(a) == Min2(LocalComputed(a), MaxModelLen)
SlotTokens(a) == Min2(TotalComputed(a) + a.new + a.look, MaxModelLen)
Watermark(a) == IF a.watermark THEN WatermarkBlocks ELSE 0

FullSequenceFits(kv, r, a) ==
    NumBlocksToAllocate(kv, r,
        AdmissionCap(Cdiv(Min2(a.tokens, MaxModelLen), BlockSize)),
        a.hits, TotalComputed(a)) + Watermark(a) =< NumFree(kv.pool)

\* The gate of allocate_slots, once the skipped blocks have been freed.
CanAllocate(kv, r, a) ==
    NumBlocksToAllocate(kv, r, Cdiv(SlotTokens(a), BlockSize), a.hits,
                        LocalComputed(a))
        + Watermark(a) =< NumFree(kv.pool)

WithHits(kv, r, a) ==
    IF a.hits = <<>> THEN kv
    ELSE AddLocalComputedBlocks(kv, r, a.hits, LocalComputed(a))

\* Mutant: draft tokens are cached with the others.
AllocateSlots_CacheDrafts(kv, r, a) ==
    LET trimmed == RemoveSkippedBlocks(kv, r, TotalComputed(a))
        hit     == WithHits(trimmed, r, a)
        grown   == AllocateNewBlocks(hit, r, Cdiv(SlotTokens(a), BlockSize))
    IN  IF a.full /\ ~FullSequenceFits(kv, r, a) THEN [ok |-> FALSE, kv |-> kv]
        ELSE IF ~CanAllocate(trimmed, r, a) THEN [ok |-> FALSE, kv |-> trimmed]
        ELSE [ok |-> TRUE, kv |-> CacheBlocks(grown, r, TotalComputed(a) + a.new)]

\* The result of allocate_slots: its effect, and whether it returned blocks.
\* A refusal by the second gate still frees the skipped blocks.
AllocateSlots(kv, r, a) ==
    LET trimmed == RemoveSkippedBlocks(kv, r, TotalComputed(a))
        hit     == WithHits(trimmed, r, a)
        grown   == AllocateNewBlocks(hit, r, Cdiv(SlotTokens(a), BlockSize))
        commit  == Min2(TotalComputed(a) + a.new, a.tokens)
    IN  IF a.full /\ ~FullSequenceFits(kv, r, a) THEN [ok |-> FALSE, kv |-> kv]
        ELSE IF ~CanAllocate(trimmed, r, a) THEN [ok |-> FALSE, kv |-> trimmed]
        ELSE [ok |-> TRUE, kv |-> CacheBlocks(grown, r, commit)]

\* pop_blocks_for_free: the bookkeeping goes, the references stay.
PopBlocks(kv, r) == [kv EXCEPT !.blocks[r] = <<>>, !.numCached[r] = Untracked]

\* Mutant: first block first.
TailFirst_HeadFirst(blks) == blks

\* The blocks of a request, last block first: the order they are freed in.
TailFirst(blks) == [i \in DOMAIN blks |-> blks[Len(blks) + 1 - i]]

\* Mutant: the blocks are freed but stay with the request.
Free_KeepsBlocks(kv, r) ==
    [kv EXCEPT !.pool = FreeBlocks(@, TailFirst(kv.blocks[r]))]

Free(kv, r) ==
    [PopBlocks(kv, r) EXCEPT !.pool = FreeBlocks(@, TailFirst(kv.blocks[r]))]

\* Mutant: one request too few.
NumCommonPrefixBlocks_OneLess(kv, r) ==
    LET n == Cardinality({q \in Request : kv.blocks[q] # <<>>}) - 1
        Common(i) == kv.pool.refCnt[kv.blocks[r][i]] >= n
    IN  CHOOSE k \in 0..Len(kv.blocks[r]) :
          /\ \A i \in 1..k : Common(i)
          /\ k = Len(kv.blocks[r]) \/ ~Common(k + 1)

\* get_num_common_prefix_blocks: the leading blocks of r referenced as often
\* as there are requests with blocks.
NumCommonPrefixBlocks(kv, r) ==
    LET n == Cardinality({q \in Request : kv.blocks[q] # <<>>})
        Common(i) == /\ kv.blocks[r][i] # NullBlock
                     /\ kv.pool.refCnt[kv.blocks[r][i]] = n
    IN  IF AttnKind # "full" THEN 0
        ELSE CHOOSE k \in 0..Len(kv.blocks[r]) :
               /\ \A i \in 1..k : Common(i)
               /\ k = Len(kv.blocks[r]) \/ ~Common(k + 1)
=============================================================================
