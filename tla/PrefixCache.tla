---------------------------- MODULE PrefixCache ----------------------------
(***************************************************************************)
(* The KV cache manager under every caller that respects its protocol: a   *)
(* waiting request is admitted with the blocks it hits in the prefix       *)
(* cache, grows, has drafts accepted or rejected, and gives its blocks     *)
(* back at once (free) or later (pop_blocks_for_free, the caller frees     *)
(* them when no step in flight writes to them); blocks are evicted by id,  *)
(* and the whole cache reset, at any time.                                 *)
(***************************************************************************)
EXTENDS KVCacheManager

CONSTANTS PromptLen,   \* tokens of a new request
          MaxNew,      \* bound on the tokens scheduled in one step
          MaxDraft,    \* bound on the draft tokens among them
          Lookahead,   \* the values of num_lookahead_tokens
          Evictable,   \* the blocks evict_blocks may be called with
          Ticket       \* bound on the popped, not yet freed block lists

ASSUME ClientAssumption ==
    /\ PromptLen \in [Request -> 1..(MaxModelLen - 1)]
    /\ MaxNew \in Nat /\ MaxDraft \in Nat
    /\ Lookahead \subseteq Nat
    /\ Evictable \subseteq Block
    /\ IsFiniteSet(Ticket)

VARIABLES kv,            \* the state of the manager
          numComputed,   \* Request.num_computed_tokens
          numTokens,     \* Request.num_tokens
          popped         \* blocks popped for free, by ticket

vars == <<kv, numComputed, numTokens, popped>>

Init == /\ kv = InitKV
        /\ numComputed = [r \in Request |-> 0]
        /\ numTokens = PromptLen
        /\ popped = [t \in Ticket |-> <<>>]

Admitted(r) == kv.blocks[r] # <<>>

\* The arguments of allocate_slots for n new tokens of request r.
Args(r, n, look, hits, full) ==
    [computed |-> numComputed[r], tokens |-> numTokens[r], new |-> n,
     look |-> look, hits |-> hits, full |-> full,
     watermark |-> full /\ \E q \in Request : Admitted(q)]

\* Schedule n tokens of a waiting request past its prefix cache hit.
Admit(r, n, look) ==
    LET hits == GetComputedBlocks(kv, r, numTokens[r])
        a    == Args(r, n, look, hits, TRUE)
        res  == AllocateSlots(kv, r, a)
    IN  /\ ~Admitted(r)
        /\ n =< numTokens[r] - LocalComputed(a)
        /\ kv' = res.kv
        /\ numComputed' = [numComputed EXCEPT
                             ![r] = IF res.ok THEN LocalComputed(a) + n ELSE @]
        /\ UNCHANGED <<numTokens, popped>>

\* Schedule n more tokens of a running request, at most MaxDraft of them drafts.
Grow(r, n, look) ==
    LET res == AllocateSlots(kv, r, Args(r, n, look, <<>>, FALSE))
    IN  /\ Admitted(r)
        /\ numComputed[r] < numTokens[r]
        /\ n =< numTokens[r] - numComputed[r] + MaxDraft
        /\ numComputed[r] + n =< MaxModelLen
        /\ kv' = res.kv
        /\ numComputed' = [numComputed EXCEPT ![r] = IF res.ok THEN @ + n ELSE @]
        /\ UNCHANGED <<numTokens, popped>>

\* The step returns: k of its drafts are accepted and one token is sampled.
Output(r, k) ==
    /\ Admitted(r)
    /\ numComputed[r] >= numTokens[r]
    /\ k =< numComputed[r] - numTokens[r]
    /\ numTokens[r] + k + 1 =< MaxModelLen
    /\ numTokens' = [numTokens EXCEPT ![r] = @ + k + 1]
    /\ numComputed' = [numComputed EXCEPT ![r] = numTokens[r] + k]
    /\ UNCHANGED <<kv, popped>>

\* KVCacheManager.cache_blocks, called with the tokens known to be computed.
Commit(r) ==
    /\ Admitted(r)
    /\ kv' = CacheBlocks(kv, r, Min2(numComputed[r], numTokens[r]))
    /\ UNCHANGED <<numComputed, numTokens, popped>>

\* Preemption keeps the tokens of r; when r finishes its id starts over.
Released(r) ==
    /\ numComputed' = [numComputed EXCEPT ![r] = 0]
    /\ \E n \in {numTokens[r], PromptLen[r]} :
          numTokens' = [numTokens EXCEPT ![r] = n]

Release(r) ==
    /\ Admitted(r)
    /\ kv' = Free(kv, r)
    /\ Released(r)
    /\ UNCHANGED popped

Pop(r, t) ==
    /\ Admitted(r)
    /\ popped[t] = <<>>
    /\ kv' = PopBlocks(kv, r)
    /\ popped' = [popped EXCEPT ![t] = kv.blocks[r]]
    /\ Released(r)

FreePopped(t) ==
    /\ popped[t] # <<>>
    /\ kv' = [kv EXCEPT !.pool = FreeBlocks(@, TailFirst(popped[t]))]
    /\ popped' = [popped EXCEPT ![t] = <<>>]
    /\ UNCHANGED <<numComputed, numTokens>>

EvictBlocks(B) ==
    /\ kv' = [kv EXCEPT !.pool = Evict(@, B)]
    /\ UNCHANGED <<numComputed, numTokens, popped>>

Reset ==
    /\ CanReset(kv.pool)
    /\ kv' = [kv EXCEPT !.pool = ResetPrefixCache(@)]
    /\ UNCHANGED <<numComputed, numTokens, popped>>

Next == \/ \E r \in Request, n \in 1..MaxNew, look \in Lookahead :
              Admit(r, n, look) \/ Grow(r, n, look)
        \/ \E r \in Request : \/ Commit(r) \/ Release(r)
                              \/ \E k \in 0..MaxDraft : Output(r, k)
                              \/ \E t \in Ticket : Pop(r, t)
        \/ \E t \in Ticket : FreePopped(t)
        \/ \E b \in Evictable : EvictBlocks({b})
        \/ Reset

Spec == Init /\ [][Next]_vars
-----------------------------------------------------------------------------
HoldersOf(b) == {r \in Request : b \in Range(kv.blocks[r])}
TicketsOf(b) == {t \in Ticket : b \in Range(popped[t])}

\* The state has the shape of the objects of the code; a reference count is
\* never negative.
TypeOK ==
    /\ kv \in [pool : Pool,
               blocks : [Request -> Seq(Block \cup {NullBlock})],
               numCached : [Request -> Nat \cup {Untracked}]]
    /\ numComputed \in [Request -> Nat]
    /\ numTokens \in [Request -> Nat]
    /\ popped \in [Ticket -> Seq(Block \cup {NullBlock})]

\* touch, get_new_blocks and free_blocks: the reference count of a block is
\* the number of requests and of pending frees that hold it, however its
\* holders admit, grow and release in between.
RefCntExact ==
    \A b \in Block : kv.pool.refCnt[b] = Cardinality(HoldersOf(b))
                                           + Cardinality(TicketsOf(b))

\* A block is in the free queue exactly when nobody references it, and then
\* once: popleft_n hands out no block twice, remove finds every block it is
\* asked to unlink, and no block leaks.
FreeQueueExact ==
    /\ IsInjective(kv.pool.free)
    /\ \A b \in Block : b \in Range(kv.pool.free) <=> kv.pool.refCnt[b] = 0

\* BlockHashToBlockMap and the hashes in the blocks agree: a lookup never
\* returns a block that was reallocated, and no hash is left behind.
CacheMapExact ==
    \A h \in Hash :
       /\ IsInjective(kv.pool.cached[h])
       /\ \A b \in Block : b \in Range(kv.pool.cached[h]) <=> kv.pool.hash[b] = h

\* The hash of a block a request holds at position i, if it has one, is the
\* hash of that request's i-th block: a request never reads another prefix.
BlocksMatchPrefix ==
    \A r \in Request : \A i \in DOMAIN kv.blocks[r] :
       LET b == kv.blocks[r][i]
       IN  b # NullBlock => kv.pool.hash[b] \in {NoHash, BlockHash[r][i]}

\* The blocks past num_cached_block have no hash, which cache_full_blocks
\* asserts of every block it is about to hash, and nobody else holds them:
\* the slots a step writes are the request's own.
TailIsPrivate ==
    \A r \in Request : \A i \in DOMAIN kv.blocks[r] :
       LET b == kv.blocks[r][i]
       IN  (i > kv.numCached[r] /\ b # NullBlock) =>
              /\ kv.pool.hash[b] = NoHash
              /\ HoldersOf(b) = {r} /\ TicketsOf(b) = {}

\* Every block the attention of the next token of r reads is there: only
\* blocks left of the window were replaced by the null block.
WindowResident ==
    \A r \in Request : \A i \in DOMAIN kv.blocks[r] :
       (i > NumSkippedBlocks(numComputed[r])) => kv.blocks[r][i] # NullBlock

\* The capacity check of allocate_slots covers what it goes on to take, hit
\* blocks leaving the free queue included: get_new_blocks never raises.
GateCoversAllocation ==
    \A r \in Request, n \in 1..MaxNew, look \in Lookahead :
       LET hits == IF Admitted(r) THEN <<>>
                   ELSE GetComputedBlocks(kv, r, numTokens[r])
           a    == Args(r, n, look, hits, FALSE)
           trim == RemoveSkippedBlocks(kv, r, TotalComputed(a))
           hit  == WithHits(trim, r, a)
       IN  CanAllocate(trim, r, a) =>
              Cdiv(SlotTokens(a), BlockSize) - Len(hit.blocks[r])
                 =< NumFree(hit.pool)

\* A subscriber that replays the KV events knows exactly what is cached.
EventsReplayCache ==
    \A h \in Hash : kv.pool.published[h] = Len(kv.pool.cached[h])
=============================================================================
