----------------------------- MODULE Scheduler -----------------------------
(***************************************************************************)
(* The engine core loop around Scheduler / AsyncScheduler and the KV cache *)
(* manager.  A call of step_with_batch_queue is cut into phases:           *)
(*                                                                         *)
(*   idle      between two calls: requests arrive, utility calls run       *)
(*   running   schedule(), loop over the running requests                  *)
(*   waiting   schedule(), loop over the waiting requests                  *)
(*   output    blocked on the oldest batch: only aborts get in             *)
(*   update    update_from_output, request by request                      *)
(*   reset     reset_prefix_cache(reset_running_requests=True)             *)
(*                                                                         *)
(* The workers execute batches in the order they were queued.  What a      *)
(* batch does on the GPU is modelled when its output is taken, which no    *)
(* scheduling decision in between can tell.                                *)
(*                                                                         *)
(* Text-only decoder requests; no LoRA, grammar, streaming input or KV     *)
(* connector (a connector only shows as DeferBlockFree).                   *)
(***************************************************************************)
EXTENDS KVCacheManager, SequencesExt

CONSTANTS PromptLen,        \* tokens of the prompt
          MaxTokens,        \* SamplingParams.max_tokens
          Rank,             \* order of (priority, arrival_time)
          Policy,           \* "fcfs" or "priority"
          AsyncScheduling,  \* AsyncScheduler instead of Scheduler
          BatchQueueSize,   \* batches in flight (1: EngineCore.step)
          MaxNumRunning,    \* max_num_seqs
          NumSpecTokens,    \* num_speculative_tokens
          NumLookahead,     \* num_lookahead_tokens
          ReserveFullISL,   \* scheduler_reserve_full_isl
          ChunkedPrefill,   \* enable_chunked_prefill
          LongPrefill,      \* long_prefill_token_threshold, 0 for none
          DeferBlockFree,   \* defer_block_free: a consuming KV connector
          MayStop,          \* a sampled token may be a stop token
          Calls             \* the client calls that may happen

ASSUME SchedulerAssumption ==
    /\ PromptLen \in [Request -> 1..(MaxModelLen - 1)]
    /\ MaxTokens \in [Request -> Nat \ {0}]
    /\ Rank \in [Request -> Nat] /\ IsInjective(Rank)
    /\ Policy \in {"fcfs", "priority"}
    /\ AsyncScheduling \in BOOLEAN /\ ReserveFullISL \in BOOLEAN
    /\ ChunkedPrefill \in BOOLEAN /\ LongPrefill \in Nat
    /\ DeferBlockFree \in BOOLEAN /\ MayStop \in BOOLEAN
    /\ BatchQueueSize \in Nat \ {0} /\ MaxNumRunning \in Nat \ {0}
    /\ NumSpecTokens \in Nat /\ NumLookahead \in Nat
    /\ NumSpecTokens > 0 => (AsyncScheduling \/ BatchQueueSize = 1)
    /\ DeferBlockFree => BatchQueueSize > 1
    /\ Calls \subseteq {"abort", "reset", "force_reset", "pause"}

VARIABLES kv,           \* the KV cache manager
          req,          \* Scheduler.requests
          waiting,      \* Scheduler.waiting, in the order it is popped
          running,      \* Scheduler.running
          phase,        \* where the engine core is
          step,         \* the locals of schedule()
          batchQueue,   \* EngineCore.batch_queue, oldest first
          current,      \* the rest of the batch in update_from_output
          deferred,     \* Scheduler.deferred_frees
          finishedIds,  \* finished_req_ids is not empty
          paused,       \* Scheduler._pause_state
          tables,       \* the block ids of a request, as sent to the workers
          gpu,          \* the workers: KV slots, and computed tokens
          output        \* the positions of the tokens sent to the client

vars == <<kv, req, waiting, running, phase, step, batchQueue, current,
          deferred, finishedIds, paused, tables, gpu, output>>

\* A request: Request.status, num_tokens, num_computed_tokens, the number of
\* spec_token_ids, num_output_placeholders, async_tokens_to_discard and
\* is_prefill_chunk.
NewRequest(r) ==
    [status |-> "WAITING", tokens |-> PromptLen[r], computed |-> 0, spec |-> 0,
     placeholders |-> 0, discard |-> 0, chunk |-> FALSE]

Live(r) == req[r].status \in {"WAITING", "RUNNING", "PREEMPTED"}

\* Block b, slot k holds the KV of the token at that place of the block with
\* hash gpu.slot[b][k], or something else (NoHash).
InitGpu == [slot     |-> [b \in Block |-> [k \in 0..(BlockSize - 1) |-> NoHash]],
            computed |-> [r \in Request |-> 0]]

NoStep == [index |-> 0, retry |-> <<>>, budget |-> 0, preempted |-> FALSE,
           scheduled |-> <<>>]

Init == /\ kv = InitKV
        /\ req = [r \in Request |-> [NewRequest(r) EXCEPT !.status = "ABSENT"]]
        /\ waiting = <<>> /\ running = <<>>
        /\ phase = "idle" /\ step = NoStep
        /\ batchQueue = <<>> /\ current = <<>> /\ deferred = <<>>
        /\ finishedIds = FALSE /\ paused = "UNPAUSED"
        /\ tables = [r \in Request |-> <<>>]
        /\ gpu = InitGpu
        /\ output = [r \in Request |-> <<>>]
-----------------------------------------------------------------------------
(* Queues and blocks.                                                      *)

\* RequestQueue.add_request and prepend_request: a deque, or a heap.
InOrder(q, r) ==
    LET before == {s \in Range(q) : Rank[s] < Rank[r]}
    IN  Filter(q, before) \o <<r>> \o Without(q, before)

Enqueue(q, r) == IF Policy = "fcfs" THEN Append(q, r) ELSE InOrder(q, r)
Prepend(q, r) == IF Policy = "fcfs" THEN <<r>> \o q ELSE InOrder(q, r)

InFlight(r) == \E i \in DOMAIN batchQueue : \E e \in Range(batchQueue[i]) : e.r = r

\* Mutant: the fence ignores the newest batch.
Pending_OneLess == Cardinality({i \in DOMAIN batchQueue : batchQueue[i] # <<>>}) - 1

\* Batches a fence waits for: the non-empty ones not yet processed.  It is
\* sched_step_seq - processed_step_seq in the code.
Pending == Cardinality({i \in DOMAIN batchQueue : batchQueue[i] # <<>>})

\* _free_request_blocks, from state m of the manager.
Deferring(m, r) == DeferBlockFree /\ InFlight(r) /\ m.blocks[r] # <<>>

\* Mutant: the blocks are popped and never freed.
FreeRequestBlocks_Leak(m, r) == PopBlocks(m, r)

FreeRequestBlocks(m, r) == IF DeferBlockFree /\ InFlight(r) THEN PopBlocks(m, r)
                                                           ELSE Free(m, r)
DeferFree(m, r) == IF Deferring(m, r)
                   THEN Append(deferred, [fence |-> Pending, blocks |-> m.blocks[r]])
                   ELSE deferred

\* _preempt_request, from state m of the manager.
Preempted(q) == [q EXCEPT !.status = "PREEMPTED", !.computed = 0, !.spec = 0]

\* Mutant: the request is not put back in the waiting queue.
PreemptRequest_Lost(m, r) ==
    /\ kv' = FreeRequestBlocks(m, r)
    /\ deferred' = DeferFree(m, r)
    /\ UNCHANGED waiting

PreemptRequest(m, r) ==
    /\ kv' = FreeRequestBlocks(m, r)
    /\ deferred' = DeferFree(m, r)
    /\ waiting' = Prepend(waiting, r)

\* _free_request of the finished request r, from state m of the manager.
FreeRequest(m, r) ==
    /\ kv' = FreeRequestBlocks(m, r)
    /\ deferred' = DeferFree(m, r)
    /\ finishedIds' = TRUE
    /\ running' = Without(running, {r})
    /\ waiting' = Without(waiting, {r})

NumUnfinished == CASE paused = "PAUSED_ALL" -> 0
                   [] paused = "PAUSED_NEW" -> Len(running)
                   [] OTHER -> Len(waiting) + Len(running)
HasRequests == NumUnfinished > 0 \/ finishedIds
-----------------------------------------------------------------------------
(* schedule(): the running requests.                                       *)

BeginStep ==
    /\ phase = "idle"
    /\ HasRequests
    /\ phase' = "running"
    /\ step' = [NoStep EXCEPT !.index = 1,
                              !.budget = IF paused = "PAUSED_ALL" THEN 0
                                         ELSE MaxNumBatchedTokens]
    /\ UNCHANGED <<kv, req, waiting, running, batchQueue, current, deferred,
                   finishedIds, paused, tables, gpu, output>>

\* Async: the steps in flight reach max_tokens even if all drafts are rejected.
ReachesMaxTokens(r) ==
    /\ req[r].placeholders > 0
    /\ req[r].computed + 2 - req[r].placeholders >= PromptLen[r] + MaxTokens[r]

Capped(n) == IF LongPrefill > 0 THEN Min2(n, LongPrefill) ELSE n

NumNewTokens(r) ==
    LET n == req[r].tokens + req[r].spec + req[r].placeholders - req[r].computed
    IN  Min2(Min2(Capped(n), step.budget), MaxModelLen - req[r].computed - 1)

\* step.retry is the request and its num_new_tokens while allocate_slots is
\* retried after preemptions; neither is looked up again.
InRunningLoop == /\ phase = "running"
                 /\ \/ step.retry # <<>>
                    \/ step.index =< Len(running) /\ step.budget > 0

Candidate == IF step.retry # <<>> THEN step.retry[1] ELSE running[step.index]
Wanted(r) == IF step.retry # <<>> THEN step.retry[2] ELSE NumNewTokens(r)

RunningSlots(r) ==
    AllocateSlots(kv, r, [computed |-> req[r].computed, tokens |-> req[r].tokens,
                          new |-> Wanted(r), look |-> NumLookahead, hits |-> <<>>,
                          full |-> FALSE, watermark |-> FALSE])

SkipRunning ==
    /\ InRunningLoop
    /\ step.retry = <<>>
    /\ ReachesMaxTokens(Candidate) \/ Wanted(Candidate) = 0
    /\ step' = [step EXCEPT !.index = @ + 1]
    /\ UNCHANGED <<kv, req, waiting, running, phase, batchQueue, current, deferred,
                   finishedIds, paused, tables, gpu, output>>

\* A scheduled request: its tokens and drafts, and whether it was waiting.
Entry(r, n, spec, fresh, start) ==
    [r |-> r, n |-> n, spec |-> spec, fresh |-> fresh, start |-> start]

ScheduleRunning ==
    /\ InRunningLoop
    /\ LET r    == Candidate
           n    == Wanted(r)
           over == n + req[r].computed - req[r].tokens - req[r].placeholders
           spec == Min2(req[r].spec, Max2(over, 0))
       IN  /\ step.retry = <<>> => ~ReachesMaxTokens(r) /\ n # 0
           /\ RunningSlots(r).ok
           /\ kv' = RunningSlots(r).kv
           /\ req' = [req EXCEPT ![r].spec = 0]
           /\ step' = [step EXCEPT
                         !.index = @ + 1, !.retry = <<>>, !.budget = @ - n,
                         !.scheduled = Append(@, Entry(r, n, spec, FALSE,
                                                       req[r].computed))]
    /\ UNCHANGED <<waiting, running, phase, batchQueue, current, deferred,
                   finishedIds, paused, tables, gpu, output>>

\* The lowest-priority running request, or the last one.
Victim == IF Policy = "priority"
          THEN CHOOSE v \in Range(running) : \A q \in Range(running) : Rank[q] =< Rank[v]
          ELSE Last(running)

\* Mutant: what a victim was given in this step is not taken back.
TokensOf_None(sched, r) == 0

TokensOf(sched, r) ==
    LET mine == {i \in DOMAIN sched : sched[i].r = r}
    IN  IF mine = {} THEN 0 ELSE sched[CHOOSE i \in mine : TRUE].n

\* Not enough blocks: preempt, taking back what the victim was given in this
\* step, and try again unless the request itself had to go.
PreemptRunning ==
    /\ InRunningLoop
    /\ LET r     == Candidate
           v     == Victim
           taken == TokensOf(step.scheduled, v)
       IN  /\ step.retry = <<>> => ~ReachesMaxTokens(r) /\ Wanted(r) # 0
           /\ ~RunningSlots(r).ok
           /\ PreemptRequest(RunningSlots(r).kv, v)
           /\ req' = [req EXCEPT ![v] = Preempted(@)]
           /\ running' = Without(running, {v})
           /\ step' = [step EXCEPT
                         !.index = IF taken > 0 THEN @ - 1 ELSE @,
                         !.retry = IF v = r THEN <<>> ELSE <<r, Wanted(r)>>,
                         !.budget = @ + taken, !.preempted = TRUE,
                         !.scheduled = SelectSeq(@, LAMBDA e : e.r # v)]
           /\ phase' = IF v = r THEN "waiting" ELSE phase
    /\ UNCHANGED <<batchQueue, current, finishedIds, paused, tables, gpu, output>>

EndRunning ==
    /\ phase = "running"
    /\ ~InRunningLoop
    /\ phase' = "waiting"
    /\ UNCHANGED <<kv, req, waiting, running, step, batchQueue, current, deferred,
                   finishedIds, paused, tables, gpu, output>>
-----------------------------------------------------------------------------
(* schedule(): the waiting requests, and the end of the call.              *)

InWaitingLoop == /\ phase = "waiting"
                 /\ ~step.preempted /\ paused = "UNPAUSED"
                 /\ waiting # <<>> /\ step.budget > 0
                 /\ Len(running) # MaxNumRunning

Hits(r) == GetComputedBlocks(kv, r, req[r].tokens)
Uncached(r) == Capped(req[r].tokens - Len(Hits(r)) * BlockSize)
Admissible(r) == ChunkedPrefill \/ Uncached(r) =< step.budget

WaitingSlots(r) ==
    AllocateSlots(kv, r, [computed |-> 0, tokens |-> req[r].tokens,
                          new |-> Min2(Uncached(r), step.budget),
                          look |-> NumLookahead, hits |-> Hits(r),
                          full |-> ReserveFullISL, watermark |-> running # <<>>])

ScheduleWaiting ==
    /\ InWaitingLoop
    /\ LET r == Head(waiting)
           n == Min2(Uncached(r), step.budget)
           c == Len(Hits(r)) * BlockSize
       IN  /\ Admissible(r)
           /\ WaitingSlots(r).ok
           /\ kv' = WaitingSlots(r).kv
           /\ waiting' = Tail(waiting)
           /\ running' = Append(running, r)
           /\ req' = [req EXCEPT ![r].status = "RUNNING", ![r].computed = c]
           /\ step' = [step EXCEPT !.budget = @ - n,
                                   !.scheduled = Append(@, Entry(r, n, 0, TRUE, c))]
    /\ UNCHANGED <<phase, batchQueue, current, deferred, finishedIds, paused,
                   tables, gpu, output>>

\* The head of the queue does not fit: nobody behind it is tried.
WaitingBlocked == InWaitingLoop =>
    LET r == Head(waiting) IN ~(Admissible(r) /\ WaitingSlots(r).ok)

\* Mutant: no placeholders for draft tokens.
AfterSchedule_NoDrafts(q, e) ==
    LET c     == q.computed + e.n
        chunk == c < q.tokens + q.placeholders
        p     == [q EXCEPT !.computed = c, !.chunk = chunk]
    IN  IF AsyncScheduling /\ ~chunk
        THEN [p EXCEPT !.placeholders = @ + 1, !.spec = NumSpecTokens]
        ELSE p

\* Mutant: a chunk that leaves one token is taken for the end of the prefill.
AfterSchedule_ShortChunk(q, e) ==
    LET c     == q.computed + e.n
        chunk == c + 1 < q.tokens + q.placeholders
        p     == [q EXCEPT !.computed = c, !.chunk = chunk]
    IN  IF AsyncScheduling /\ ~chunk
        THEN [p EXCEPT !.placeholders = @ + 1 + e.spec, !.spec = NumSpecTokens]
        ELSE p

\* _update_after_schedule for the scheduled entry e.  Async: the request will
\* produce one token and its drafts; the worker fills in the next drafts.
AfterSchedule(q, e) ==
    LET c     == q.computed + e.n
        chunk == c < q.tokens + q.placeholders
        p     == [q EXCEPT !.computed = c, !.chunk = chunk]
    IN  IF AsyncScheduling /\ ~chunk
        THEN [p EXCEPT !.placeholders = @ + 1 + e.spec, !.spec = NumSpecTokens]
        ELSE p

\* The workers get all block ids of a request that was waiting, and only the
\* new ones of a running request: they do not learn which became null.
SentTable(e, m) ==
    IF e.fresh THEN m.blocks[e.r]
    ELSE tables[e.r] \o SubSeq(m.blocks[e.r], Len(tables[e.r]) + 1, Len(m.blocks[e.r]))

\* What the batch carries of an entry, and whether the request samples.
BatchEntry(e, m, after) ==
    [r |-> e.r, n |-> e.n, spec |-> e.spec, fresh |-> e.fresh, start |-> e.start,
     table |-> SentTable(e, m), emit |-> ~after[e.r].chunk]

\* The batch is queued even when empty; the engine goes on scheduling while
\* the queue is not full and there is something to schedule.
EndSchedule ==
    /\ phase = "waiting"
    /\ WaitingBlocked
    /\ LET refused == InWaitingLoop /\ Admissible(Head(waiting))
           m     == IF refused THEN WaitingSlots(Head(waiting)).kv ELSE kv
           sched == step.scheduled
           after == [r \in Request |->
                       IF \E e \in Range(sched) : e.r = r
                       THEN AfterSchedule(req[r], CHOOSE e \in Range(sched) : e.r = r)
                       ELSE req[r]]
       IN  /\ kv' = m
           /\ req' = after
           /\ batchQueue' = Append(batchQueue, [i \in DOMAIN sched |->
                                                  BatchEntry(sched[i], m, after)])
           /\ tables' = [r \in Request |->
                           IF \E e \in Range(sched) : e.r = r
                           THEN SentTable(CHOOSE e \in Range(sched) : e.r = r, m)
                           ELSE tables[r]]
           /\ phase' = IF /\ Len(batchQueue) + 1 < BatchQueueSize
                          /\ sched # <<>> \/ NumUnfinished > 0
                       THEN "idle" ELSE "output"
    /\ step' = NoStep
    /\ finishedIds' = FALSE
    /\ UNCHANGED <<waiting, running, current, deferred, paused, gpu, output>>
-----------------------------------------------------------------------------
(* The output of the oldest batch.                                         *)

\* No request is left to schedule: wait for the batches in flight.
AwaitBatch ==
    /\ phase = "idle"
    /\ ~HasRequests /\ batchQueue # <<>>
    /\ phase' = "output"
    /\ UNCHANGED <<kv, req, waiting, running, step, batchQueue, current, deferred,
                   finishedIds, paused, tables, gpu, output>>

\* update_from_output starts: a non-empty batch passes the fences, and
\* _drain_deferred_frees frees what waited for it alone.
BeginUpdate ==
    LET passed == [i \in DOMAIN deferred |->
                     [deferred[i] EXCEPT !.fence = @ - 1]]
    IN  /\ phase = "output"
        /\ phase' = "update"
        /\ current' = Head(batchQueue)
        /\ batchQueue' = Tail(batchQueue)
        /\ IF DeferBlockFree /\ Head(batchQueue) # <<>>
           THEN /\ deferred' = SelectSeq(passed, LAMBDA d : d.fence > 0)
                /\ kv' = [kv EXCEPT !.pool = FoldLeft(
                            LAMBDA p, d : FreeBlocks(p, TailFirst(d.blocks)), @,
                            SelectSeq(passed, LAMBDA d : d.fence = 0))]
           ELSE UNCHANGED <<deferred, kv>>
        /\ UNCHANGED <<req, waiting, running, step, finishedIds, paused, tables,
                       gpu, output>>

\* The worker's count of computed tokens: it knows the rejections of earlier
\* batches that the scheduler did not know when it scheduled this one.
StartOf(e) == IF e.fresh THEN e.start ELSE gpu.computed[e.r]

\* The slots after entry e executed with k of its drafts right.
WriteSlots(slot, e, k) ==
    LET first == StartOf(e)
        right == first + e.n - e.spec + k
        At(b, j) == {p \in first..(first + e.n - 1) :
                       /\ p % BlockSize = j
                       /\ e.table[(p \div BlockSize) + 1] = b}
    IN  [b \in Block |-> [j \in 0..(BlockSize - 1) |->
           IF At(b, j) = {} THEN slot[b][j]
           ELSE LET p == CHOOSE p \in At(b, j) : TRUE
                IN  IF p < right THEN BlockHash[e.r][(p \div BlockSize) + 1]
                                 ELSE NoHash]]

Execute(e, k) ==
    gpu' = [slot |-> WriteSlots(gpu.slot, e, k),
            computed |-> [gpu.computed EXCEPT
                            ![e.r] = StartOf(e) + e.n - e.spec + k]]

\* Tokens until max_tokens or max_model_len stops the request.
Room(r) == Min2(PromptLen[r] + MaxTokens[r], MaxModelLen) - req[r].tokens

\* Mutant: rejected drafts still count as computed.
Adjusted_KeepsComputed(q, rejected) ==
    [q EXCEPT !.placeholders = IF @ > 0 THEN @ - rejected ELSE @]

\* The rejected drafts are taken back, when there is something to take from.
Adjusted(q, rejected) ==
    [q EXCEPT !.computed     = IF @ > 0 THEN @ - rejected ELSE @,
              !.placeholders = IF @ > 0 THEN @ - rejected ELSE @]

\* post_step: the drafts of the next step, unless async.
Drafted(q, drafts) == IF AsyncScheduling THEN q
                      ELSE [q EXCEPT !.spec = IF q.chunk THEN 0 ELSE drafts]

InUpdate(e) == phase = "update" /\ current # <<>> /\ e = Head(current)

\* The request was aborted, or stopped in an earlier batch.
IgnoreOutput(e, k) ==
    /\ InUpdate(e)
    /\ ~Live(e.r)
    /\ Execute(e, k)
    /\ current' = Tail(current)
    /\ UNCHANGED <<kv, req, waiting, running, phase, step, batchQueue, deferred,
                   finishedIds, paused, tables, output>>

\* No token: a prefill chunk.  One stale frame: dropped after a forced reset.
NoOutput(e, k, drafts) ==
    LET stale == AsyncScheduling /\ req[e.r].discard > 0
    IN  /\ InUpdate(e)
        /\ Live(e.r)
        /\ ~e.emit \/ stale
        /\ Execute(e, k)
        /\ req' = [req EXCEPT ![e.r] =
                     IF e.emit THEN [Adjusted(@, e.spec - k) EXCEPT !.discard = @ - 1]
                     ELSE Drafted(@, drafts)]
        /\ current' = Tail(current)
        /\ UNCHANGED <<kv, waiting, running, phase, step, batchQueue, deferred,
                       finishedIds, paused, tables, output>>

\* k drafts are right and one more token is sampled; the request keeps the
\* first `kept' of these k + 1, up to a stop token or the length limit.
AppendOutput(e, k, kept, stop, drafts) ==
    LET r    == e.r
        q    == Adjusted(req[r], e.spec - k)
        ph   == q.placeholders - kept
        more == [q EXCEPT !.tokens = @ + kept,
                          !.placeholders = IF AsyncScheduling THEN ph ELSE @]
        m    == IF AsyncScheduling /\ req[r].status = "RUNNING"
                THEN CacheBlocks(kv, r, q.computed - ph) ELSE kv
        done == stop \/ kept = Room(r)
        pos  == StartOf(e) + e.n - e.spec
    IN  /\ InUpdate(e)
        /\ Live(r)
        /\ e.emit /\ ~(AsyncScheduling /\ req[r].discard > 0)
        /\ kept =< Min2(k + 1, Room(r))
        /\ ~stop => kept = Min2(k + 1, Room(r))
        /\ Execute(e, k)
        /\ output' = [output EXCEPT ![r] = @ \o [i \in 1..kept |-> pos + i - 1]]
        /\ current' = Tail(current)
        /\ IF done
           THEN /\ req' = [req EXCEPT ![r] = [more EXCEPT !.status = "FINISHED"]]
                /\ FreeRequest(m, r)
           ELSE /\ req' = [req EXCEPT ![r] = Drafted(more, drafts)]
                /\ kv' = m
                /\ UNCHANGED <<deferred, finishedIds, running, waiting>>
        /\ UNCHANGED <<phase, step, batchQueue, paused, tables>>

EndUpdate ==
    /\ phase = "update"
    /\ current = <<>>
    /\ phase' = "idle"
    /\ UNCHANGED <<kv, req, waiting, running, step, batchQueue, current, deferred,
                   finishedIds, paused, tables, gpu, output>>

UpdateFromOutput ==
    \E e \in Range(current) : \E k \in 0..e.spec :
       \/ IgnoreOutput(e, k)
       \/ \E drafts \in 0..NumSpecTokens :
            \/ NoOutput(e, k, drafts)
            \/ \E kept \in 1..(k + 1), stop \in {FALSE, MayStop} :
                 AppendOutput(e, k, kept, stop, drafts)
-----------------------------------------------------------------------------
(* Calls from outside.                                                     *)

AddRequest(r) ==
    /\ phase = "idle"
    /\ req[r].status = "ABSENT"
    /\ req' = [req EXCEPT ![r] = NewRequest(r)]
    /\ waiting' = Enqueue(waiting, r)
    /\ UNCHANGED <<kv, running, phase, step, batchQueue, current, deferred,
                   finishedIds, paused, tables, gpu, output>>

\* finish_requests, between two steps or just before update_from_output.
Abort(r) ==
    /\ phase \in {"idle", "output"}
    /\ "abort" \in Calls
    /\ Live(r)
    /\ req' = [req EXCEPT ![r].status = "FINISHED"]
    /\ FreeRequest(kv, r)
    /\ UNCHANGED <<phase, step, batchQueue, current, paused, tables, gpu, output>>

SetPauseState(s) ==
    /\ phase = "idle"
    /\ "pause" \in Calls
    /\ paused # s
    /\ paused' = s
    /\ UNCHANGED <<kv, req, waiting, running, phase, step, batchQueue, current,
                   deferred, finishedIds, tables, gpu, output>>

\* reset_prefix_cache(reset_running_requests=False)
ResetIdle ==
    /\ phase = "idle"
    /\ "reset" \in Calls
    /\ CanReset(kv.pool)
    /\ kv' = [kv EXCEPT !.pool = ResetPrefixCache(@)]
    /\ UNCHANGED <<req, waiting, running, phase, step, batchQueue, current,
                   deferred, finishedIds, paused, tables, gpu, output>>

ForceReset ==
    /\ phase = "idle"
    /\ "force_reset" \in Calls
    /\ phase' = "reset"
    /\ UNCHANGED <<kv, req, waiting, running, step, batchQueue, current, deferred,
                   finishedIds, paused, tables, gpu, output>>

\* Mutant: what is in flight is not discarded.
ResetPreempt_NoDiscard ==
    /\ phase = "reset"
    /\ running # <<>>
    /\ LET r == Last(running)
       IN  /\ PreemptRequest(kv, r)
           /\ req' = [req EXCEPT ![r] = [Preempted(@) EXCEPT !.placeholders = 0]]
    /\ running' = Front(running)
    /\ UNCHANGED <<phase, step, batchQueue, current, finishedIds, paused, tables,
                   gpu, output>>

\* The running requests are preempted, last first; what they have in flight is
\* to be discarded.
ResetPreempt ==
    /\ phase = "reset"
    /\ running # <<>>
    /\ LET r == Last(running)
       IN  /\ PreemptRequest(kv, r)
           /\ req' = [req EXCEPT ![r] = [Preempted(@) EXCEPT
                                           !.discard = req[r].placeholders,
                                           !.placeholders = 0]]
    /\ running' = Front(running)
    /\ UNCHANGED <<phase, step, batchQueue, current, finishedIds, paused, tables,
                   gpu, output>>

\* The call raises RuntimeError when the reset is refused; the cache is kept.
ResetEnd ==
    /\ phase = "reset"
    /\ running = <<>>
    /\ kv' = IF CanReset(kv.pool) THEN [kv EXCEPT !.pool = ResetPrefixCache(@)] ELSE kv
    /\ phase' = "idle"
    /\ UNCHANGED <<req, waiting, running, step, batchQueue, current, deferred,
                   finishedIds, paused, tables, gpu, output>>

EngineCore ==
    \/ BeginStep \/ SkipRunning \/ ScheduleRunning \/ PreemptRunning \/ EndRunning
    \/ ScheduleWaiting \/ EndSchedule
    \/ AwaitBatch \/ BeginUpdate \/ UpdateFromOutput \/ EndUpdate
    \/ ResetPreempt \/ ResetEnd

Client ==
    \/ \E r \in Request : AddRequest(r) \/ Abort(r)
    \/ \E s \in {"UNPAUSED", "PAUSED_NEW", "PAUSED_ALL"} : SetPauseState(s)
    \/ ResetIdle \/ ForceReset

\* run_busy_loop blocks on its input queue.
WaitForInput ==
    /\ phase = "idle"
    /\ ~HasRequests /\ batchQueue = <<>>
    /\ UNCHANGED vars

Next == EngineCore \/ Client \/ WaitForInput

\* run_busy_loop: while there is something to do, the engine core does it.
EngineBusy == phase # "idle" \/ HasRequests \/ batchQueue # <<>>
Fairness == []<>(~EngineBusy) \/ []<><<EngineCore>>_vars

SafetySpec == Init /\ [][Next]_vars
Spec == SafetySpec /\ Fairness
-----------------------------------------------------------------------------
Entries == [r : Request, n : Nat \ {0}, spec : Nat, fresh : BOOLEAN, start : Nat]

\* The state has the shape of the scheduler's objects.
TypeOK ==
    /\ req \in [Request -> [status : {"ABSENT", "WAITING", "RUNNING", "PREEMPTED",
                                      "FINISHED"},
                            tokens : 1..MaxModelLen, computed : 0..MaxModelLen,
                            spec : 0..NumSpecTokens, placeholders : Nat,
                            discard : Nat, chunk : BOOLEAN]]
    /\ waiting \in Seq(Request) /\ running \in Seq(Request)
    /\ phase \in {"idle", "running", "waiting", "output", "update", "reset"}
    /\ step.budget \in 0..MaxNumBatchedTokens
    /\ step.scheduled \in Seq(Entries)
    /\ Len(batchQueue) =< BatchQueueSize
    /\ paused \in {"UNPAUSED", "PAUSED_NEW", "PAUSED_ALL"}

\* A request is in the queue its status names, once, and in no other, across
\* preemption, resumption, abort and stop; only running requests hold blocks.
\* (The state also has its type.)
QueuesMatchStatus ==
    /\ TypeOK
    /\ IsInjective(running) /\ IsInjective(waiting)
    /\ \A r \in Request :
         /\ r \in Range(running) <=> req[r].status = "RUNNING"
         /\ r \in Range(waiting) <=> req[r].status \in {"WAITING", "PREEMPTED"}
         /\ kv.blocks[r] # <<>> => req[r].status = "RUNNING"

\* The assertions at the end of schedule(), through the preemption of requests
\* that were scheduled earlier in the same call: the budget is what was not
\* given out, and what was given out went to distinct running requests.
StepConstraints ==
    LET sched == step.scheduled
    IN  phase \in {"running", "waiting"} =>
          /\ Len(running) =< MaxNumRunning
          /\ paused # "PAUSED_ALL" =>
               step.budget + FoldLeft(LAMBDA s, e : s + e.n, 0, sched)
                  = MaxNumBatchedTokens
          /\ \A i, j \in DOMAIN sched : sched[i].r = sched[j].r => i = j
          /\ \A e \in Range(sched) : req[e.r].status = "RUNNING"

\* The entries of r in flight, oldest batch first.
Flight(r) == SelectSeq(current \o FlattenSeq(batchQueue), LAMBDA e : e.r = r)

\* num_output_placeholders is what the batches in flight may still return, so
\* it never goes negative (the assertion in AsyncScheduler) and the request is
\* never scheduled past its tokens; after a forced reset the difference is
\* what is to be discarded.
PlaceholdersExact ==
    \A r \in Request : Live(r) /\ AsyncScheduling =>
       req[r].placeholders + req[r].discard =
          FoldLeft(LAMBDA s, e : s + (IF e.emit THEN 1 + e.spec ELSE 0), 0, Flight(r))

\* The scheduler's count of computed tokens is the worker's, plus what is in
\* flight: rejections reach num_computed_tokens once each, in order, though
\* the next batch was scheduled before they were known.
ComputedAgrees ==
    phase \in {"idle", "output", "update"} =>
      \A r \in Range(running) :
         LET f     == Flight(r)
             fresh == {i \in DOMAIN f : f[i].fresh}
             last  == CHOOSE i \in fresh : \A j \in fresh : j =< i
             from  == IF fresh = {} THEN 1 ELSE last
             base  == IF fresh = {} THEN gpu.computed[r] ELSE f[last].start
         IN  req[r].computed =
               FoldLeft(LAMBDA s, e : s + e.n, base, SubSeq(f, from, Len(f)))

\* The tokens a client receives are the positions after its prompt, each once
\* and in order: a step whose request was preempted, resumed or reset while it
\* was in flight neither repeats nor loses a token.
OutputInOrder ==
    \A r \in Request :
       /\ output[r] = [i \in 1..Len(output[r]) |-> PromptLen[r] + i - 1]
       /\ req[r].tokens = PromptLen[r] + Len(output[r])

\* Attention reads, for every token before the ones a batch computes (and in
\* the window), a slot that holds the KV of that token: no prefix cache hit on
\* a block that is not, or not any more, computed.
PrefixComputed ==
    (batchQueue # <<>> /\ current = <<>>) =>
      LET batch == Head(batchQueue)
          slot  == FoldLeft(LAMBDA s, e : WriteSlots(s, e, 0), gpu.slot, batch)
      IN  \A e \in Range(batch) :
            \A p \in NumSkippedTokens(StartOf(e))..(StartOf(e) - 1) :
               LET i == (p \div BlockSize) + 1
               IN  /\ e.table[i] # NullBlock
                   /\ slot[e.table[i]][p % BlockSize] = BlockHash[e.r][i]

\* Only blocks full of known tokens are hashed: a draft that may be rejected,
\* or a token not yet returned, never enters the prefix cache.
CachedTokensKnown ==
    \A r \in Request : kv.numCached[r] * BlockSize =< req[r].tokens

\* With defer_block_free, the blocks a batch in flight writes stay referenced
\* by its request or by the deferred frees until the batch is processed.
InFlightWritesHeld ==
    DeferBlockFree =>
      \A i \in DOMAIN batchQueue : \A e \in Range(batchQueue[i]) :
        \A j \in DOMAIN e.table :
          (j > StartOf(e) \div BlockSize) =>
             \/ e.table[j] \in Range(kv.blocks[e.r])
             \/ \E d \in Range(deferred) : e.table[j] \in Range(d.blocks)

\* reset_prefix_cache(reset_running_requests=True): with every running request
\* preempted, no block is referenced and the reset goes through.
ForcedResetSucceeds == (phase = "reset" /\ running = <<>>) => CanReset(kv.pool)

\* The blocks reported to cascade attention are shared by every request of the
\* batch that is being put together.
CascadePrefixShared ==
    (phase = "waiting" /\ running # <<>>) =>
       \A i \in 1..NumCommonPrefixBlocks(kv, running[1]) :
          \A e \in Range(step.scheduled) :
             /\ i \in DOMAIN kv.blocks[e.r]
             /\ kv.blocks[e.r][i] = kv.blocks[running[1]][i]

\* Through finish, abort and preemption, tail blocks are freed, hence evicted,
\* before the blocks they extend (KVCacheManager.free): no cached block is out
\* of reach of find_longest_cache_hit for want of the block before it.
NoOrphanBlocks ==
    \A r \in Request : \A i \in 2..MaxBlocks :
       IsCached(kv.pool, BlockHash[r][i]) => IsCached(kv.pool, BlockHash[r][i - 1])

\* Blocks without a hash are taken before any cached block is evicted.
UnhashedFirst ==
    \A i, j \in DOMAIN kv.pool.free :
       (i < j /\ kv.pool.hash[kv.pool.free[j]] = NoHash)
          => kv.pool.hash[kv.pool.free[i]] = NoHash

\* Every request that enters finishes, whatever is preempted on the way.
RequestsFinish ==
    \A r \in Request : (req[r].status = "WAITING") ~> (req[r].status = "FINISHED")
=============================================================================
