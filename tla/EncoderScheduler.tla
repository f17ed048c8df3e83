-------------------------- MODULE EncoderScheduler --------------------------
(***************************************************************************)
(* How the scheduler uses the encoder cache (scheduler.py), composed with  *)
(* the cache of the workers it mirrors (gpu_model_runner.py).  schedule()  *)
(* decides which multimodal items a step encodes and which it takes from   *)
(* the cache; the worker runs the steps later, in order, and its gather    *)
(* fails on an item that is not there.                                     *)
(*                                                                         *)
(* schedule() is one action per request it looks at.  Nothing else of the  *)
(* engine happens between them, and the worker's steps commute with them.  *)
(* A request asks for one token: its items matter only while its prompt is *)
(* computed.  The KV cache is a number of tokens that the running requests *)
(* share, and a prefix cache that may remember what a request computed.    *)
(***************************************************************************)
EXTENDS EncoderCacheManager

CONSTANTS
  NumTokens,             \* request -> length of its prompt
  EncoderBudget,         \* max_num_encoder_input_tokens
  MaxNumBatchedTokens,
  KVTokens,              \* capacity of the KV cache
  BatchQueueSize,        \* steps that may be in flight
  AsyncScheduling,
  Policy,                \* "fcfs" or "priority"
  Priority,              \* request -> (priority, arrival_time), a number
  UseEagle,
  DisableChunkedMMInput, \* values that disable_chunked_mm_input may have
  MaxResets,             \* bound on the calls of reset_encoder_cache
  CanAbort               \* the requests that may be aborted

ASSUME SchedulerAssumption ==
  /\ \A h \in Items : NumEmbeds(h) =< EncoderBudget
  /\ \A r \in Requests :
       /\ NumTokens[r] \in 1 .. KVTokens
       /\ \A i \in DOMAIN Features[r] :
            Features[r][i].offset + Length[HashOf(r, i)] =< NumTokens[r]
  /\ DisableChunkedMMInput \subseteq BOOLEAN
  /\ TRUE \in DisableChunkedMMInput =>
       \A h \in Items : Length[h] =< MaxNumBatchedTokens

VARIABLES
  disable_chunked_mm_input,   \* the configuration, never changed
  ecm,              \* encoder_cache_manager
  status, running, waiting,
  computed,         \* num_computed_tokens
  prefix,           \* how many tokens of its prompt the prefix cache may hold
  phase,            \* where schedule() is, "idle" outside of it
  step,             \* its local variables
  batches,          \* the worker's inputs that it has not executed
  results,          \* executed steps whose output was not processed
  encoder_cache,    \* the worker's
  resets

queues == <<status, running, waiting>>
workerVars == <<batches, results, encoder_cache>>
control == <<resets, disable_chunked_mm_input>>
vars == <<ecm, queues, computed, prefix, phase, step, workerVars, control>>

(***************************************************************************)
(* A SchedulerOutput: the requests in the order they were scheduled, and   *)
(* for each where its tokens start, how many they are and which of its     *)
(* features are to be encoded.                                             *)
(***************************************************************************)
NoOutput == [reqs |-> << >>, start |-> [r \in Requests |-> 0],
             num |-> [r \in Requests |-> 0], enc |-> [r \in Requests |-> {}],
             freed |-> {}, reset |-> FALSE]

NoTry == [req |-> << >>, new |-> 0, ids |-> {}, budget |-> 0]

StepInit == [index |-> 1, tokens |-> MaxNumBatchedTokens,
             encoder |-> EncoderBudget, out |-> NoOutput,
             try |-> NoTry, preempted |-> FALSE]

Init ==
  /\ disable_chunked_mm_input \in DisableChunkedMMInput
  /\ ecm = ManagerInit
  /\ status = [r \in Requests |-> "new"]
  /\ running = << >>
  /\ waiting = << >>
  /\ computed = [r \in Requests |-> 0]
  /\ prefix = [r \in Requests |-> 0]
  /\ phase = "idle"
  /\ step = StepInit
  /\ batches = << >>
  /\ results = << >>
  /\ encoder_cache = {}
  /\ resets = 0

-----------------------------------------------------------------------------
(***************************************************************************)
(* _try_schedule_encoder_inputs.                                           *)
(***************************************************************************)

\* get_mm_features_in_window: the features that overlap [start, end).
Window(r, start, end) ==
  {i \in DOMAIN Features[r] :
     /\ Features[r][i].offset + Length[HashOf(r, i)] > start
     /\ Features[r][i].offset < end}

\* get_embeds_indices_in_range is not empty for the part of the feature that
\* lies in [start, end).
HasEmbeds(r, i, start, end) ==
  \E k \in Embeds[HashOf(r, i)] :
    start =< Features[r][i].offset + k /\ Features[r][i].offset + k < end

Shift == IF UseEagle THEN 1 ELSE 0

\* Mutant: no token of the request is scheduled at all.
StopBefore_None(a, r, i, start) == [a EXCEPT !.stop = TRUE, !.new = 0]

\* The request's tokens stop before feature i.
StopBefore(a, r, i, start) ==
  [a EXCEPT !.stop = TRUE,
            !.new = Max({0, Features[r][i].offset - (start + Shift)})]

\* One iteration of the loop over the features in the window.
TryFeature(a, r, i, start) ==
  LET h == HashOf(r, i)
      offset == Features[r][i].offset
      split == /\ disable_chunked_mm_input
               /\ start < offset
               /\ start + a.new < offset + Length[h]
      evicted == [a EXCEPT !.m = Evict(@, r, i, a.embeds)]
  IN IF a.stop \/ h \in a.hashes THEN a
     ELSE IF IsCached(a.m, r, i) THEN [a EXCEPT !.m = Touch(@, r, i)]
     ELSE IF split \/ ~CanAllocate(a.m, r, i, a.budget, a.embeds)
     THEN StopBefore(a, r, i, start)
     ELSE IF ~HasEmbeds(r, i, start, start + a.new) THEN evicted
     ELSE [evicted EXCEPT !.ids = @ \union {i},
                          !.hashes = @ \union {h},
                          !.embeds = @ + NumEmbeds(h),
                          !.budget = @ - NumEmbeds(h)]

TrySchedule(m, r, start, new, budget) ==
  LET a == [m |-> m, new |-> new, ids |-> {}, hashes |-> {}, embeds |-> 0,
            budget |-> budget, stop |-> FALSE]
      window == IF new = 0 THEN {} ELSE Window(r, start, start + new + Shift)
  IN Iterate(LAMBDA b, i : TryFeature(b, r, i, start), a,
             InOrder(r, window))

-----------------------------------------------------------------------------
(***************************************************************************)
(* schedule().                                                             *)
(***************************************************************************)

\* allocate_slots finds room for new tokens that follow the first start ones.
KVFits(r, start, new) ==
  LET others == SelectSeq(running, LAMBDA s : s # r)
      used == Iterate(LAMBDA n, s : n + computed[s] + step.out.num[s],
                       0, others)
  IN used + start + new =< KVTokens

\* What schedule() records once the request has its KV blocks.
Scheduled(r, start, t) ==
  [step EXCEPT !.index = @ + 1, !.tokens = @ - t.new, !.encoder = t.budget,
               !.try = NoTry,
               !.out.reqs = Append(@, r), !.out.start[r] = start,
               !.out.num[r] = t.new, !.out.enc[r] = t.ids]

AllocateAll(m, r, ids) ==
  Iterate(LAMBDA a, i : Allocate(a, r, i), m, InOrder(r, ids))

InFlight == SelectSeq(batches, LAMBDA b : ~b.reset) \o results

StartSchedule ==
  /\ phase = "idle"
  /\ Len(InFlight) < BatchQueueSize
  /\ running # << >> \/ waiting # << >>
  /\ phase' = "running"
  /\ step' = StepInit
  /\ UNCHANGED <<ecm, queues, computed, prefix, workerVars, control>>

\* The loop over the running requests, up to allocate_slots.
TryRunning ==
  LET r == running[step.index]
      new == Min({NumTokens[r] - computed[r], step.tokens})
  IN /\ phase = "running"
     /\ step.index =< Len(running)
     /\ step.tokens > 0
     /\ \E t \in {TrySchedule(ecm, r, computed[r], new, step.encoder)} :
          /\ ecm' = t.m
          /\ phase' = IF t.new = 0 THEN phase ELSE "allocate"
          /\ step' = IF t.new = 0 THEN [step EXCEPT !.index = @ + 1]
                     ELSE [step EXCEPT !.try =
                             [req |-> <<r>>, new |-> t.new, ids |-> t.ids,
                              budget |-> t.budget]]
     /\ UNCHANGED <<queues, computed, prefix, workerVars, control>>

\* allocate_slots succeeds.
ScheduleRunning ==
  LET r == Head(step.try.req)
  IN /\ phase = "allocate"
     /\ KVFits(r, computed[r], step.try.new)
     /\ ecm' = AllocateAll(ecm, r, step.try.ids)
     /\ step' = Scheduled(r, computed[r], step.try)
     /\ phase' = "running"
     /\ UNCHANGED <<queues, computed, prefix, workerVars, control>>

Victim ==
  IF Policy = "priority"
  THEN CHOOSE r \in ToSet(running) :
         \A s \in ToSet(running) : Priority[s] =< Priority[r]
  ELSE Last(running)

\* prepend_request: a priority queue keeps its own order.
Enqueue(q, r, front) ==
  IF Policy = "priority"
  THEN SetToSortSeq(ToSet(q) \union {r},
                    LAMBDA s, t : Priority[s] < Priority[t])
  ELSE IF front THEN <<r>> \o q ELSE Append(q, r)

\* The step without a request that it had scheduled.
Unscheduled(v) ==
  [step EXCEPT
     !.index = @ - 1, !.tokens = @ + step.out.num[v],
     !.encoder = @ + NumEmbedsOf(SetToSeq(
                       {HashOf(v, i) : i \in step.out.enc[v]})),
     !.out.reqs = SelectSeq(@, LAMBDA s : s # v), !.out.start[v] = 0,
     !.out.num[v] = 0, !.out.enc[v] = {}]

\* allocate_slots fails: _preempt_request of the victim.  When it is the
\* request itself, the loop ends.
Preempt ==
  LET r == Head(step.try.req)
      v == Victim
      s == IF v \in ToSet(step.out.reqs) THEN Unscheduled(v) ELSE step
  IN /\ phase = "allocate"
     /\ ~KVFits(r, computed[r], step.try.new)
     /\ running' = SelectSeq(running, LAMBDA x : x # v)
     /\ waiting' = Enqueue(waiting, v, TRUE)
     /\ status' = [status EXCEPT ![v] = "preempted"]
     /\ ecm' = Free(ecm, v)
     /\ computed' = [computed EXCEPT ![v] = 0]
     /\ step' = [s EXCEPT !.preempted = TRUE,
                          !.try = IF v = r THEN NoTry ELSE @]
     /\ phase' = IF v = r THEN "end" ELSE phase
     /\ UNCHANGED <<prefix, workerVars, control>>

EndRunning ==
  /\ phase = "running"
  /\ step.index > Len(running) \/ step.tokens = 0
  /\ phase' = IF step.preempted THEN "end" ELSE "waiting"
  /\ UNCHANGED <<ecm, queues, computed, prefix, step, workerVars, control>>

\* The loop over the waiting requests.  The prefix cache answers with what it
\* still holds of the request's prompt, but for the last token.
ScheduleWaiting ==
  LET r == Head(waiting)
  IN /\ phase = "waiting"
     /\ waiting # << >>
     /\ step.tokens > 0
     /\ \E hit \in 0 .. Min({prefix[r], NumTokens[r] - 1}) :
        \E t \in {TrySchedule(ecm, r, hit,
                    Min({NumTokens[r] - hit, step.tokens}), step.encoder)} :
             \/ /\ t.new = 0
                /\ ecm' = t.m
                /\ phase' = "end"
                /\ UNCHANGED <<queues, computed, step>>
             \/ /\ t.new > 0
                /\ ~KVFits(r, hit, t.new)
                /\ ecm' = Free(t.m, r)
                /\ phase' = "end"
                /\ UNCHANGED <<queues, computed, step>>
             \/ /\ t.new > 0
                /\ KVFits(r, hit, t.new)
                /\ ecm' = AllocateAll(t.m, r, t.ids)
                /\ waiting' = Tail(waiting)
                /\ running' = Append(running, r)
                /\ status' = [status EXCEPT ![r] = "running"]
                /\ computed' = [computed EXCEPT ![r] = hit]
                /\ step' = Scheduled(r, hit, t)
                /\ UNCHANGED phase
     /\ UNCHANGED <<prefix, workerVars, control>>

EndWaiting ==
  /\ phase = "waiting"
  /\ waiting = << >> \/ step.tokens = 0
  /\ phase' = "end"
  /\ UNCHANGED <<ecm, queues, computed, prefix, step, workerVars, control>>

\* The rest of schedule(), with _update_after_schedule: the output carries the
\* evicted items to the worker, and the requests are taken to be computed.
EndSchedule ==
  /\ phase = "end"
  /\ batches' = Append(batches, [step.out EXCEPT !.freed = ecm.freed])
  /\ ecm' = ClearFreed(ecm)
  /\ computed' = [r \in Requests |-> computed[r] + step.out.num[r]]
  /\ prefix' = [r \in Requests |-> Max({prefix[r], computed'[r]})]
  /\ phase' = "idle"
  /\ step' = StepInit
  /\ UNCHANGED <<queues, results, encoder_cache, control>>

-----------------------------------------------------------------------------
(***************************************************************************)
(* The worker, and what the engine does between two schedules.             *)
(***************************************************************************)

\* _execute_mm_encoder: what a step adds to the worker's cache.
Encoded(b) == UNION {{HashOf(r, i) : i \in b.enc[r]} : r \in Requests}

\* execute_model: forget the evicted items, run the encoder.
Execute ==
  LET b == Head(batches)
  IN /\ phase = "idle"
     /\ batches # << >>
     /\ batches' = Tail(batches)
     /\ encoder_cache' = IF b.reset THEN {}
                         ELSE (encoder_cache \ b.freed) \union Encoded(b)
     /\ results' = IF b.reset THEN results ELSE Append(results, b)
     /\ UNCHANGED <<ecm, queues, computed, prefix, phase, step, control>>

AddRequest(r) ==
  /\ phase = "idle"
  /\ status[r] = "new"
  /\ status' = [status EXCEPT ![r] = "waiting"]
  /\ waiting' = Enqueue(waiting, r, FALSE)
  /\ UNCHANGED <<ecm, running, computed, prefix, phase, step, workerVars, control>>

\* Tokens that a rejection may take back: with asynchronous scheduling the
\* token that the last chunk of the prompt is to sample.
OutputPlaceholders(r) ==
  IF AsyncScheduling /\ computed[r] = NumTokens[r] THEN 1 ELSE 0

\* _free_encoder_inputs.
FreeComputedInputs(m, r) ==
  FreeInputs(m, r, {i \in m.request_cached_ids[r] :
    Features[r][i].offset + Length[HashOf(r, i)]
      =< computed[r] - OutputPlaceholders(r)})

\* update_from_output of the oldest step.  A request whose prompt is computed
\* has its token, and is finished.
UpdateFromOutput ==
  LET b == Head(results)
      live == SelectSeq(b.reqs, LAMBDA r : status[r] # "finished")
      ends(r) == b.start[r] + b.num[r] = NumTokens[r]
      update(m, r) == IF ends(r) THEN Free(FreeComputedInputs(m, r), r)
                      ELSE FreeComputedInputs(m, r)
      over(r) == r \in ToSet(live) /\ ends(r)
  IN /\ phase = "idle"
     /\ results # << >>
     /\ results' = Tail(results)
     /\ ecm' = Iterate(update, ecm, live)
     /\ status' = [r \in Requests |-> IF over(r) THEN "finished" ELSE status[r]]
     /\ running' = SelectSeq(running, LAMBDA r : ~over(r))
     /\ waiting' = SelectSeq(waiting, LAMBDA r : ~over(r))
     /\ UNCHANGED <<computed, prefix, phase, step, batches, encoder_cache, control>>

\* finish_requests for a request that a client aborts.
Abort(r) ==
  /\ phase = "idle"
  /\ r \in CanAbort
  /\ status[r] \in {"waiting", "running", "preempted"}
  /\ status' = [status EXCEPT ![r] = "finished"]
  /\ running' = SelectSeq(running, LAMBDA s : s # r)
  /\ waiting' = SelectSeq(waiting, LAMBDA s : s # r)
  /\ ecm' = Free(ecm, r)
  /\ UNCHANGED <<computed, prefix, phase, step, workerVars, control>>

\* reset_encoder_cache: the manager is reset at once, the worker by a call that
\* follows the steps it has not executed.
ResetEncoderCache ==
  /\ phase = "idle"
  /\ resets < MaxResets
  /\ resets' = resets + 1
  /\ ecm' = ManagerInit
  /\ batches' = Append(batches, [NoOutput EXCEPT !.reset = TRUE])
  /\ UNCHANGED <<queues, computed, prefix, phase, step, results, encoder_cache,
                 disable_chunked_mm_input>>

Schedule ==
  \/ StartSchedule \/ TryRunning \/ ScheduleRunning \/ Preempt \/ EndRunning
  \/ ScheduleWaiting \/ EndWaiting \/ EndSchedule

Next ==
  \/ Schedule
  \/ Execute
  \/ UpdateFromOutput
  \/ ResetEncoderCache
  \/ \E r \in Requests : AddRequest(r) \/ Abort(r)

Spec == Init /\ [][Next]_vars

(***************************************************************************)
(* The engine keeps stepping while it has requests: it fills the batch     *)
(* queue, and takes the oldest result when it cannot.                      *)
(***************************************************************************)
Fairness ==
  /\ WF_vars(Schedule)
  /\ WF_vars(Execute)
  /\ WF_vars(UpdateFromOutput)

FairSpec == Spec /\ Fairness

-----------------------------------------------------------------------------
\* Items whose embeddings the worker reads for a step, the drafter's included,
\* which looks one token ahead.
Gathered(b) ==
  LET reads(r, s) == {HashOf(r, i) : i \in
        {j \in Window(r, b.start[r] + s, b.start[r] + s + b.num[r]) :
           HasEmbeds(r, j, b.start[r] + s, b.start[r] + s + b.num[r])}}
  IN UNION {reads(r, s) : r \in ToSet(b.reqs), s \in {0, Shift}}

\* Every embedding that _gather_mm_embeddings reads is in the worker's cache:
\* the scheduler takes an item to be cached only if the worker holds it when it
\* executes the step, whatever was evicted, freed or reset since.
EmbeddingsPresent ==
  batches # << >> =>
    LET b == Head(batches)
    IN Gathered(b) \subseteq (encoder_cache \ b.freed) \union Encoded(b)

\* num_free_slots and num_freeable_slots are what the cached entries leave:
\* an item that several requests reference, or one request twice, counts once.
SlotsExact ==
  LET size(hs) == MapThenSumSet(NumEmbeds, hs)
  IN /\ ecm.num_free_slots = CacheSize - size(DOMAIN ecm.cached)
     /\ ecm.num_freeable_slots = ecm.num_free_slots + size(ToSet(ecm.freeable))
     /\ ToSet(ecm.freeable) = {h \in DOMAIN ecm.cached : ecm.cached[h] = {}}

\* The worker never holds more than the cache was sized for, although it hears
\* of an eviction only with a later step.
WorkerCacheBounded ==
  MapThenSumSet(NumEmbeds, encoder_cache) =< CacheSize

\* Between two schedules only running requests hold references, so that a
\* request that waits cannot keep the items it does not use from being evicted.
PinnedByRunning ==
  phase = "idle" =>
    \A h \in DOMAIN ecm.cached : ecm.cached[h] \subseteq ToSet(running)

\* Every request is served, however little fits in the encoder cache.
MultimodalServed ==
  \A r \in Requests : status[r] = "waiting" ~> status[r] = "finished"

=============================================================================
