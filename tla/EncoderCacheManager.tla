------------------------- MODULE EncoderCacheManager -------------------------
(***************************************************************************)
(* The scheduler's book-keeping of the multimodal encoder outputs the      *)
(* workers hold (EncoderCacheManager in encoder_cache_manager.py).  Every  *)
(* method is an operator from the manager's state m to its next state.     *)
(*                                                                         *)
(* An item is a multimodal input, named by its mm_hash; a request's        *)
(* features say which items its prompt holds, and where.                   *)
(***************************************************************************)
EXTENDS Integers, Sequences, SequencesExt, FiniteSetsExt

CONSTANTS
  Requests,
  Length,      \* item -> length of its placeholder range in a prompt
  Embeds,      \* item -> positions in that range that hold an embedding
  Features,    \* request -> its features, by position in the prompt
  CacheSize

Items == DOMAIN Length

NumEmbeds(h) == Cardinality(Embeds[h])

\* FoldLeft, with every intermediate value computed once.
Iterate(op(_, _), base, seq) ==
  LET after[k \in 0 .. Len(seq)] ==
        IF k = 0 THEN base
        ELSE CHOOSE b \in {op(a, seq[k]) : a \in {after[k - 1]}} : TRUE
  IN after[Len(seq)]

NumEmbedsOf(hs) == Iterate(LAMBDA n, h : n + NumEmbeds(h), 0, hs)

ASSUME EncoderAssumption ==
  /\ \A h \in Items : Embeds[h] \subseteq 0 .. Length[h] - 1
  /\ \A h \in Items : NumEmbeds(h) \in 1 .. CacheSize
  /\ \A r \in Requests :
       \A i \in DOMAIN Features[r] :
         LET f == Features[r][i]
         IN /\ f.hash \in Items /\ f.offset \in Nat
            /\ i > 1 => Features[r][i - 1].offset
                          + Length[Features[r][i - 1].hash] =< f.offset

(***************************************************************************)
(* The manager's state.  cached maps an mm_hash to the requests that       *)
(* reference it, freeable lists the unreferenced ones from the oldest.     *)
(***************************************************************************)
ManagerInit ==
  [cached |-> << >>, request_cached_ids |-> [r \in Requests |-> {}],
   freeable |-> << >>, freed |-> {},
   num_free_slots |-> CacheSize, num_freeable_slots |-> CacheSize]

HashOf(r, i) == Features[r][i].hash

\* The ids of some of a request's features, in increasing order.
InOrder(r, ids) ==
  SelectSeq([i \in DOMAIN Features[r] |-> i], LAMBDA i : i \in ids)

IsCached(m, r, i) == HashOf(r, i) \in DOMAIN m.cached

\* Mutant: an entry that is referenced again stays among the freeable ones.
Touch_KeepsFreeable(m, r, i) ==
  LET h == HashOf(r, i)
  IN [m EXCEPT !.cached[h] = @ \union {r},
               !.request_cached_ids[r] = @ \union {i}]

\* What a hit of check_and_update_cache changes.
Touch(m, r, i) ==
  LET h == HashOf(r, i)
      unreferenced == m.cached[h] = {}
  IN [m EXCEPT
        !.freeable = SelectSeq(@, LAMBDA g : g # h),
        !.num_freeable_slots = IF unreferenced THEN @ - NumEmbeds(h) ELSE @,
        !.cached[h] = @ \union {r},
        !.request_cached_ids[r] = @ \union {i}]

\* can_allocate's answer ...
CanAllocate(m, r, i, compute_budget, num_embeds_to_schedule) ==
  LET n == NumEmbeds(HashOf(r, i))
  IN /\ n =< compute_budget
     /\ \/ n + num_embeds_to_schedule =< m.num_free_slots
        \/ n + num_embeds_to_schedule =< m.num_freeable_slots

\* Mutant: the worker is not told of the evictions.
Evict_Silent(m, r, i, num_embeds_to_schedule) ==
  LET need == NumEmbeds(HashOf(r, i)) + num_embeds_to_schedule
      freeing(k) == NumEmbedsOf(SubSeq(m.freeable, 1, k))
      k == Min({j \in 0 .. Len(m.freeable) :
                  need =< m.num_free_slots + freeing(j)})
      out == ToSet(SubSeq(m.freeable, 1, k))
  IN [m EXCEPT
        !.freeable = SubSeq(@, k + 1, Len(@)),
        !.cached = [h \in DOMAIN @ \ out |-> @[h]],
        !.num_free_slots = @ + freeing(k)]

\* ... and, when it is yes, the entries it evicts: the oldest that suffice.
Evict(m, r, i, num_embeds_to_schedule) ==
  LET need == NumEmbeds(HashOf(r, i)) + num_embeds_to_schedule
      freeing(k) == NumEmbedsOf(SubSeq(m.freeable, 1, k))
      k == Min({j \in 0 .. Len(m.freeable) :
                  need =< m.num_free_slots + freeing(j)})
      out == ToSet(SubSeq(m.freeable, 1, k))
  IN [m EXCEPT
        !.freeable = SubSeq(@, k + 1, Len(@)),
        !.cached = [h \in DOMAIN @ \ out |-> @[h]],
        !.freed = @ \union out,
        !.num_free_slots = @ + freeing(k)]

Allocate(m, r, i) ==
  LET h == HashOf(r, i)
  IN [m EXCEPT
        !.cached = [g \in DOMAIN @ \union {h} |->
                      (IF g \in DOMAIN @ THEN @[g] ELSE {})
                      \union (IF g = h THEN {r} ELSE {})],
        !.request_cached_ids[r] = @ \union {i},
        !.num_free_slots = @ - NumEmbeds(h),
        !.num_freeable_slots = @ - NumEmbeds(h)]

\* Mutant: an entry without references is freed once more.
FreeEncoderInput_Again(m, r, i) ==
  LET h == HashOf(r, i)
      last == h \in DOMAIN m.cached /\ m.cached[h] \ {r} = {}
  IN [m EXCEPT
        !.request_cached_ids[r] = @ \ {i},
        !.cached = [g \in DOMAIN @ |-> IF g = h THEN @[g] \ {r} ELSE @[g]],
        !.freeable = IF last THEN Append(@, h) ELSE @,
        !.num_freeable_slots = IF last THEN @ + NumEmbeds(h) ELSE @]

FreeEncoderInput(m, r, i) ==
  LET h == HashOf(r, i)
      forgot == [m EXCEPT !.request_cached_ids[r] = @ \ {i}]
      last == m.cached[h] \ {r} = {}
  IN IF h \notin DOMAIN m.cached \/ m.cached[h] = {} THEN forgot
     ELSE [forgot EXCEPT
             !.cached[h] = @ \ {r},
             !.freeable = IF last THEN Append(@, h) ELSE @,
             !.num_freeable_slots = IF last THEN @ + NumEmbeds(h) ELSE @]

\* free_encoder_input for each of the ids, in increasing order.
FreeInputs(m, r, ids) ==
  Iterate(LAMBDA a, i : FreeEncoderInput(a, r, i), m, InOrder(r, ids))

\* Mutant: only the first of the request's inputs.
Free_First(m, r) == FreeInputs(m, r, IF m.request_cached_ids[r] = {} THEN {}
                                     ELSE {Min(m.request_cached_ids[r])})

Free(m, r) == FreeInputs(m, r, m.request_cached_ids[r])

\* get_freed_mm_hashes returns m.freed and clears it.
ClearFreed(m) == [m EXCEPT !.freed = {}]

=============================================================================
