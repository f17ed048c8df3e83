------------------------------- MODULE DPWaves -------------------------------
(***************************************************************************)
(* Data-parallel ranks of a mixture-of-experts model, kept in lock-step:   *)
(* every forward pass is a collective operation, so a rank without         *)
(* requests of its own has to run a dummy pass whenever another rank runs  *)
(* one.  The ranks alternate between running and idle; a period of running *)
(* is a "wave".  The module composes                                       *)
(*   - the engines' busy loops (DPEngineCoreProc in core.py),              *)
(*   - the coordinator (DPCoordinatorProc in coordinator.py), and          *)
(*   - the front-ends (DPAsyncMPClient in core_client.py),                 *)
(* with one first-in first-out channel for every pair that exchanges       *)
(* messages, the pausing of all the engines for, say, a weight update, and *)
(* the abort of requests.                                                  *)
(*                                                                         *)
(* A request takes two forward passes: it is admitted in the first and     *)
(* finished by the second.                                                 *)
(***************************************************************************)
EXTENDS Integers, Sequences

CONSTANTS
  Engines,      \* the ranks
  Rank0,        \* the rank that reports the end of a wave
  FrontEnds,
  SyncEvery,    \* forward passes between two all-reduces, 32 in the code
  Workloads     \* what the clients may do: the requests they send, each at
                \* most once, the modes they may pause with (bound: one pause),
                \* and whether they abort requests

NoOne == "none"   \* exclude_eng_index = None

ASSUME WaveAssumption ==
  /\ Rank0 \in Engines /\ Engines # {Rank0} /\ NoOne \notin Engines
  /\ SyncEvery \in Nat \ {0}
  /\ \A w \in Workloads : /\ w.pauses \subseteq {"abort", "wait", "keep"}
                          /\ w.aborts \in BOOLEAN

Requests == UNION {w.requests : w \in Workloads}

VARIABLES
  workload,           \* the one of this behaviour
  status,             \* a request's state
  engine, origin,     \* the engine it is sent to, and the front-end it is from
  pc,                 \* where an engine is in run_busy_loop
  current_wave, engines_running, step_counter,
  pause_state, pending_pause, ignore_start_dp_wave,
  idle_callback,      \* a pause waits for the engine to be idle
  cwave, crunning,    \* the coordinator's current_wave and engines_running
  fwave, frunning,    \* a front-end's
  first_req,          \* a front-end's inproc socket to its stats task
  fe, fc, cf, ce, ec, \* channels between front-ends, coordinator and engines
  pauser              \* the client of pause and resume: what it is up to

route == <<engine, origin>>
engineVars == <<pc, current_wave, engines_running, step_counter, pause_state,
                pending_pause, ignore_start_dp_wave, idle_callback>>
coordVars == <<cwave, crunning>>
frontVars == <<fwave, frunning, first_req>>
channels == <<fe, fc, cf, ce, ec>>
clientVars == <<pauser, workload>>
vars == <<status, route, engineVars, coordVars, frontVars, channels, clientVars>>

Init ==
  /\ workload \in Workloads
  /\ status = [q \in Requests |-> "new"]
  /\ engine = [q \in Requests |-> Rank0]
  /\ origin = [q \in Requests |-> CHOOSE f \in FrontEnds : TRUE]
  /\ pc = [e \in Engines |-> "input"]
  /\ current_wave = [e \in Engines |-> 0]
  /\ engines_running = [e \in Engines |-> FALSE]
  /\ step_counter = [e \in Engines |-> 0]
  /\ pause_state = [e \in Engines |-> "unpaused"]
  /\ pending_pause = [e \in Engines |-> FALSE]
  /\ ignore_start_dp_wave = [e \in Engines |-> FALSE]
  /\ idle_callback = [e \in Engines |-> FALSE]
  /\ cwave = 0
  /\ crunning = FALSE
  /\ fwave = [f \in FrontEnds |-> 0]
  /\ frunning = [f \in FrontEnds |-> FALSE]
  /\ first_req = [f \in FrontEnds |-> <<>>]
  /\ fe = [f \in FrontEnds |-> [e \in Engines |-> <<>>]]
  /\ fc = [f \in FrontEnds |-> <<>>]
  /\ cf = [f \in FrontEnds |-> <<>>]
  /\ ce = [e \in Engines |-> <<>>]
  /\ ec = [e \in Engines |-> <<>>]
  /\ pauser = "none"

-----------------------------------------------------------------------------
(***************************************************************************)
(* The front-ends.                                                         *)
(***************************************************************************)

\* add_request_async: the request goes to an engine with the front-end's wave;
\* if the engines are thought to be idle the stats task is told.
AddRequest(f, q, e) ==
  /\ q \in workload.requests
  /\ status[q] = "new"
  /\ status' = [status EXCEPT ![q] = "sent"]
  /\ engine' = [engine EXCEPT ![q] = e]
  /\ origin' = [origin EXCEPT ![q] = f]
  /\ fe' = [fe EXCEPT ![f][e] =
       Append(@, [type |-> "add", req |-> q, wave |-> fwave[f]])]
  /\ first_req' = IF frunning[f] THEN first_req
                  ELSE [first_req EXCEPT ![f] = Append(@, e)]
  /\ UNCHANGED <<engineVars, coordVars, fwave, frunning, fc, cf, ce, ec, clientVars>>

\* A client goes away: the request is aborted on the channel it was sent on.
AbortRequest(q) ==
  LET f == origin[q]
      e == engine[q]
      abort == [type |-> "abort", req |-> q]
  IN /\ workload.aborts
     /\ status[q] \in {"sent", "waiting", "running"}
     /\ \A i \in 1 .. Len(fe[f][e]) : fe[f][e][i] # abort
     /\ fe' = [fe EXCEPT ![f][e] = Append(@, abort)]
     /\ UNCHANGED <<status, route, engineVars, coordVars, frontVars,
                    fc, cf, ce, ec, clientVars>>

\* The stats task takes a FIRST_REQ and tells the coordinator, with the wave
\* the front-end knows of by now.
SendFirstReq(f) ==
  /\ first_req[f] # <<>>
  /\ first_req' = [first_req EXCEPT ![f] = Tail(@)]
  /\ frunning' = [frunning EXCEPT ![f] = TRUE]
  /\ fc' = [fc EXCEPT ![f] = Append(@, <<Head(first_req[f]), fwave[f]>>)]
  /\ UNCHANGED <<status, route, engineVars, coordVars, fwave, fe, cf, ce, ec,
                 clientVars>>

\* The stats task takes an update of the coordinator.
UpdateStats(f) ==
  /\ cf[f] # <<>>
  /\ fwave' = [fwave EXCEPT ![f] = Head(cf[f])[1]]
  /\ frunning' = [frunning EXCEPT ![f] = Head(cf[f])[2]]
  /\ cf' = [cf EXCEPT ![f] = Tail(@)]
  /\ UNCHANGED <<status, route, engineVars, coordVars, first_req, fe, fc, ce,
                 ec, clientVars>>

\* A client pauses all the engines ...
PauseAll(f, mode) ==
  /\ pauser = "none"
  /\ pauser' = "pausing"
  /\ fe' = [fe EXCEPT ![f] = [e \in Engines |->
       Append(@[e], [type |-> "pause", mode |-> mode])]]
  /\ UNCHANGED <<status, route, engineVars, coordVars, frontVars, fc, cf, ce,
                 ec, workload>>

\* ... and resumes them when every one has answered.
ResumeAll(f) ==
  /\ pauser = "pausing"
  /\ \A e \in Engines : pause_state[e] # "unpaused" /\ ~idle_callback[e]
  /\ pauser' = "done"
  /\ fe' = [fe EXCEPT ![f] = [e \in Engines |-> Append(@[e], [type |-> "resume"])]]
  /\ UNCHANGED <<status, route, engineVars, coordVars, frontVars, fc, cf, ce,
                 ec, workload>>

-----------------------------------------------------------------------------
(***************************************************************************)
(* The coordinator.                                                        *)
(***************************************************************************)

\* _send_start_wave: the message goes to every engine.
SendStartWave(wave, exclude) ==
  ce' = [e \in Engines |-> Append(ce[e], <<wave, exclude>>)]

\* The new state is published to every front-end.
PublishState == cf' = [f \in FrontEnds |-> Append(cf[f], <<cwave', crunning'>>)]

\* A front-end has sent a request while it thought the engines idle.
OnFirstReq(f) ==
  /\ fc[f] # <<>>
  /\ fc' = [fc EXCEPT ![f] = Tail(@)]
  /\ LET exclude == Head(fc[f])[1]
         wave == Head(fc[f])[2]
     IN \/ crunning /\ UNCHANGED <<coordVars, cf, ce>>
        \/ /\ ~crunning
           /\ crunning' = TRUE
           /\ UNCHANGED cwave
           /\ SendStartWave(cwave, IF wave < cwave THEN NoOne ELSE exclude)
           /\ PublishState
  /\ UNCHANGED <<status, route, engineVars, frontVars, fe, ec, clientVars>>

\* Mutant: the end of the current wave is taken for an old one.
OnEngineOutput_OlderOnly(e) ==
  /\ ec[e] # <<>>
  /\ ec' = [ec EXCEPT ![e] = Tail(@)]
  /\ LET m == Head(ec[e])
     IN \/ /\ m.type = "wave_complete"
           /\ UNCHANGED <<coordVars, cf, ce>>
        \/ /\ m.type = "start_wave"
           /\ m.wave > cwave \/ (m.wave = cwave /\ ~crunning)
           /\ cwave' = m.wave
           /\ crunning' = TRUE
           /\ SendStartWave(m.wave, e)
           /\ PublishState
  /\ UNCHANGED <<status, route, engineVars, frontVars, fe, fc, clientVars>>

\* wave_complete from rank 0, or start_wave from an engine that got a request
\* of an earlier wave.
OnEngineOutput(e) ==
  /\ ec[e] # <<>>
  /\ ec' = [ec EXCEPT ![e] = Tail(@)]
  /\ LET m == Head(ec[e])
     IN \/ /\ m.type = "wave_complete"
           /\ cwave <= m.wave
           /\ cwave' = m.wave + 1
           /\ crunning' = FALSE
           /\ PublishState
           /\ UNCHANGED ce
        \/ /\ m.type = "start_wave"
           /\ m.wave > cwave \/ (m.wave = cwave /\ ~crunning)
           /\ cwave' = m.wave
           /\ crunning' = TRUE
           /\ SendStartWave(m.wave, e)
           /\ PublishState
        \/ /\ \/ m.type = "wave_complete" /\ cwave > m.wave
              \/ /\ m.type = "start_wave"
                 /\ m.wave < cwave \/ (m.wave = cwave /\ crunning)
           /\ UNCHANGED <<coordVars, cf, ce>>
  /\ UNCHANGED <<status, route, engineVars, frontVars, fe, fc, clientVars>>

\* The periodic publication, where it makes a difference.
Republish(f) ==
  /\ cf[f] = <<>>
  /\ <<cwave, crunning>> # <<fwave[f], frunning[f]>>
  /\ cf' = [cf EXCEPT ![f] = <<<<cwave, crunning>>>>]
  /\ UNCHANGED <<status, route, engineVars, coordVars, frontVars, fe, fc, ce,
                 ec, clientVars>>

-----------------------------------------------------------------------------
(***************************************************************************)
(* The engines.  An engine is at "input" while it takes messages, blocks   *)
(* in the forward pass at "forward", in the all-reduce of the unfinished   *)
(* requests at "sync" and in the one of a resume at "resume", and has      *)
(* found the wave finished at "wave".                                      *)
(***************************************************************************)

Local(e, states) == {q \in Requests : engine[q] = e /\ status[q] \in states}

\* What the scheduler of e can schedule: its requests that are not finished, as
\* the pause state lets it count them.
Schedulable(e) ==
  CASE pause_state[e] = "unpaused"   -> Local(e, {"waiting", "running"})
    [] pause_state[e] = "paused_new" -> Local(e, {"running"})
    [] pause_state[e] = "paused_all" -> {}

HasUnfinished(e) == Schedulable(e) # {}

HasWork(e) == engines_running[e] \/ HasUnfinished(e)

\* Mutant: the other engines are not told of a request of an earlier wave.
OnAdd_Silent(e, m) ==
  /\ status' = [status EXCEPT ![m.req] = "waiting"]
  /\ current_wave' = IF m.wave < current_wave[e] THEN current_wave
                     ELSE [current_wave EXCEPT ![e] = m.wave]
  /\ UNCHANGED <<pc, engines_running, step_counter, pause_state, pending_pause,
                 ignore_start_dp_wave, idle_callback, ec>>

\* DPEngineCoreProc.add_request.
OnAdd(e, m) ==
  LET stale == m.wave < current_wave[e]
      start == stale /\ ~engines_running[e] /\ pause_state[e] = "unpaused"
  IN /\ status' = [status EXCEPT ![m.req] = "waiting"]
     /\ current_wave' =
          IF stale THEN current_wave ELSE [current_wave EXCEPT ![e] = m.wave]
     /\ engines_running' = [engines_running EXCEPT ![e] = @ \/ start]
     /\ ec' = IF start
              THEN [ec EXCEPT ![e] = Append(@,
                      [type |-> "start_wave", wave |-> current_wave[e]])]
              ELSE ec
     /\ UNCHANGED <<pc, step_counter, pause_state, pending_pause,
                    ignore_start_dp_wave, idle_callback>>

OnAbort(e, m) ==
  /\ status' = IF status[m.req] = "done" THEN status
               ELSE [status EXCEPT ![m.req] = "aborted"]
  /\ UNCHANGED <<engineVars, ec>>

\* pause_scheduler with the two-phase _pause_complete.
OnPause(e, m) ==
  /\ status' = [q \in Requests |->
       IF m.mode = "abort" /\ q \in Local(e, {"waiting", "running"})
       THEN "aborted" ELSE status[q]]
  /\ pause_state' = [pause_state EXCEPT ![e] =
       IF m.mode = "keep" THEN "paused_all" ELSE "paused_new"]
  /\ pending_pause' = [pending_pause EXCEPT ![e] = TRUE]
  /\ engines_running' = [engines_running EXCEPT ![e] = TRUE]
  /\ idle_callback' = [idle_callback EXCEPT ![e] = TRUE]
  /\ UNCHANGED <<pc, current_wave, step_counter, ignore_start_dp_wave, ec>>

\* resume_scheduler up to its all-reduce.  It raises while a pause is in
\* flight, and does nothing when the engine runs unpaused.
OnResume(e) ==
  /\ \/ /\ pending_pause[e] \/ engines_running[e]
        /\ UNCHANGED <<pc, pause_state, ignore_start_dp_wave>>
     \/ /\ ~pending_pause[e]
        /\ ~engines_running[e]
        /\ pause_state' = [pause_state EXCEPT ![e] = "unpaused"]
        /\ ignore_start_dp_wave' = [ignore_start_dp_wave EXCEPT ![e] = FALSE]
        /\ pc' = [pc EXCEPT ![e] = "resume"]
  /\ UNCHANGED <<status, current_wave, engines_running, step_counter,
                 pending_pause, idle_callback, ec>>

\* _handle_client_request for a message of a front-end.
HandleFrontEnd(e, f) ==
  /\ pc[e] = "input"
  /\ fe[f][e] # <<>>
  /\ fe' = [fe EXCEPT ![f][e] = Tail(@)]
  /\ LET m == Head(fe[f][e])
     IN \/ m.type = "add" /\ OnAdd(e, m)
        \/ m.type = "abort" /\ OnAbort(e, m)
        \/ m.type = "pause" /\ OnPause(e, m)
        \/ m.type = "resume" /\ OnResume(e)
  /\ UNCHANGED <<route, coordVars, frontVars, fc, cf, ce, clientVars>>

\* Mutant: a paused engine is not deaf to START_DP_WAVE.
HandleStartWave_NeverIgnores(e) ==
  /\ pc[e] = "input"
  /\ ce[e] # <<>>
  /\ ce' = [ce EXCEPT ![e] = Tail(@)]
  /\ LET wave == Head(ce[e])[1]
         start == Head(ce[e])[2] # e /\ wave >= current_wave[e]
     IN /\ current_wave' =
             IF start THEN [current_wave EXCEPT ![e] = wave] ELSE current_wave
        /\ engines_running' = [engines_running EXCEPT ![e] = @ \/ start]
  /\ UNCHANGED <<status, route, pc, step_counter, pause_state, pending_pause,
                 ignore_start_dp_wave, idle_callback, coordVars, frontVars, fe,
                 fc, cf, ec, clientVars>>

\* _handle_client_request for START_DP_WAVE.
HandleStartWave(e) ==
  /\ pc[e] = "input"
  /\ ce[e] # <<>>
  /\ ce' = [ce EXCEPT ![e] = Tail(@)]
  /\ LET wave == Head(ce[e])[1]
         exclude == Head(ce[e])[2]
         start == /\ ~ignore_start_dp_wave[e]
                  /\ exclude # e
                  /\ wave >= current_wave[e]
     IN /\ current_wave' =
             IF start THEN [current_wave EXCEPT ![e] = wave] ELSE current_wave
        /\ engines_running' = [engines_running EXCEPT ![e] = @ \/ start]
  /\ UNCHANGED <<status, route, pc, step_counter, pause_state, pending_pause,
                 ignore_start_dp_wave, idle_callback, coordVars, frontVars, fe,
                 fc, cf, ec, clientVars>>

\* _notify_idle_state_callbacks: the pause is complete on this engine.
NotifyIdle(e) ==
  /\ pc[e] = "input"
  /\ ~HasWork(e)
  /\ idle_callback[e]
  /\ idle_callback' = [idle_callback EXCEPT ![e] = FALSE]
  /\ UNCHANGED <<status, route, pc, current_wave, engines_running,
                 step_counter, pause_state, pending_pause,
                 ignore_start_dp_wave, coordVars, frontVars, channels, clientVars>>

\* The engine enters a step: of its own requests, or a dummy batch.
BeginStep(e) ==
  /\ pc[e] = "input"
  /\ HasWork(e)
  /\ pc' = [pc EXCEPT ![e] = "forward"]
  /\ UNCHANGED <<status, route, current_wave, engines_running, step_counter,
                 pause_state, pending_pause, ignore_start_dp_wave,
                 idle_callback, coordVars, frontVars, channels, clientVars>>

\* The forward pass is a collective: it completes when all the engines are in
\* it.  The all-reduce is due every SyncEvery passes; the counter matters only
\* modulo this number.
Forward ==
  /\ \A e \in Engines : pc[e] = "forward"
  /\ status' = [q \in Requests |->
       IF q \notin Schedulable(engine[q]) THEN status[q]
       ELSE IF status[q] = "waiting" THEN "running" ELSE "done"]
  /\ step_counter' = [e \in Engines |-> (step_counter[e] + 1) % SyncEvery]
  /\ LET due(e) == step_counter'[e] = 0
     IN /\ pc' = [e \in Engines |-> IF due(e) THEN "sync" ELSE "input"]
        /\ engines_running' =
             [e \in Engines |-> engines_running[e] \/ ~due(e)]
  /\ UNCHANGED <<route, current_wave, pause_state, pending_pause,
                 ignore_start_dp_wave, idle_callback, coordVars, frontVars,
                 channels, clientVars>>

\* Mutant: the engines stop although only some of them are pausing.
Sync_OnePhase ==
  /\ \A e \in Engines : pc[e] = "sync"
  /\ LET pausing == {e \in Engines : pending_pause[e]}
         unfinished == \E e \in Engines : HasUnfinished(e)
     IN /\ engines_running' = [e \in Engines |-> unfinished]
        /\ pc' = [e \in Engines |-> IF unfinished THEN "input" ELSE "wave"]
        /\ \/ /\ pausing = Engines
              /\ ignore_start_dp_wave' = [e \in Engines |-> TRUE]
              /\ pending_pause' = [e \in Engines |-> FALSE]
           \/ /\ pausing # Engines
              /\ UNCHANGED <<ignore_start_dp_wave, pending_pause>>
  /\ UNCHANGED <<status, route, current_wave, step_counter, pause_state,
                 idle_callback, coordVars, frontVars, channels, clientVars>>

\* sync_dp_state and what each engine makes of its result.
Sync ==
  /\ \A e \in Engines : pc[e] = "sync"
  /\ LET pausing == {e \in Engines : pending_pause[e]}
         unfinished == \/ \E e \in Engines : HasUnfinished(e)
                       \/ pausing \notin {{}, Engines}
     IN /\ engines_running' = [e \in Engines |-> unfinished]
        /\ pc' = [e \in Engines |-> IF unfinished THEN "input" ELSE "wave"]
        /\ \/ /\ pausing = Engines
              /\ ignore_start_dp_wave' = [e \in Engines |-> TRUE]
              /\ pending_pause' = [e \in Engines |-> FALSE]
           \/ /\ pausing # Engines
              /\ UNCHANGED <<ignore_start_dp_wave, pending_pause>>
  /\ UNCHANGED <<status, route, current_wave, step_counter, pause_state,
                 idle_callback, coordVars, frontVars, channels, clientVars>>

\* The wave is finished: rank 0 tells the coordinator.
EndWave(e) ==
  /\ pc[e] = "wave"
  /\ pc' = [pc EXCEPT ![e] = "input"]
  /\ ec' = IF e = Rank0
           THEN [ec EXCEPT ![e] = Append(@,
                   [type |-> "wave_complete", wave |-> current_wave[e]])]
           ELSE ec
  /\ current_wave' = [current_wave EXCEPT ![e] = @ + 1]
  /\ step_counter' = [step_counter EXCEPT ![e] = 0]
  /\ UNCHANGED <<status, route, engines_running, pause_state, pending_pause,
                 ignore_start_dp_wave, idle_callback, coordVars, frontVars, fe,
                 fc, cf, ce, clientVars>>

\* The all-reduce that ends resume_scheduler.
Resumed ==
  /\ \A e \in Engines : pc[e] = "resume"
  /\ pc' = [e \in Engines |-> "input"]
  /\ engines_running' = [e \in Engines |-> \E d \in Engines : HasUnfinished(d)]
  /\ UNCHANGED <<status, route, current_wave, step_counter, pause_state,
                 pending_pause, ignore_start_dp_wave, idle_callback, coordVars,
                 frontVars, channels, clientVars>>

-----------------------------------------------------------------------------
Handle(e) == (\E f \in FrontEnds : HandleFrontEnd(e, f)) \/ HandleStartWave(e)

EngineStep(e) == NotifyIdle(e) \/ BeginStep(e) \/ EndWave(e)

Collective == Forward \/ Sync \/ Resumed

FrontEndStep(f) == SendFirstReq(f) \/ UpdateStats(f)

CoordinatorStep ==
  \/ \E f \in FrontEnds : OnFirstReq(f)
  \/ \E e \in Engines : OnEngineOutput(e)

Next ==
  \/ \E f \in FrontEnds :
       \/ \E q \in Requests, e \in Engines : AddRequest(f, q, e)
       \/ \E mode \in workload.pauses : PauseAll(f, mode)
       \/ ResumeAll(f)
       \/ FrontEndStep(f)
       \/ Republish(f)
  \/ \E q \in Requests : AbortRequest(q)
  \/ CoordinatorStep
  \/ \E e \in Engines : Handle(e) \/ EngineStep(e)
  \/ Collective

Spec == Init /\ [][Next]_vars

(***************************************************************************)
(* Every process runs, and a collective all ranks have entered completes.  *)
(* An engine empties its input queue before each step (_process_input_     *)
(* queue), so it does not step for ever past a message: handling is        *)
(* strongly fair.  Nothing obliges clients to send, abort or pause, but    *)
(* who paused the engines resumes them.                                    *)
(***************************************************************************)
Fairness ==
  /\ \A e \in Engines : SF_vars(Handle(e)) /\ WF_vars(EngineStep(e))
  /\ WF_vars(Collective)
  /\ WF_vars(CoordinatorStep)
  /\ \A f \in FrontEnds : WF_vars(FrontEndStep(f))
  /\ WF_vars(\E f \in FrontEnds : ResumeAll(f))

FairSpec == Spec /\ Fairness
-----------------------------------------------------------------------------
(***************************************************************************)
(* Properties.                                                             *)
(***************************************************************************)

\* The engines enter the same collective operations in the same order: no rank
\* is in a forward pass, an all-reduce or a resume that its peers cannot reach
\* before it is done, and ranks in the same one count the same steps.
SameCollective ==
  \A d, e \in Engines :
    /\ pc[d] = "forward" => pc[e] \notin {"sync", "resume"}
    /\ pc[d] = "sync" => pc[e] = "sync"
    /\ {pc[d], pc[e]} \subseteq {"forward", "sync"} =>
         step_counter[d] = step_counter[e]

\* Once an engine has answered a pause it stays idle until it is resumed,
\* whatever START_DP_WAVE and requests still reach it: it enters no forward pass
\* that its peers would have to join.
PausedStaysIdle ==
  \A e \in Engines :
    pause_state[e] # "unpaused" /\ ~idle_callback[e] =>
      pc[e] = "input" /\ ~HasWork(e)

\* When nothing is in flight and the engines are idle, the coordinator and the
\* front-ends know it, and all agree on the wave that comes next: the next
\* request will wake up every engine.  (An engine that is paused drops the
\* START_DP_WAVE it gets, and the resume takes over; see workload.)
IdleIsKnown ==
  /\ workload.pauses = {}
  /\ \A e \in Engines : /\ pc[e] = "input"
                        /\ ~HasWork(e)
                        /\ pause_state[e] = "unpaused"
                        /\ ce[e] = <<>> /\ ec[e] = <<>>
  /\ \A f \in FrontEnds : /\ cf[f] = <<>> /\ fc[f] = <<>> /\ first_req[f] = <<>>
                          /\ \A e \in Engines : fe[f][e] = <<>>
  => /\ ~crunning
     /\ \A e \in Engines : current_wave[e] = cwave
     /\ \A f \in FrontEnds : ~frunning[f] /\ fwave[f] = cwave

\* Every request that is sent is finished or aborted: the engine that gets it
\* is never left alone in a forward pass by ranks that were not woken up.
RequestsServed ==
  \A q \in Requests :
    status[q] = "sent" /\ workload.pauses = {}
      ~> status[q] \in {"done", "aborted"}
=============================================================================
