--------------------------- MODULE DPWavesProofs ---------------------------
(***************************************************************************)
(* Proofs about DPWaves, for any number of engines, front-ends, requests   *)
(* and any workload.  This module proves what the engine cores keep to by  *)
(* themselves: they meet in the same collective, and a paused engine stays *)
(* idle.  DPWavesIdleProofs adds the coordinator and the front-ends.       *)
(*                                                                         *)
(* Neither property is inductive.  Ranks meet because they count their     *)
(* steps together (CountInv).  A paused engine stays idle because a pause  *)
(* is requested once, a resume only after every engine answered the pause, *)
(* and each engine is sent one of each: so a resume finds every engine     *)
(* paused or in the all-reduce of its own resume (CallInv, OnceInv,        *)
(* ResumeInv).                                                             *)
(***************************************************************************)
EXTENDS DPWaves, SequenceTheorems, TLAPS

\* The modes of pause_scheduler.
Modes == {"abort", "wait", "keep"}

\* What a front-end sends to an engine, and an engine to the coordinator.
Message == [type : {"add"}, req : Requests, wave : Nat]
             \cup [type : {"abort"}, req : Requests]
             \cup [type : {"pause"}, mode : Modes]
             \cup [type : {"resume"}]

Report == [type : {"wave_complete", "start_wave"}, wave : Nat]

\* The shape of the engines' state, of the clients' and of the channels.
EngineType ==
  /\ pc \in [Engines -> {"input", "forward", "sync", "wave", "resume"}]
  /\ current_wave \in [Engines -> Nat]
  /\ engines_running \in [Engines -> BOOLEAN]
  /\ step_counter \in [Engines -> Nat]
  /\ pause_state \in [Engines -> {"unpaused", "paused_new", "paused_all"}]
  /\ pending_pause \in [Engines -> BOOLEAN]
  /\ ignore_start_dp_wave \in [Engines -> BOOLEAN]
  /\ idle_callback \in [Engines -> BOOLEAN]

ClientType ==
  /\ workload \in Workloads
  /\ pauser \in {"none", "pausing", "done"}
  /\ status \in [Requests -> {"new", "sent", "waiting", "running", "done", "aborted"}]
  /\ engine \in [Requests -> Engines]
  /\ cwave \in Nat /\ crunning \in BOOLEAN
  /\ fwave \in [FrontEnds -> Nat]
  /\ frunning \in [FrontEnds -> BOOLEAN]

ChannelType ==
  /\ fe \in [FrontEnds -> [Engines -> Seq(Message)]]
  /\ fc \in [FrontEnds -> Seq(Engines \X Nat)]
  /\ cf \in [FrontEnds -> Seq(Nat \X BOOLEAN)]
  /\ ce \in [Engines -> Seq(Nat \X (Engines \cup {NoOne}))]
  /\ ec \in [Engines -> Seq(Report)]
  /\ first_req \in [FrontEnds -> Seq(Engines)]

\* The state has the shape of the processes' objects and channels.
TypeOK == EngineType /\ ClientType /\ ChannelType

\* The messages in a channel.
Items(s) == {s[i] : i \in 1 .. Len(s)}

\* The ranks count their steps together, and enter the all-reduce together.
CountInv ==
  \A d, e \in Engines :
    /\ step_counter[d] = step_counter[e]
    /\ pc[e] \in {"sync", "wave"} => step_counter[e] = 0
    /\ pc[d] = "sync" => pc[e] = "sync"

\* An engine between a pause and the resume that follows it.
Paused(e) == pause_state[e] # "unpaused"

\* What pause_scheduler leaves on an engine.
EngineInv ==
  \A e \in Engines :
    /\ ~Paused(e) => ~pending_pause[e] /\ ~ignore_start_dp_wave[e] /\ ~idle_callback[e]
    /\ Paused(e) => pending_pause[e] \/ ignore_start_dp_wave[e]
    /\ pending_pause[e] => engines_running[e]

\* Message i from f to e is of a type; one of the type is on its way to e.
At(e, type, f, i) == i \in 1 .. Len(fe[f][e]) /\ fe[f][e][i].type = type

OnItsWay(e, type) ==
  \E f \in FrontEnds : \E i \in 1 .. Len(fe[f][e]) : At(e, type, f, i)

\* A pause reaches an engine that is not paused, a resume one that is.
CallInv ==
  \A e \in Engines :
    /\ pauser = "none" => ~Paused(e)
    /\ OnItsWay(e, "pause") => pauser = "pausing" /\ ~Paused(e)
    /\ OnItsWay(e, "resume") => pauser = "done" /\ Paused(e)

\* An engine is told once to pause and once to resume.
OnceInv ==
  \A e \in Engines, type \in {"pause", "resume"}, f, g \in FrontEnds :
    \A i \in 1 .. Len(fe[f][e]), j \in 1 .. Len(fe[g][e]) :
      At(e, type, f, i) /\ At(e, type, g, j) => f = g /\ i = j

\* While engines resume, the others are still paused, and all had answered.
ResumeInv ==
  \A e \in Engines :
    /\ pauser = "done" /\ Paused(e) =>
         /\ ~idle_callback[e]
         /\ \A d \in Engines : Paused(d) \/ pc[d] = "resume"
    /\ pc[e] = "resume" =>
         /\ pauser = "done" /\ ~Paused(e)
         /\ \A d \in Engines : Paused(d) \/ pc[d] = "resume"

\* The ranks' part of the inductive invariant.
IInv == /\ TypeOK
        /\ CountInv
        /\ EngineInv
        /\ CallInv
        /\ OnceInv
        /\ ResumeInv
        /\ PausedStaysIdle
-----------------------------------------------------------------------------
(* Sequences.                                                              *)

\* Sending adds a message behind the others.
LEMMA Appended ==
  ASSUME NEW S, NEW s \in Seq(S), NEW x \in S
  PROVE  /\ Append(s, x) \in Seq(S) /\ Append(s, x) # <<>>
         /\ Len(Append(s, x)) = Len(s) + 1
         /\ \A i \in 1 .. Len(s) : Append(s, x)[i] = s[i]
         /\ Append(s, x)[Len(Append(s, x))] = x
         /\ Items(Append(s, x)) = Items(s) \cup {x}
<1>1. /\ Append(s, x) \in Seq(S) /\ Append(s, x) # <<>>
      /\ Len(Append(s, x)) = Len(s) + 1 /\ Len(s) \in Nat
      /\ \A i \in 1 .. Len(s) : Append(s, x)[i] = s[i]
      /\ Append(s, x)[Len(s) + 1] = x
  OBVIOUS
<1>2. Items(Append(s, x)) \subseteq Items(s) \cup {x}
  BY <1>1 DEF Items
<1>3. Items(s) \subseteq Items(Append(s, x))
  BY <1>1 DEF Items
<1>4. x \in Items(Append(s, x))
  <2>1. Len(s) + 1 \in 1 .. Len(Append(s, x))
    BY <1>1
  <2> QED BY <1>1, <2>1 DEF Items
<1> QED BY <1>1, <1>2, <1>3, <1>4

\* Receiving takes the message in front.
LEMMA Taken ==
  ASSUME NEW S, NEW s \in Seq(S), s # <<>>
  PROVE  /\ Head(s) \in S /\ Head(s) = s[1]
         /\ Tail(s) \in Seq(S) /\ Len(Tail(s)) = Len(s) - 1
         /\ Len(s) \in Nat \ {0}
         /\ \A i \in 1 .. Len(Tail(s)) : Tail(s)[i] = s[i + 1]
         /\ Items(s) = {Head(s)} \cup Items(Tail(s))
<1>1. /\ Head(s) \in S /\ Head(s) = s[1]
      /\ Tail(s) \in Seq(S) /\ Len(Tail(s)) = Len(s) - 1
      /\ Len(s) \in Nat \ {0}
      /\ \A i \in 1 .. Len(Tail(s)) : Tail(s)[i] = s[i + 1]
  OBVIOUS
<1>2. Items(s) \subseteq {Head(s)} \cup Items(Tail(s))
  <2> SUFFICES ASSUME NEW i \in 1 .. Len(s), i # 1
               PROVE  s[i] \in Items(Tail(s))
    BY <1>1 DEF Items
  <2>1. i - 1 \in 1 .. Len(Tail(s))
    BY <1>1
  <2>2. Tail(s)[i - 1] = s[i]
    BY <1>1, <2>1
  <2> QED BY <2>1, <2>2 DEF Items
<1>3. {Head(s)} \cup Items(Tail(s)) \subseteq Items(s)
  BY <1>1 DEF Items
<1> QED BY <1>1, <1>2, <1>3

\* A message in a channel is one that was in it or has been sent.
LEMMA ItemsAppended ==
  ASSUME NEW S, NEW s \in Seq(S), NEW x \in S
  PROVE  Items(Append(s, x)) = Items(s) \cup {x}
  BY Appended

\* Receiving leaves the other messages of a channel.
LEMMA ItemsTaken ==
  ASSUME NEW S, NEW s \in Seq(S), s # <<>>, NEW t, t = Tail(s) \/ t = s, NEW y \in Items(t)
  PROVE  y \in Items(s)
  BY Taken

\* A message of a channel is one the channel may hold.
LEMMA ItemType == ASSUME NEW S, NEW s \in Seq(S), NEW y \in Items(s) PROVE y \in S
  BY DEF Items

\* The channel is empty after its only message has been taken.
LEMMA LastOne == ASSUME NEW S, NEW s \in Seq(S), Len(s) = 1 PROVE Tail(s) = <<>>
<1>1. Tail(s) \in Seq(S) /\ Len(Tail(s)) = 0
  OBVIOUS
<1>2. \A t \in Seq(S) : t # <<>> => Len(t) \in Nat \ {0}
  BY EmptySeq
<1> QED BY <1>1, <1>2

\* An empty channel has no messages.
LEMMA NoItems == Items(<<>>) = {}
  BY DEF Items
-----------------------------------------------------------------------------
(* Types.                                                                  *)

\* The initial state has the right shape.
LEMMA InitType == Init => TypeOK
<1> SUFFICES ASSUME Init PROVE TypeOK
  OBVIOUS
<1>1. EngineType
  BY DEF Init, EngineType
<1>2. ClientType
  BY WaveAssumption DEF Init, ClientType
<1>3. ChannelType
  BY DEF Init, ChannelType
<1> QED BY <1>1, <1>2, <1>3 DEF TypeOK

\* The steps of the front-ends and of the coordinator.
OutsideStep ==
  \/ \E f \in FrontEnds : \/ \E q \in Requests, e \in Engines : AddRequest(f, q, e)
                          \/ \E mode \in workload.pauses : PauseAll(f, mode)
                          \/ ResumeAll(f) \/ SendFirstReq(f) \/ UpdateStats(f)
                          \/ Republish(f) \/ OnFirstReq(f)
  \/ \E q \in Requests : AbortRequest(q)
  \/ \E e \in Engines : OnEngineOutput(e)

\* The next-state relation, action by action.
LEMMA NextCases ==
  ASSUME [Next]_vars
  PROVE  \/ OutsideStep
         \/ \E e \in Engines : \/ \E f \in FrontEnds : HandleFrontEnd(e, f)
                               \/ HandleStartWave(e)
                               \/ NotifyIdle(e) \/ BeginStep(e) \/ EndWave(e)
         \/ Forward \/ Sync \/ Resumed
         \/ UNCHANGED vars
  BY DEF Next, FrontEndStep, CoordinatorStep, Handle, EngineStep, Collective, OutsideStep

\* No process outside an engine changes the engine's variables.
LEMMA OutsideFrame == ASSUME OutsideStep PROVE UNCHANGED engineVars
  BY DEF OutsideStep, AddRequest, PauseAll, ResumeAll, SendFirstReq, UpdateStats, Republish,
         OnFirstReq, AbortRequest, OnEngineOutput

\* An engine's variables keep their types.
LEMMA EngineTypeStep == ASSUME TypeOK, [Next]_vars PROVE EngineType'
<1>0. EngineType /\ ClientType /\ ChannelType
  BY DEF TypeOK
<1>1. CASE UNCHANGED engineVars
  BY <1>0, <1>1 DEF EngineType, engineVars
<1>2. ASSUME NEW e \in Engines, NEW f \in FrontEnds, HandleFrontEnd(e, f)
      PROVE  EngineType'
  <2> DEFINE m == Head(fe[f][e])
  <2>1. m \in Message
    BY <1>0, <1>2, Taken DEF ChannelType, HandleFrontEnd
  <2> HIDE DEF m
  <2>2. \/ m.type = "add" /\ OnAdd(e, m)
        \/ m.type = "abort" /\ OnAbort(e, m)
        \/ m.type = "pause" /\ OnPause(e, m)
        \/ m.type = "resume" /\ OnResume(e)
    BY <1>2 DEF HandleFrontEnd, m
  <2>3. CASE m.type = "add" /\ OnAdd(e, m)
    <3>1. m.wave \in Nat
      BY <2>1, <2>3 DEF Message
    <3> QED BY <1>0, <2>3, <3>1 DEF OnAdd, EngineType
  <2>4. CASE OnAbort(e, m)
    BY <1>0, <2>4 DEF OnAbort, EngineType, engineVars
  <2>5. CASE OnPause(e, m)
    BY <1>0, <2>5 DEF OnPause, EngineType
  <2>6. CASE OnResume(e)
    BY <1>0, <2>6 DEF OnResume, EngineType
  <2> QED BY <2>2, <2>3, <2>4, <2>5, <2>6
<1>3. ASSUME NEW e \in Engines, HandleStartWave(e)
      PROVE  EngineType'
  <2>1. Head(ce[e]) \in Nat \X (Engines \cup {NoOne})
    BY <1>0, <1>3, Taken DEF ChannelType, HandleStartWave
  <2>2. Head(ce[e])[1] \in Nat
    BY <2>1
  <2> QED BY <1>0, <1>3, <2>2 DEF HandleStartWave, EngineType
<1>4. ASSUME NEW e \in Engines, NotifyIdle(e)
      PROVE  EngineType'
  BY <1>0, <1>4 DEF NotifyIdle, EngineType
<1>5. ASSUME NEW e \in Engines, BeginStep(e)
      PROVE  EngineType'
  BY <1>0, <1>5 DEF BeginStep, EngineType
<1>6. ASSUME NEW e \in Engines, EndWave(e)
      PROVE  EngineType'
  BY <1>0, <1>6 DEF EndWave, EngineType
<1>7. CASE Forward
  BY <1>0, <1>7, WaveAssumption DEF EngineType, Forward
<1>8. CASE Sync
  BY <1>0, <1>8 DEF EngineType, Sync
<1>9. CASE Resumed
  BY <1>0, <1>9 DEF EngineType, Resumed
<1>10. UNCHANGED vars => UNCHANGED engineVars
  BY DEF vars
<1> QED BY <1>1, <1>2, <1>3, <1>4, <1>5, <1>6, <1>7, <1>8, <1>9, <1>10, NextCases, OutsideFrame

\* The clients', front-ends' and coordinator's variables keep their types.
LEMMA ClientTypeStep == ASSUME TypeOK, [Next]_vars PROVE ClientType'
<1>0. EngineType /\ ClientType /\ ChannelType
  BY DEF TypeOK
<1> USE DEF route, coordVars, frontVars, clientVars
<1>1. ASSUME OutsideStep PROVE ClientType'
  <2>1. ASSUME NEW f \in FrontEnds, NEW q \in Requests, NEW e \in Engines, AddRequest(f, q, e)
        PROVE  ClientType'
    BY <1>0, <2>1 DEF AddRequest, ClientType
  <2>2. ASSUME NEW f \in FrontEnds, NEW mode \in workload.pauses, PauseAll(f, mode)
        PROVE  ClientType'
    BY <1>0, <2>2 DEF PauseAll, ClientType
  <2>3. ASSUME NEW f \in FrontEnds, ResumeAll(f) \/ SendFirstReq(f) \/ Republish(f)
        PROVE  ClientType'
    BY <1>0, <2>3 DEF ResumeAll, SendFirstReq, Republish, ClientType
  <2>4. ASSUME NEW f \in FrontEnds, UpdateStats(f) PROVE ClientType'
    <3>1. Head(cf[f]) \in Nat \X BOOLEAN
      BY <1>0, <2>4, Taken DEF ChannelType, UpdateStats
    <3>2. Head(cf[f])[1] \in Nat /\ Head(cf[f])[2] \in BOOLEAN
      BY <3>1
    <3> QED BY <1>0, <2>4, <3>2 DEF UpdateStats, ClientType
  <2>5. ASSUME NEW f \in FrontEnds, OnFirstReq(f) PROVE ClientType'
    BY <1>0, <2>5 DEF OnFirstReq, ClientType
  <2>6. ASSUME NEW q \in Requests, AbortRequest(q) PROVE ClientType'
    BY <1>0, <2>6 DEF AbortRequest, ClientType
  <2>7. ASSUME NEW e \in Engines, OnEngineOutput(e) PROVE ClientType'
    <3>1. Head(ec[e]) \in Report
      BY <1>0, <2>7, Taken DEF ChannelType, OnEngineOutput
    <3>2. Head(ec[e]).wave \in Nat
      BY <3>1 DEF Report
    <3>3. cwave' \in Nat
      BY <1>0, <2>7, <3>2 DEF OnEngineOutput, ClientType
    <3>4. crunning' \in BOOLEAN
      BY <1>0, <2>7 DEF OnEngineOutput, ClientType
    <3> QED BY <1>0, <2>7, <3>3, <3>4 DEF OnEngineOutput, ClientType
  <2> QED BY <1>1, <2>1, <2>2, <2>3, <2>4, <2>5, <2>6, <2>7 DEF OutsideStep
<1>2. ASSUME NEW e \in Engines, NEW f \in FrontEnds, HandleFrontEnd(e, f)
      PROVE  ClientType'
  <2> DEFINE m == Head(fe[f][e])
  <2>1. m \in Message
    BY <1>0, <1>2, Taken DEF ChannelType, HandleFrontEnd
  <2> HIDE DEF m
  <2>2. \/ m.type = "add" /\ OnAdd(e, m)
        \/ m.type = "abort" /\ OnAbort(e, m)
        \/ m.type = "pause" /\ OnPause(e, m)
        \/ m.type = "resume" /\ OnResume(e)
    BY <1>2 DEF HandleFrontEnd, m
  <2>3. status' \in [Requests -> {"new", "sent", "waiting", "running", "done", "aborted"}]
    BY <1>0, <2>2 DEF OnAdd, OnAbort, OnPause, OnResume, ClientType
  <2> QED BY <1>0, <1>2, <2>3 DEF HandleFrontEnd, ClientType
<1>3. ASSUME NEW e \in Engines, HandleStartWave(e) \/ NotifyIdle(e) \/ BeginStep(e) \/ EndWave(e)
      PROVE  ClientType'
  BY <1>0, <1>3 DEF HandleStartWave, NotifyIdle, BeginStep, EndWave, ClientType
<1>4. CASE Forward
  BY <1>0, <1>4 DEF Forward, ClientType
<1>5. CASE Sync \/ Resumed
  BY <1>0, <1>5 DEF Sync, Resumed, ClientType
<1>6. CASE UNCHANGED vars
  BY <1>0, <1>6 DEF vars, ClientType
<1> QED BY <1>1, <1>2, <1>3, <1>4, <1>5, <1>6, NextCases
\* The channels carry messages of their types.
LEMMA ChannelTypeStep == ASSUME TypeOK, [Next]_vars PROVE ChannelType'
<1>0. EngineType /\ ClientType /\ ChannelType
  BY DEF TypeOK
<1>1. ClientType'
  BY ClientTypeStep
<1>2. ASSUME NEW f \in FrontEnds, NEW q \in Requests, NEW e \in Engines, AddRequest(f, q, e)
      PROVE  ChannelType'
  <2>1. fwave[f] \in Nat
    BY <1>0 DEF ClientType
  <2>2. [type |-> "add", req |-> q, wave |-> fwave[f]] \in Message
    BY <2>1 DEF Message
  <2>3. fe' \in [FrontEnds -> [Engines -> Seq(Message)]]
    BY <1>0, <1>2, <2>2 DEF ChannelType, AddRequest
  <2>4. first_req' \in [FrontEnds -> Seq(Engines)]
    BY <1>0, <1>2 DEF ChannelType, AddRequest
  <2> QED BY <1>0, <1>2, <2>3, <2>4 DEF ChannelType, AddRequest
<1>3. ASSUME NEW f \in FrontEnds, NEW mode \in workload.pauses, PauseAll(f, mode)
      PROVE  ChannelType'
  <2>1. mode \in Modes
    BY <1>0, WaveAssumption DEF ClientType, Modes
  <2>2. [type |-> "pause", mode |-> mode] \in Message
    BY <2>1 DEF Message
  <2>3. fe' \in [FrontEnds -> [Engines -> Seq(Message)]]
    BY <1>0, <1>3, <2>2 DEF ChannelType, PauseAll
  <2> QED BY <1>0, <1>3, <2>3 DEF ChannelType, PauseAll, frontVars
<1>4. ASSUME NEW f \in FrontEnds, ResumeAll(f)
      PROVE  ChannelType'
  <2>1. [type |-> "resume"] \in Message
    BY DEF Message
  <2>2. fe' \in [FrontEnds -> [Engines -> Seq(Message)]]
    BY <1>0, <1>4, <2>1 DEF ChannelType, ResumeAll
  <2> QED BY <1>0, <1>4, <2>2 DEF ChannelType, ResumeAll, frontVars
<1>5. ASSUME NEW f \in FrontEnds, SendFirstReq(f)
      PROVE  ChannelType'
  <2>1. Head(first_req[f]) \in Engines /\ Tail(first_req[f]) \in Seq(Engines)
    BY <1>0, <1>5, Taken DEF ChannelType, SendFirstReq
  <2>2. <<Head(first_req[f]), fwave[f]>> \in Engines \X Nat
    BY <1>0, <2>1 DEF ClientType
  <2>3. fc' \in [FrontEnds -> Seq(Engines \X Nat)]
    BY <1>0, <1>5, <2>2, Appended DEF ChannelType, SendFirstReq
  <2>4. first_req' \in [FrontEnds -> Seq(Engines)]
    BY <1>0, <1>5, <2>1 DEF ChannelType, SendFirstReq
  <2> QED BY <1>0, <1>5, <2>3, <2>4 DEF ChannelType, SendFirstReq
<1>6. ASSUME NEW f \in FrontEnds, UpdateStats(f) PROVE ChannelType'
  <2>1. cf' \in [FrontEnds -> Seq(Nat \X BOOLEAN)]
    BY <1>0, <1>6, Taken DEF ChannelType, UpdateStats
  <2> QED BY <1>0, <1>6, <2>1 DEF ChannelType, UpdateStats
<1>7. ASSUME NEW f \in FrontEnds, Republish(f) PROVE ChannelType'
  <2>1. <<cwave, crunning>> \in Nat \X BOOLEAN
    BY <1>0 DEF ClientType
  <2>2. <<<<cwave, crunning>>>> \in Seq(Nat \X BOOLEAN)
    BY <2>1
  <2>3. cf' \in [FrontEnds -> Seq(Nat \X BOOLEAN)]
    BY <1>0, <1>7, <2>2 DEF ChannelType, Republish
  <2> QED BY <1>0, <1>7, <2>3 DEF ChannelType, Republish, frontVars
<1>8. PublishState => cf' \in [FrontEnds -> Seq(Nat \X BOOLEAN)]
  <2>1. <<cwave', crunning'>> \in Nat \X BOOLEAN
    BY <1>1 DEF ClientType
  <2> QED BY <1>0, <2>1, Appended DEF ChannelType, PublishState
<1>9. ASSUME NEW wave \in Nat, NEW x \in Engines \cup {NoOne}, SendStartWave(wave, x)
      PROVE  ce' \in [Engines -> Seq(Nat \X (Engines \cup {NoOne}))]
  <2>1. <<wave, x>> \in Nat \X (Engines \cup {NoOne})
    OBVIOUS
  <2> QED BY <1>0, <1>9, <2>1, Appended DEF ChannelType, SendStartWave
<1>10. ASSUME NEW f \in FrontEnds, OnFirstReq(f) PROVE ChannelType'
  <2>1. Head(fc[f]) \in Engines \X Nat /\ Tail(fc[f]) \in Seq(Engines \X Nat)
    BY <1>0, <1>10, Taken DEF ChannelType, OnFirstReq
  <2>2. Head(fc[f])[1] \in Engines
    BY <2>1
  <2>3. fc' \in [FrontEnds -> Seq(Engines \X Nat)]
    BY <1>0, <1>10, <2>1 DEF ChannelType, OnFirstReq
  <2>4. CASE UNCHANGED <<cf, ce>>
    BY <1>0, <1>10, <2>3, <2>4 DEF ChannelType, OnFirstReq, frontVars
  <2>5. CASE PublishState /\ \E x \in Engines \cup {NoOne} : SendStartWave(cwave, x)
    <3>1. cwave \in Nat
      BY <1>0 DEF ClientType
    <3>2. ce' \in [Engines -> Seq(Nat \X (Engines \cup {NoOne}))]
      BY <1>9, <2>5, <3>1
    <3> QED BY <1>0, <1>8, <1>10, <2>3, <2>5, <3>2 DEF ChannelType, OnFirstReq, frontVars
  <2> QED BY <1>10, <2>2, <2>4, <2>5 DEF OnFirstReq
<1>11. ASSUME NEW q \in Requests, AbortRequest(q) PROVE ChannelType'
  <2>1. [type |-> "abort", req |-> q] \in Message
    BY DEF Message
  <2>2. CASE origin[q] \in FrontEnds
    <3>1. fe[origin[q]][engine[q]] \in Seq(Message) /\ engine[q] \in Engines
      BY <1>0, <2>2 DEF ChannelType, ClientType
    <3>2. Append(fe[origin[q]][engine[q]], [type |-> "abort", req |-> q]) \in Seq(Message)
      BY <2>1, <3>1, Appended
    <3>3. fe' \in [FrontEnds -> [Engines -> Seq(Message)]]
      BY <1>0, <1>11, <2>2, <3>1, <3>2 DEF ChannelType, AbortRequest
    <3> QED BY <1>0, <1>11, <3>3 DEF ChannelType, AbortRequest, frontVars
  <2>3. CASE origin[q] \notin FrontEnds
    <3>1. fe' = fe
      BY <1>0, <1>11, <2>3 DEF ChannelType, AbortRequest
    <3> QED BY <1>0, <1>11, <3>1 DEF ChannelType, AbortRequest, frontVars
  <2> QED BY <2>2, <2>3
<1>12. ASSUME NEW e \in Engines, OnEngineOutput(e) PROVE ChannelType'
  <2>1. Head(ec[e]) \in Report /\ Tail(ec[e]) \in Seq(Report)
    BY <1>0, <1>12, Taken DEF ChannelType, OnEngineOutput
  <2>2. Head(ec[e]).wave \in Nat
    BY <2>1 DEF Report
  <2>3. ec' \in [Engines -> Seq(Report)]
    BY <1>0, <1>12, <2>1 DEF ChannelType, OnEngineOutput
  <2>4. cf' = cf \/ PublishState
    BY <1>12 DEF OnEngineOutput
  <2>5. ce' = ce \/ SendStartWave(Head(ec[e]).wave, e)
    BY <1>12 DEF OnEngineOutput
  <2>6. cf' \in [FrontEnds -> Seq(Nat \X BOOLEAN)]
    BY <1>0, <1>8, <2>4 DEF ChannelType
  <2>7. ce' \in [Engines -> Seq(Nat \X (Engines \cup {NoOne}))]
    BY <1>0, <1>9, <2>2, <2>5 DEF ChannelType
  <2> QED BY <1>0, <1>12, <2>3, <2>6, <2>7 DEF ChannelType, OnEngineOutput, frontVars
<1>13. ASSUME NEW e \in Engines, NEW f \in FrontEnds, HandleFrontEnd(e, f)
       PROVE  ChannelType'
  <2>1. Tail(fe[f][e]) \in Seq(Message)
    BY <1>0, <1>13, Taken DEF ChannelType, HandleFrontEnd
  <2>2. fe' \in [FrontEnds -> [Engines -> Seq(Message)]]
    BY <1>0, <1>13, <2>1 DEF ChannelType, HandleFrontEnd
  <2>3. [type |-> "start_wave", wave |-> current_wave[e]] \in Report
    BY <1>0 DEF EngineType, Report
  <2>4. \/ ec' = ec
        \/ ec' = [ec EXCEPT ![e] = Append(@, [type |-> "start_wave", wave |-> current_wave[e]])]
    <3> DEFINE m == Head(fe[f][e])
    <3>1. OnAdd(e, m) \/ OnAbort(e, m) \/ OnPause(e, m) \/ OnResume(e)
      BY <1>13 DEF HandleFrontEnd
    <3> HIDE DEF m
    <3>2. CASE OnAdd(e, m)
      BY <3>2 DEF OnAdd
    <3>3. CASE OnAbort(e, m) \/ OnPause(e, m) \/ OnResume(e)
      BY <3>3 DEF OnAbort, OnPause, OnResume
    <3> QED BY <3>1, <3>2, <3>3
  <2>5. Append(ec[e], [type |-> "start_wave", wave |-> current_wave[e]]) \in Seq(Report)
    BY <1>0, <2>3, Appended DEF ChannelType
  <2>6. ec' \in [Engines -> Seq(Report)]
    BY <1>0, <2>4, <2>5 DEF ChannelType
  <2> QED BY <1>0, <1>13, <2>2, <2>6 DEF ChannelType, HandleFrontEnd, frontVars
<1>14. ASSUME NEW e \in Engines, HandleStartWave(e) PROVE ChannelType'
  <2>1. ce' \in [Engines -> Seq(Nat \X (Engines \cup {NoOne}))]
    BY <1>0, <1>14, Taken DEF ChannelType, HandleStartWave
  <2> QED BY <1>0, <1>14, <2>1 DEF ChannelType, HandleStartWave, frontVars
<1>15. ASSUME NEW e \in Engines, EndWave(e) PROVE ChannelType'
  <2>1. [type |-> "wave_complete", wave |-> current_wave[e]] \in Report
    BY <1>0 DEF EngineType, Report
  <2>2. ec' \in [Engines -> Seq(Report)]
    BY <1>0, <1>15, <2>1, Appended DEF ChannelType, EndWave
  <2> QED BY <1>0, <1>15, <2>2 DEF ChannelType, EndWave, frontVars
<1>16. ASSUME UNCHANGED <<channels, frontVars>> PROVE ChannelType'
  BY <1>0, <1>16 DEF ChannelType, channels, frontVars
<1>17. ASSUME NEW e \in Engines, NotifyIdle(e) \/ BeginStep(e) PROVE ChannelType'
  BY <1>16, <1>17 DEF NotifyIdle, BeginStep
<1>18. ASSUME Forward \/ Sync \/ Resumed \/ UNCHANGED vars PROVE ChannelType'
  BY <1>16, <1>18 DEF Forward, Sync, Resumed, vars
<1> QED BY <1>2, <1>3, <1>4, <1>5, <1>6, <1>7, <1>10, <1>11, <1>12, <1>13, <1>14, <1>15,
           <1>17, <1>18, NextCases DEF OutsideStep

\* Every step keeps the shape of the state.
LEMMA TypeStep == ASSUME TypeOK, [Next]_vars PROVE TypeOK'
  BY EngineTypeStep, ClientTypeStep, ChannelTypeStep DEF TypeOK
-----------------------------------------------------------------------------
(* The collectives and the pause.                                          *)

\* What handling a message of a front-end does, one handler at a time.
LEMMA HandleCases ==
  ASSUME TypeOK, NEW e \in Engines, NEW f \in FrontEnds, HandleFrontEnd(e, f)
  PROVE  LET m == Head(fe[f][e])
         IN /\ m \in Message /\ m \in Items(fe[f][e]) /\ At(e, m.type, f, 1)
            /\ \/ m.type = "add" /\ OnAdd(e, m)
               \/ m.type = "abort" /\ OnAbort(e, m)
               \/ m.type = "pause" /\ OnPause(e, m)
               \/ m.type = "resume" /\ OnResume(e)
<1>1. fe[f][e] \in Seq(Message) /\ fe[f][e] # <<>>
  BY DEF TypeOK, ChannelType, HandleFrontEnd
<1>2. /\ Head(fe[f][e]) \in Message /\ Head(fe[f][e]) \in Items(fe[f][e])
      /\ Head(fe[f][e]) = fe[f][e][1] /\ Len(fe[f][e]) \in Nat \ {0}
  BY <1>1, Taken
<1>3. At(e, Head(fe[f][e]).type, f, 1)
  BY <1>2 DEF At
<1> QED BY <1>2, <1>3 DEF HandleFrontEnd

\* The ranks count their steps together and enter the all-reduce together.
LEMMA CountStep == ASSUME TypeOK, CountInv, [Next]_vars PROVE CountInv'
<1>0. EngineType
  BY DEF TypeOK
<1>1. CASE UNCHANGED <<pc, step_counter>>
  BY <1>1 DEF CountInv
<1>2. ASSUME NEW e \in Engines, NEW f \in FrontEnds, HandleFrontEnd(e, f)
      PROVE  CountInv'
  <2>1. \/ UNCHANGED <<pc, step_counter>>
        \/ /\ pc[e] = "input" /\ pc' = [pc EXCEPT ![e] = "resume"]
           /\ UNCHANGED step_counter
    BY <1>2, HandleCases DEF OnAdd, OnAbort, OnPause, OnResume, HandleFrontEnd, engineVars
  <2> QED BY <1>0, <1>1, <2>1 DEF CountInv, EngineType
<1>3. ASSUME NEW e \in Engines, HandleStartWave(e) \/ NotifyIdle(e)
      PROVE  CountInv'
  BY <1>1, <1>3 DEF HandleStartWave, NotifyIdle
<1>4. ASSUME NEW e \in Engines, BeginStep(e) PROVE CountInv'
  BY <1>0, <1>4 DEF BeginStep, CountInv, EngineType
<1>5. ASSUME NEW e \in Engines, EndWave(e) PROVE CountInv'
  BY <1>0, <1>5 DEF EndWave, CountInv, EngineType
<1>6. CASE Forward
  BY <1>0, <1>6 DEF Forward, CountInv, EngineType
<1>7. CASE Sync
  BY <1>0, <1>7 DEF Sync, CountInv, EngineType
<1>8. CASE Resumed
  BY <1>0, <1>8 DEF Resumed, CountInv, EngineType
<1>9. OutsideStep \/ UNCHANGED vars => UNCHANGED <<pc, step_counter>>
  BY OutsideFrame DEF vars, engineVars
<1> QED BY <1>1, <1>2, <1>3, <1>4, <1>5, <1>6, <1>7, <1>8, <1>9, NextCases

\* The message taken of a type that comes once was the only one; the others are
\* where they were, or one place further in front.
LEMMA Delivered ==
  ASSUME TypeOK, NEW e \in Engines, NEW f \in FrontEnds, HandleFrontEnd(e, f),
         NEW d \in Engines, NEW g \in FrontEnds, NEW type, NEW i, At(d, type, g, i)'
  PROVE  /\ i \in Nat \ {0}
         /\ At(d, type, g, IF d = e /\ g = f THEN i + 1 ELSE i)
<1>1. fe[g][d] \in Seq(Message) /\ fe[f][e] \in Seq(Message) /\ fe[f][e] # <<>>
  BY DEF TypeOK, ChannelType, HandleFrontEnd
<1>2. fe'[g][d] = IF d = e /\ g = f THEN Tail(fe[g][d]) ELSE fe[g][d]
  BY DEF TypeOK, ChannelType, HandleFrontEnd
<1>3. i \in 1 .. Len(fe'[g][d]) /\ fe'[g][d][i].type = type
  BY DEF At
<1>4. CASE d = e /\ g = f
  BY <1>1, <1>2, <1>3, <1>4, Taken DEF At
<1>5. CASE ~(d = e /\ g = f)
  BY <1>1, <1>2, <1>3, <1>5 DEF At
<1> QED BY <1>4, <1>5
\* The pause and resume messages of the next state are those of this one.
MessagesKept ==
  \A d \in Engines, g \in FrontEnds, type \in {"pause", "resume"} :
    \A i \in 1 .. Len(fe'[g][d]) : At(d, type, g, i)' => At(d, type, g, i)

\* A message that is sent comes last.
LEMMA Sent ==
  ASSUME NEW s \in Seq(Message), NEW m \in Message, NEW type,
         NEW i \in 1 .. Len(Append(s, m)), Append(s, m)[i].type = type
  PROVE  \/ i \in 1 .. Len(s) /\ s[i].type = type
         \/ i = Len(s) + 1 /\ m.type = type
<1>1. /\ Len(Append(s, m)) = Len(s) + 1 /\ Len(s) \in Nat
      /\ \A j \in 1 .. Len(s) : Append(s, m)[j] = s[j]
      /\ Append(s, m)[Len(s) + 1] = m
  BY Appended
<1>2. CASE i \in 1 .. Len(s)
  BY <1>1, <1>2
<1>3. CASE i = Len(s) + 1
  BY <1>1, <1>3
<1> QED BY <1>1, <1>2, <1>3

\* Only the client of pause and resume sends these messages, and only an engine
\* takes them.
LEMMA KeptStep ==
  ASSUME TypeOK, [Next]_vars
  PROVE  \/ MessagesKept /\ UNCHANGED <<pauser, pause_state>>
         \/ \E f \in FrontEnds, mode \in workload.pauses : PauseAll(f, mode)
         \/ \E f \in FrontEnds : ResumeAll(f)
         \/ \E e \in Engines, f \in FrontEnds : HandleFrontEnd(e, f)
<1>0. fe \in [FrontEnds -> [Engines -> Seq(Message)]]
  BY DEF TypeOK, ChannelType
<1>1. ASSUME UNCHANGED <<fe, pauser, pause_state>> PROVE MessagesKept /\ UNCHANGED <<pauser, pause_state>>
  BY <1>1 DEF MessagesKept, At
<1>2. ASSUME NEW f \in FrontEnds, NEW e \in Engines, NEW m \in Message,
             m.type \notin {"pause", "resume"},
             fe' = [fe EXCEPT ![f][e] = Append(@, m)]
      PROVE  MessagesKept
  <2> SUFFICES ASSUME NEW d \in Engines, NEW g \in FrontEnds, NEW type \in {"pause", "resume"},
                      NEW i \in 1 .. Len(fe'[g][d]), fe'[g][d][i].type = type
               PROVE  i \in 1 .. Len(fe[g][d]) /\ fe[g][d][i].type = type
    BY DEF MessagesKept, At
  <2>1. CASE d = e /\ g = f
    <3>1. fe'[g][d] = Append(fe[g][d], m) /\ fe[g][d] \in Seq(Message)
      BY <1>0, <1>2, <2>1
    <3> QED BY <1>2, <3>1, Sent
  <2>2. CASE ~(d = e /\ g = f)
    <3>1. fe'[g][d] = fe[g][d]
      BY <1>0, <1>2, <2>2
    <3> QED BY <3>1
  <2> QED BY <2>1, <2>2
<1>3. ASSUME NEW f \in FrontEnds, NEW q \in Requests, NEW e \in Engines, AddRequest(f, q, e)
      PROVE  MessagesKept /\ UNCHANGED <<pauser, pause_state>>
  <2>1. [type |-> "add", req |-> q, wave |-> fwave[f]] \in Message
    BY DEF TypeOK, ClientType, Message
  <2>2. MessagesKept
    BY <1>2, <1>3, <2>1 DEF AddRequest
  <2> QED BY <1>3, <2>2 DEF AddRequest, clientVars, engineVars
<1>4. ASSUME NEW q \in Requests, AbortRequest(q)
      PROVE  MessagesKept /\ UNCHANGED <<pauser, pause_state>>
  <2>1. [type |-> "abort", req |-> q] \in Message
    BY DEF Message
  <2>2. engine[q] \in Engines
    BY DEF TypeOK, ClientType
  <2>3. CASE origin[q] \in FrontEnds
    <3>1. MessagesKept
      BY <1>2, <1>4, <2>1, <2>2, <2>3 DEF AbortRequest
    <3> QED BY <1>4, <3>1 DEF AbortRequest, clientVars, engineVars
  <2>4. CASE origin[q] \notin FrontEnds
    <3>1. fe' = fe
      BY <1>0, <1>4, <2>4 DEF AbortRequest
    <3> QED BY <1>1, <1>4, <3>1 DEF AbortRequest, clientVars, engineVars
  <2> QED BY <2>3, <2>4
<1>5. ASSUME NEW f \in FrontEnds,
             SendFirstReq(f) \/ UpdateStats(f) \/ Republish(f) \/ OnFirstReq(f)
      PROVE  UNCHANGED <<fe, pauser, pause_state>>
  BY <1>5 DEF SendFirstReq, UpdateStats, Republish, OnFirstReq, clientVars, engineVars
<1>6. ASSUME NEW e \in Engines, OnEngineOutput(e) PROVE UNCHANGED <<fe, pauser, pause_state>>
  BY <1>6 DEF OnEngineOutput, clientVars, engineVars
<1>7. ASSUME NEW e \in Engines, HandleStartWave(e) \/ NotifyIdle(e) \/ BeginStep(e) \/ EndWave(e)
      PROVE  UNCHANGED <<fe, pauser, pause_state>>
  BY <1>7 DEF HandleStartWave, NotifyIdle, BeginStep, EndWave, channels, clientVars, engineVars
<1>8. Forward \/ Sync \/ Resumed \/ UNCHANGED vars => UNCHANGED <<fe, pauser, pause_state>>
  BY DEF Forward, Sync, Resumed, vars, channels, clientVars, engineVars
<1> QED BY <1>1, <1>3, <1>4, <1>5, <1>6, <1>7, <1>8, NextCases DEF OutsideStep

\* What PauseAll and ResumeAll put on the channels.
LEMMA SentToAll ==
  ASSUME TypeOK, NEW f \in FrontEnds, NEW m \in Message,
         fe' = [fe EXCEPT ![f] = [e \in Engines |-> Append(@[e], m)]],
         NEW d \in Engines, NEW g \in FrontEnds, NEW type, NEW i, At(d, type, g, i)'
  PROVE  At(d, type, g, i) \/ (type = m.type /\ g = f /\ i = Len(fe[f][d]) + 1)
<1>1. fe[g][d] \in Seq(Message)
  BY DEF TypeOK, ChannelType
<1>2. fe'[g][d] = IF g = f THEN Append(fe[g][d], m) ELSE fe[g][d]
  BY DEF TypeOK, ChannelType
<1>3. i \in 1 .. Len(fe'[g][d]) /\ fe'[g][d][i].type = type
  BY DEF At
<1>4. CASE g = f
  <2>1. fe'[g][d] = Append(fe[g][d], m)
    BY <1>2, <1>4
  <2>2. \/ i \in 1 .. Len(fe[g][d]) /\ fe[g][d][i].type = type
        \/ type = m.type /\ i = Len(fe[g][d]) + 1
    BY <1>1, <1>3, <2>1, Sent
  <2> QED BY <1>4, <2>2 DEF At
<1>5. CASE g # f
  BY <1>2, <1>3, <1>5 DEF At
<1> QED BY <1>4, <1>5

\* At every step an engine's pause variables are those of its pause state.
LEMMA EngineStepInv ==
  ASSUME TypeOK, EngineInv, CallInv, ResumeInv, [Next]_vars PROVE EngineInv'
<1>0. EngineType
  BY DEF TypeOK
<1>1. CASE UNCHANGED engineVars
  BY <1>1 DEF EngineInv, Paused, engineVars
<1>2. ASSUME NEW e \in Engines, NEW f \in FrontEnds, HandleFrontEnd(e, f)
      PROVE  EngineInv'
  <2> DEFINE m == Head(fe[f][e])
  <2>1. /\ At(e, m.type, f, 1)
        /\ \/ m.type = "add" /\ OnAdd(e, m)
           \/ m.type = "abort" /\ OnAbort(e, m)
           \/ m.type = "pause" /\ OnPause(e, m)
           \/ m.type = "resume" /\ OnResume(e)
    BY <1>2, HandleCases
  <2> HIDE DEF m
  <2>2. CASE OnAdd(e, m)
    BY <1>0, <2>2 DEF OnAdd, EngineInv, Paused, EngineType
  <2>3. CASE OnAbort(e, m)
    BY <1>1, <2>3 DEF OnAbort
  <2>4. CASE m.type = "pause" /\ OnPause(e, m)
    <3>1. ~Paused(e)
      BY <2>1, <2>4 DEF CallInv, OnItsWay, At
    <3> QED BY <1>0, <2>4, <3>1 DEF OnPause, EngineInv, Paused, EngineType
  <2>5. CASE m.type = "resume" /\ OnResume(e)
    <3>1. pauser = "done" /\ Paused(e)
      BY <2>1, <2>5 DEF CallInv, OnItsWay, At
    <3>2. ~idle_callback[e]
      BY <3>1 DEF ResumeInv
    <3> QED BY <1>0, <2>5, <3>1, <3>2 DEF OnResume, EngineInv, Paused, EngineType
  <2> QED BY <2>1, <2>2, <2>3, <2>4, <2>5
<1>3. ASSUME NEW e \in Engines, HandleStartWave(e) PROVE EngineInv'
  BY <1>0, <1>3 DEF HandleStartWave, EngineInv, Paused, EngineType
<1>4. ASSUME NEW e \in Engines, NotifyIdle(e) PROVE EngineInv'
  BY <1>0, <1>4 DEF NotifyIdle, EngineInv, Paused, EngineType
<1>5. ASSUME NEW e \in Engines, BeginStep(e) \/ EndWave(e) PROVE EngineInv'
  BY <1>0, <1>5 DEF BeginStep, EndWave, EngineInv, Paused, EngineType
<1>6. CASE Forward
  BY <1>0, <1>6 DEF Forward, EngineInv, Paused, EngineType
<1>7. CASE Sync
  <2> DEFINE pausing == {e \in Engines : pending_pause[e]}
             unfinished == \/ \E e \in Engines : HasUnfinished(e)
                           \/ pausing \notin {{}, Engines}
  <2>1. /\ engines_running' = [e \in Engines |-> unfinished]
        /\ UNCHANGED <<pause_state, idle_callback>>
    BY <1>7 DEF Sync
  <2>2. CASE /\ pausing = Engines
             /\ ignore_start_dp_wave' = [e \in Engines |-> TRUE]
             /\ pending_pause' = [e \in Engines |-> FALSE]
    BY <1>0, <2>1, <2>2 DEF EngineInv, Paused, EngineType
  <2>3. CASE pausing # Engines /\ UNCHANGED <<ignore_start_dp_wave, pending_pause>>
    <3>1. ASSUME NEW e \in Engines, pending_pause[e] PROVE unfinished
      BY <2>3, <3>1
    <3> HIDE DEF unfinished, pausing
    <3> QED BY <1>0, <2>1, <2>3, <3>1 DEF EngineInv, Paused, EngineType
  <2> QED BY <1>7, <2>2, <2>3 DEF Sync
<1>8. CASE Resumed
  <2>1. \A e \in Engines : ~Paused(e)
    BY <1>8 DEF Resumed, ResumeInv
  <2> QED BY <1>0, <1>8, <2>1 DEF Resumed, EngineInv, Paused, EngineType
<1>9. OutsideStep \/ UNCHANGED vars => UNCHANGED engineVars
  BY OutsideFrame DEF vars
<1> QED BY <1>1, <1>2, <1>3, <1>4, <1>5, <1>6, <1>7, <1>8, <1>9, NextCases

\* An engine is told once to pause and once to resume.
LEMMA OnceStep == ASSUME TypeOK, CallInv, OnceInv, [Next]_vars PROVE OnceInv'
<1> SUFFICES ASSUME NEW d \in Engines, NEW type \in {"pause", "resume"},
                    NEW g \in FrontEnds, NEW h \in FrontEnds,
                    NEW i \in 1 .. Len(fe'[g][d]), NEW j \in 1 .. Len(fe'[h][d]),
                    At(d, type, g, i)', At(d, type, h, j)'
             PROVE  g = h /\ i = j
  BY DEF OnceInv
<1>1. ASSUME NEW a, NEW b, At(d, type, g, a), At(d, type, h, b)
      PROVE  g = h /\ a = b
  BY <1>1 DEF OnceInv, At
<1>2. CASE MessagesKept
  BY <1>1, <1>2 DEF MessagesKept
<1>3. ASSUME NEW f \in FrontEnds, NEW m \in Message, m.type \in {"pause", "resume"},
             fe' = [fe EXCEPT ![f] = [e \in Engines |-> Append(@[e], m)]],
             ~OnItsWay(d, m.type)
      PROVE  g = h /\ i = j
  <2>1. At(d, type, g, i) \/ (type = m.type /\ g = f /\ i = Len(fe[f][d]) + 1)
    BY <1>3, SentToAll
  <2>2. At(d, type, h, j) \/ (type = m.type /\ h = f /\ j = Len(fe[f][d]) + 1)
    BY <1>3, SentToAll
  <2>3. type = m.type => ~At(d, type, g, i) /\ ~At(d, type, h, j)
    BY <1>3 DEF OnItsWay, At
  <2> QED BY <1>1, <2>1, <2>2, <2>3
<1>4. ASSUME NEW f \in FrontEnds, NEW mode \in workload.pauses, PauseAll(f, mode)
      PROVE  g = h /\ i = j
  <2>1. mode \in Modes
    BY WaveAssumption DEF TypeOK, ClientType, Modes
  <2>2. [type |-> "pause", mode |-> mode] \in Message
    BY <2>1 DEF Message
  <2>3. ~OnItsWay(d, "pause")
    BY <1>4 DEF PauseAll, CallInv
  <2> QED BY <1>3, <1>4, <2>2, <2>3 DEF PauseAll
<1>5. ASSUME NEW f \in FrontEnds, ResumeAll(f)
      PROVE  g = h /\ i = j
  <2>1. [type |-> "resume"] \in Message
    BY DEF Message
  <2>2. ~OnItsWay(d, "resume")
    BY <1>5 DEF ResumeAll, CallInv
  <2> QED BY <1>3, <1>5, <2>1, <2>2 DEF ResumeAll
<1>6. ASSUME NEW e \in Engines, NEW f \in FrontEnds, HandleFrontEnd(e, f)
      PROVE  g = h /\ i = j
  <2> DEFINE k(x, n) == IF d = e /\ x = f THEN n + 1 ELSE n
  <2>1. At(d, type, g, k(g, i)) /\ i \in Nat
    BY <1>6, Delivered
  <2>2. At(d, type, h, k(h, j)) /\ j \in Nat
    BY <1>6, Delivered
  <2>3. g = h /\ k(g, i) = k(h, j)
    <3> HIDE DEF k
    <3> QED BY <1>1, <2>1, <2>2
  <2> QED BY <2>1, <2>2, <2>3
<1> QED BY <1>2, <1>4, <1>5, <1>6, KeptStep
\* An engine takes a resume only when it is paused and idle: it raises for none.
LEMMA ResumeHandled ==
  ASSUME TypeOK, EngineInv, CallInv, ResumeInv, PausedStaysIdle,
         NEW e \in Engines, NEW f \in FrontEnds, HandleFrontEnd(e, f),
         Head(fe[f][e]).type = "resume"
  PROVE  /\ pauser = "done" /\ Paused(e) /\ ~idle_callback[e] /\ pc[e] = "input"
         /\ pause_state' = [pause_state EXCEPT ![e] = "unpaused"]
         /\ pc' = [pc EXCEPT ![e] = "resume"]
         /\ UNCHANGED <<idle_callback, engines_running, pending_pause, status>>
<1>1. OnResume(e) /\ At(e, "resume", f, 1)
  BY HandleCases
<1>2. pauser = "done" /\ Paused(e)
  BY <1>1 DEF CallInv, OnItsWay, At
<1>3. ~idle_callback[e]
  BY <1>2 DEF ResumeInv
<1>4. pc[e] = "input" /\ ~engines_running[e]
  BY <1>2, <1>3 DEF PausedStaysIdle, HasWork, Paused
<1>5. ~pending_pause[e]
  BY <1>4 DEF EngineInv
<1> QED BY <1>1, <1>2, <1>3, <1>4, <1>5 DEF OnResume

\* A pause reaches an engine that is not paused, a resume one that is.
LEMMA CallStep ==
  ASSUME TypeOK, EngineInv, CallInv, OnceInv, ResumeInv, PausedStaysIdle, [Next]_vars
  PROVE  CallInv'
<1>0. EngineType
  BY DEF TypeOK
<1> SUFFICES ASSUME NEW d \in Engines
             PROVE  /\ pauser' = "none" => ~Paused(d)'
                    /\ OnItsWay(d, "pause")' => pauser' = "pausing" /\ ~Paused(d)'
                    /\ OnItsWay(d, "resume")' => pauser' = "done" /\ Paused(d)'
  BY DEF CallInv
<1>1. CASE MessagesKept /\ UNCHANGED <<pauser, pause_state>>
  <2>1. ASSUME NEW type \in {"pause", "resume"}, OnItsWay(d, type)' PROVE OnItsWay(d, type)
    BY <1>1, <2>1 DEF MessagesKept, OnItsWay, At
  <2>2. Paused(d)' <=> Paused(d)
    BY <1>1 DEF Paused
  <2> QED BY <1>1, <2>1, <2>2 DEF CallInv
<1>2. ASSUME NEW f \in FrontEnds, NEW m \in Message,
             fe' = [fe EXCEPT ![f] = [e \in Engines |-> Append(@[e], m)]],
             NEW type, type # m.type, OnItsWay(d, type)'
      PROVE  OnItsWay(d, type)
  <2>1. PICK g \in FrontEnds, i \in Nat : At(d, type, g, i)'
    BY <1>2 DEF OnItsWay
  <2>2. At(d, type, g, i)
    BY <1>2, <2>1, SentToAll
  <2> QED BY <2>2 DEF OnItsWay, At
<1>3. ASSUME NEW f \in FrontEnds, NEW mode \in workload.pauses, PauseAll(f, mode)
      PROVE  /\ pauser' = "pausing" /\ ~Paused(d)' /\ ~OnItsWay(d, "resume")'
  <2>1. mode \in Modes
    BY WaveAssumption DEF TypeOK, ClientType, Modes
  <2>2. [type |-> "pause", mode |-> mode] \in Message
    BY <2>1 DEF Message
  <2>3. OnItsWay(d, "resume")' => OnItsWay(d, "resume")
    BY <1>2, <1>3, <2>2 DEF PauseAll
  <2> QED BY <1>3, <2>3 DEF PauseAll, CallInv, Paused, engineVars
<1>4. ASSUME NEW f \in FrontEnds, ResumeAll(f)
      PROVE  /\ pauser' = "done" /\ Paused(d)' /\ ~OnItsWay(d, "pause")'
  <2>1. [type |-> "resume"] \in Message
    BY DEF Message
  <2>2. OnItsWay(d, "pause")' => OnItsWay(d, "pause")
    BY <1>2, <1>4, <2>1 DEF ResumeAll
  <2> QED BY <1>4, <2>2 DEF ResumeAll, CallInv, Paused, engineVars
<1>5. ASSUME NEW e \in Engines, NEW f \in FrontEnds, HandleFrontEnd(e, f)
      PROVE  /\ pauser' = "none" => ~Paused(d)'
             /\ OnItsWay(d, "pause")' => pauser' = "pausing" /\ ~Paused(d)'
             /\ OnItsWay(d, "resume")' => pauser' = "done" /\ Paused(d)'
  <2> DEFINE m == Head(fe[f][e])
  <2>1. /\ m \in Message
        /\ At(e, m.type, f, 1)
        /\ \/ m.type = "add" /\ OnAdd(e, m)
           \/ m.type = "abort" /\ OnAbort(e, m)
           \/ m.type = "pause" /\ OnPause(e, m)
           \/ m.type = "resume" /\ OnResume(e)
    BY <1>5, HandleCases
  <2>2. pauser' = pauser
    BY <1>5 DEF HandleFrontEnd, clientVars
  <2>3. ASSUME NEW type \in {"pause", "resume"}, OnItsWay(d, type)'
        PROVE  OnItsWay(d, type) /\ ~(d = e /\ type = m.type)
    <3>1. PICK g \in FrontEnds, i \in Nat : At(d, type, g, i)'
      BY <2>3 DEF OnItsWay
    <3>2. /\ i \in Nat \ {0}
          /\ At(d, type, g, IF d = e /\ g = f THEN i + 1 ELSE i)
      BY <1>5, <3>1, Delivered
    <3>3. OnItsWay(d, type)
      BY <3>2 DEF OnItsWay, At
    <3>4. CASE d = e /\ type = m.type
      <4> DEFINE k == IF d = e /\ g = f THEN i + 1 ELSE i
      <4>1. ASSUME NEW a, NEW b, At(d, type, g, a), At(d, type, f, b) PROVE g = f /\ a = b
        BY <4>1 DEF OnceInv, At
      <4>2. At(d, type, g, k) /\ At(d, type, f, 1)
        BY <2>1, <3>2, <3>4
      <4>3. g = f /\ k = 1
        <5> HIDE DEF k
        <5> QED BY <4>1, <4>2
      <4> QED BY <3>2, <3>4, <4>3
    <3> QED BY <3>3, <3>4
  <2>4. CASE m.type = "pause"
    <3>1. OnPause(e, m) /\ OnItsWay(e, "pause")
      BY <2>1, <2>4 DEF OnItsWay, At
    <3>2. pauser = "pausing" /\ (d # e => (Paused(d)' <=> Paused(d)))
      BY <1>0, <3>1 DEF OnPause, CallInv, Paused, EngineType
    <3>3. d = e => Paused(d)'
      BY <1>0, <3>1 DEF OnPause, Paused, EngineType
    <3> HIDE DEF m
    <3> QED BY <2>2, <2>3, <2>4, <3>2, <3>3 DEF CallInv
  <2>5. CASE m.type = "resume"
    <3>1. pauser = "done" /\ pause_state' = [pause_state EXCEPT ![e] = "unpaused"]
      BY <1>5, <2>5, ResumeHandled
    <3>2. /\ d = e => ~Paused(d)'
          /\ d # e => (Paused(d)' <=> Paused(d))
      BY <1>0, <3>1 DEF Paused, EngineType
    <3> HIDE DEF m
    <3> QED BY <2>2, <2>3, <2>5, <3>1, <3>2 DEF CallInv
  <2>6. CASE m.type \notin {"pause", "resume"}
    <3>1. Paused(d)' <=> Paused(d)
      BY <2>1, <2>6 DEF OnAdd, OnAbort, Paused, engineVars
    <3> HIDE DEF m
    <3> QED BY <2>2, <2>3, <3>1 DEF CallInv
  <2> QED BY <2>4, <2>5, <2>6
<1> QED BY <1>1, <1>3, <1>4, <1>5, KeptStep
\* While engines resume, the others are still paused, and all had answered.
LEMMA ResumeStep ==
  ASSUME TypeOK, EngineInv, CallInv, ResumeInv, PausedStaysIdle, [Next]_vars
  PROVE  ResumeInv'
<1>0. EngineType
  BY DEF TypeOK
<1>1. CASE UNCHANGED <<pauser, pause_state, idle_callback, pc>>
  BY <1>1 DEF ResumeInv, Paused
<1>2. ASSUME NEW f \in FrontEnds, NEW mode \in workload.pauses, PauseAll(f, mode)
      PROVE  ResumeInv'
  BY <1>2 DEF PauseAll, ResumeInv, Paused, engineVars
<1>3. ASSUME NEW f \in FrontEnds, ResumeAll(f) PROVE ResumeInv'
  BY <1>3 DEF ResumeAll, ResumeInv, Paused, engineVars
<1>4. ASSUME OutsideStep PROVE ResumeInv'
  <2>1. ASSUME NEW f \in FrontEnds, NEW q \in Requests, NEW e \in Engines, AddRequest(f, q, e)
        PROVE  UNCHANGED pauser
    BY <2>1 DEF AddRequest, clientVars
  <2>2. ASSUME NEW f \in FrontEnds,
               SendFirstReq(f) \/ UpdateStats(f) \/ Republish(f) \/ OnFirstReq(f)
        PROVE  UNCHANGED pauser
    BY <2>2 DEF SendFirstReq, UpdateStats, Republish, OnFirstReq, clientVars
  <2>3. ASSUME NEW q \in Requests, AbortRequest(q) PROVE UNCHANGED pauser
    BY <2>3 DEF AbortRequest, clientVars
  <2>4. ASSUME NEW e \in Engines, OnEngineOutput(e) PROVE UNCHANGED pauser
    BY <2>4 DEF OnEngineOutput, clientVars
  <2>5. UNCHANGED <<pause_state, idle_callback, pc>>
    BY <1>4, OutsideFrame DEF engineVars
  <2> QED BY <1>1, <1>2, <1>3, <1>4, <2>1, <2>2, <2>3, <2>4, <2>5 DEF OutsideStep
<1>5. ASSUME NEW e \in Engines, NEW f \in FrontEnds, HandleFrontEnd(e, f)
      PROVE  ResumeInv'
  <2> DEFINE m == Head(fe[f][e])
  <2>1. /\ At(e, m.type, f, 1)
        /\ \/ m.type = "add" /\ OnAdd(e, m)
           \/ m.type = "abort" /\ OnAbort(e, m)
           \/ m.type = "pause" /\ OnPause(e, m)
           \/ m.type = "resume" /\ OnResume(e)
    BY <1>5, HandleCases
  <2>2. pauser' = pauser
    BY <1>5 DEF HandleFrontEnd, clientVars
  <2>3. CASE m.type = "pause"
    <3>1. OnItsWay(e, "pause") /\ OnPause(e, m)
      BY <2>1, <2>3 DEF OnItsWay, At
    <3>2. pauser = "pausing" /\ pc' = pc
      BY <3>1 DEF CallInv, OnPause
    <3> QED BY <2>2, <3>2 DEF ResumeInv
  <2>4. CASE m.type = "resume"
    <3>1. /\ pauser = "done" /\ Paused(e) /\ ~idle_callback[e]
          /\ pause_state' = [pause_state EXCEPT ![e] = "unpaused"]
          /\ pc' = [pc EXCEPT ![e] = "resume"]
          /\ idle_callback' = idle_callback
      BY <1>5, <2>4, ResumeHandled
    <3>2. \A d \in Engines : Paused(d) \/ pc[d] = "resume"
      BY <3>1 DEF ResumeInv
    <3>3. \A d \in Engines : Paused(d)' \/ pc'[d] = "resume"
      BY <1>0, <3>1, <3>2 DEF Paused, EngineType
    <3> QED BY <1>0, <2>2, <3>1, <3>3 DEF ResumeInv, Paused, EngineType
  <2>5. CASE m.type \in {"add", "abort"}
    <3>1. UNCHANGED <<pause_state, idle_callback, pc>>
      BY <2>1, <2>5 DEF OnAdd, OnAbort, engineVars
    <3> QED BY <1>1, <2>2, <3>1
  <2> QED BY <2>1, <2>3, <2>4, <2>5
<1>6. ASSUME NEW e \in Engines, HandleStartWave(e) PROVE ResumeInv'
  BY <1>1, <1>6 DEF HandleStartWave, clientVars
<1>7. ASSUME NEW e \in Engines, NotifyIdle(e) PROVE ResumeInv'
  BY <1>0, <1>7 DEF NotifyIdle, ResumeInv, Paused, EngineType, clientVars
<1>8. ASSUME NEW e \in Engines, BeginStep(e) PROVE ResumeInv'
  BY <1>0, <1>8 DEF BeginStep, ResumeInv, Paused, EngineType, clientVars
<1>9. ASSUME NEW e \in Engines, EndWave(e) PROVE ResumeInv'
  BY <1>0, <1>9 DEF EndWave, ResumeInv, Paused, EngineType, clientVars
<1>10. CASE Forward
  BY <1>0, <1>10 DEF Forward, ResumeInv, Paused, EngineType, clientVars
<1>11. CASE Sync
  BY <1>0, <1>11 DEF Sync, ResumeInv, Paused, EngineType, clientVars
<1>12. CASE Resumed
  BY <1>0, <1>12 DEF Resumed, ResumeInv, Paused, EngineType, clientVars
<1>13. CASE UNCHANGED vars
  BY <1>1, <1>13 DEF vars, engineVars, clientVars
<1> QED BY <1>4, <1>5, <1>6, <1>7, <1>8, <1>9, <1>10, <1>11, <1>12, <1>13, NextCases

\* A paused engine without work gets none from a request that arrives.
LEMMA StillIdle ==
  ASSUME TypeOK, NEW e \in Engines, Paused(e), ~HasWork(e),
         pause_state'[e] = pause_state[e], engines_running'[e] => engines_running[e],
         \A q \in Requests : engine'[q] = e /\ status'[q] = "running" =>
                               engine[q] = e /\ status[q] = "running"
  PROVE  ~HasWork(e)'
<1>1. pause_state[e] \in {"paused_new", "paused_all"}
  BY DEF Paused, TypeOK, EngineType
<1>2. CASE pause_state[e] = "paused_all"
  BY <1>2 DEF HasWork, HasUnfinished, Schedulable
<1>3. CASE pause_state[e] = "paused_new"
  <2>1. Schedulable(e) = Local(e, {"running"}) /\ Schedulable(e)' = Local(e, {"running"})'
    BY <1>3 DEF Schedulable
  <2>2. Local(e, {"running"})' \subseteq Local(e, {"running"})
    BY DEF Local
  <2> QED BY <2>1, <2>2 DEF HasWork, HasUnfinished
<1> QED BY <1>1, <1>2, <1>3

\* Once an engine has answered a pause it stays idle until it is resumed.
LEMMA IdleStep ==
  ASSUME TypeOK, EngineInv, CallInv, ResumeInv, PausedStaysIdle, [Next]_vars
  PROVE  PausedStaysIdle'
<1>0. EngineType /\ ClientType
  BY DEF TypeOK
<1> SUFFICES ASSUME NEW e \in Engines, Paused(e)', ~idle_callback'[e]
             PROVE  pc'[e] = "input" /\ ~HasWork(e)'
  BY DEF PausedStaysIdle, Paused
<1> DEFINE Same == \A q \in Requests : engine'[q] = e /\ status'[q] = "running" =>
                                         engine[q] = e /\ status[q] = "running"
<1>1. ASSUME Paused(e), ~idle_callback[e]
      PROVE  pc[e] = "input" /\ ~HasWork(e) /\ ~engines_running[e] /\ ignore_start_dp_wave[e]
  BY <1>1 DEF PausedStaysIdle, Paused, HasWork, EngineInv
<1>2. ASSUME Paused(e), ~idle_callback[e], pause_state'[e] = pause_state[e],
             pc'[e] = pc[e], ~engines_running'[e], Same
      PROVE  pc'[e] = "input" /\ ~HasWork(e)'
  BY <1>1, <1>2, StillIdle
<1>3. ASSUME OutsideStep PROVE Same /\ UNCHANGED engineVars
  <2>1. ASSUME NEW f \in FrontEnds, NEW q \in Requests, NEW d \in Engines, AddRequest(f, q, d)
        PROVE  Same
    BY <1>0, <2>1 DEF AddRequest, ClientType
  <2>2. ASSUME NEW f \in FrontEnds, NEW mode \in workload.pauses, PauseAll(f, mode)
        PROVE  Same
    BY <2>2 DEF PauseAll, route
  <2>3. ASSUME NEW f \in FrontEnds, \/ ResumeAll(f) \/ SendFirstReq(f) \/ UpdateStats(f)
                                   \/ Republish(f) \/ OnFirstReq(f)
        PROVE  Same
    BY <2>3 DEF ResumeAll, SendFirstReq, UpdateStats, Republish, OnFirstReq, route
  <2>4. ASSUME NEW q \in Requests, AbortRequest(q) PROVE Same
    BY <2>4 DEF AbortRequest, route
  <2>5. ASSUME NEW d \in Engines, OnEngineOutput(d) PROVE Same
    BY <2>5 DEF OnEngineOutput, route
  <2> QED BY <1>3, <2>1, <2>2, <2>3, <2>4, <2>5, OutsideFrame DEF OutsideStep
<1>4. CASE Same /\ UNCHANGED engineVars
  BY <1>1, <1>2, <1>4 DEF engineVars, Paused
<1>5. ASSUME NEW d \in Engines, NEW f \in FrontEnds, HandleFrontEnd(d, f)
      PROVE  pc'[e] = "input" /\ ~HasWork(e)'
  <2> DEFINE m == Head(fe[f][d])
  <2>1. /\ m \in Message
        /\ \/ m.type = "add" /\ OnAdd(d, m)
           \/ m.type = "abort" /\ OnAbort(d, m)
           \/ m.type = "pause" /\ OnPause(d, m)
           \/ m.type = "resume" /\ OnResume(d)
    BY <1>5, HandleCases
  <2>2. engine' = engine
    BY <1>5 DEF HandleFrontEnd, route
  <2>3. CASE m.type = "resume"
    <3>1. /\ pause_state' = [pause_state EXCEPT ![d] = "unpaused"]
          /\ pc' = [pc EXCEPT ![d] = "resume"]
          /\ UNCHANGED <<idle_callback, engines_running, status>>
      BY <1>5, <2>3, ResumeHandled
    <3>2. e # d
      BY <1>0, <3>1 DEF Paused, EngineType
    <3>3. Paused(e) /\ ~idle_callback[e] /\ pause_state'[e] = pause_state[e] /\ pc'[e] = pc[e]
      BY <1>0, <3>1, <3>2 DEF Paused, EngineType
    <3>4. ~engines_running'[e]
      BY <1>1, <3>1, <3>3
    <3> QED BY <1>2, <2>2, <3>1, <3>3, <3>4
  <2> HIDE DEF m
  <2>4. CASE m.type = "pause" /\ OnPause(d, m)
    <3>1. e # d
      BY <1>0, <2>4 DEF OnPause, EngineType
    <3>2. Paused(e) /\ ~idle_callback[e] /\ pause_state'[e] = pause_state[e] /\ pc'[e] = pc[e]
      BY <1>0, <2>4, <3>1 DEF OnPause, Paused, EngineType
    <3>3. ~engines_running'[e]
      BY <1>0, <1>1, <2>4, <3>1, <3>2 DEF OnPause, EngineType
    <3>4. Same
      BY <1>0, <2>2, <2>4 DEF OnPause, ClientType
    <3> QED BY <1>2, <3>2, <3>3, <3>4
  <2>5. CASE m.type = "add" /\ OnAdd(d, m)
    <3>1. Paused(e) /\ ~idle_callback[e] /\ pause_state'[e] = pause_state[e] /\ pc'[e] = pc[e]
      BY <2>5 DEF OnAdd, Paused
    <3>2. ~engines_running'[e]
      BY <1>0, <1>1, <2>5, <3>1 DEF OnAdd, Paused, EngineType
    <3>3. Same
      BY <1>0, <2>2, <2>5 DEF OnAdd, ClientType
    <3> QED BY <1>2, <3>1, <3>2, <3>3
  <2>6. CASE m.type = "abort" /\ OnAbort(d, m)
    <3>1. Same
      BY <1>0, <2>2, <2>6 DEF OnAbort, ClientType
    <3> QED BY <1>4, <2>6, <3>1 DEF OnAbort
  <2> QED BY <2>1, <2>3, <2>4, <2>5, <2>6
<1>6. ASSUME NEW d \in Engines, HandleStartWave(d)
      PROVE  pc'[e] = "input" /\ ~HasWork(e)'
  <2>1. Paused(e) /\ ~idle_callback[e] /\ pause_state'[e] = pause_state[e] /\ pc'[e] = pc[e]
    BY <1>6 DEF HandleStartWave, Paused
  <2>2. ~engines_running'[e]
    BY <1>0, <1>1, <1>6, <2>1 DEF HandleStartWave, EngineType
  <2>3. Same
    BY <1>6 DEF HandleStartWave, route
  <2> QED BY <1>2, <2>1, <2>2, <2>3
<1>7. ASSUME NEW d \in Engines, NotifyIdle(d)
      PROVE  pc'[e] = "input" /\ ~HasWork(e)'
  <2>1. /\ Paused(e) /\ pause_state'[e] = pause_state[e] /\ pc'[e] = pc[e]
        /\ engines_running' = engines_running
    BY <1>7 DEF NotifyIdle, Paused
  <2>2. pc[e] = "input" /\ ~HasWork(e)
    BY <1>0, <1>1, <1>7, <2>1 DEF NotifyIdle, EngineType
  <2>3. Same
    BY <1>7 DEF NotifyIdle, route
  <2> QED BY <2>1, <2>2, <2>3, StillIdle
<1>8. ASSUME NEW d \in Engines, BeginStep(d) \/ EndWave(d)
      PROVE  pc'[e] = "input" /\ ~HasWork(e)'
  <2>1. Paused(e) /\ ~idle_callback[e] /\ pause_state'[e] = pause_state[e]
    BY <1>8 DEF BeginStep, EndWave, Paused
  <2>2. pc'[e] = pc[e] /\ ~engines_running'[e]
    BY <1>0, <1>1, <1>8, <2>1 DEF BeginStep, EndWave, EngineType
  <2>3. Same
    BY <1>8 DEF BeginStep, EndWave, route
  <2> QED BY <1>2, <2>1, <2>2, <2>3
<1>9. CASE Forward \/ Sync \/ Resumed
  <2>1. Paused(e) /\ ~idle_callback[e] /\ pc[e] # "input"
    BY <1>9 DEF Forward, Sync, Resumed, Paused
  <2> QED BY <1>1, <2>1
<1>10. UNCHANGED vars => Same /\ UNCHANGED engineVars
  BY DEF vars, route
<1> QED BY <1>3, <1>4, <1>5, <1>6, <1>7, <1>8, <1>9, <1>10, NextCases
-----------------------------------------------------------------------------
(* Theorems.                                                               *)

\* The initial state satisfies the invariant.
LEMMA InitInv == Init => IInv
<1> SUFFICES ASSUME Init PROVE IInv
  OBVIOUS
<1>1. TypeOK
  BY InitType
<1>2. CountInv /\ EngineInv /\ PausedStaysIdle /\ ResumeInv
  BY DEF Init, CountInv, EngineInv, PausedStaysIdle, ResumeInv, Paused
<1>3. \A f \in FrontEnds, e \in Engines : fe[f][e] = <<>>
  BY DEF Init
<1>4. CallInv
  <2>1. \A e \in Engines, type \in {"pause", "resume"} : ~OnItsWay(e, type)
    BY <1>3 DEF OnItsWay
  <2> QED BY <2>1 DEF Init, CallInv, Paused
<1>5. OnceInv
  BY <1>3 DEF OnceInv
<1> QED BY <1>1, <1>2, <1>4, <1>5 DEF IInv

\* Every step keeps the invariant.
LEMMA InvStep == IInv /\ [Next]_vars => IInv'
<1> SUFFICES ASSUME IInv, [Next]_vars PROVE IInv'
  OBVIOUS
<1>1. /\ TypeOK /\ CountInv /\ EngineInv /\ CallInv /\ OnceInv /\ ResumeInv /\ PausedStaysIdle
  BY DEF IInv
<1>2. TypeOK' /\ CountInv' /\ EngineInv' /\ CallInv' /\ OnceInv'
  BY <1>1, TypeStep, CountStep, EngineStepInv, CallStep, OnceStep
<1>3. ResumeInv' /\ PausedStaysIdle'
  BY <1>1, ResumeStep, IdleStep
<1> QED BY <1>2, <1>3 DEF IInv

\* The invariant holds in every reachable state, for any number of ranks, of
\* front-ends and of passes between two all-reduces, and any workloads.
THEOREM Invariance == Spec => []IInv
  BY InitInv, InvStep, PTL DEF Spec

\* The ranks enter the same collective operations in the same order.
THEOREM RanksStayTogether == Spec => []SameCollective
<1>1. IInv => SameCollective
  <2> SUFFICES ASSUME IInv, NEW d \in Engines, NEW e \in Engines
               PROVE  /\ pc[d] = "forward" => pc[e] \notin {"sync", "resume"}
                      /\ pc[d] = "sync" => pc[e] = "sync"
                      /\ step_counter[d] = step_counter[e]
    BY DEF SameCollective
  <2>1. CountInv /\ ResumeInv /\ PausedStaysIdle
    BY DEF IInv
  <2>2. ASSUME pc[d] = "forward", pc[e] = "resume" PROVE FALSE
    <3>1. pauser = "done" /\ Paused(d)
      BY <2>1, <2>2 DEF ResumeInv
    <3>2. ~idle_callback[d]
      BY <2>1, <3>1 DEF ResumeInv
    <3> QED BY <2>1, <2>2, <3>1, <3>2 DEF PausedStaysIdle, Paused
  <2> QED BY <2>1, <2>2 DEF CountInv
<1> QED BY <1>1, Invariance, PTL

\* An engine that has answered a pause stays idle until it is resumed.
THEOREM PausedEnginesStayIdle == Spec => []PausedStaysIdle
<1>1. IInv => PausedStaysIdle
  BY DEF IInv
<1> QED BY <1>1, Invariance, PTL
=============================================================================
