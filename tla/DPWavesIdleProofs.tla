------------------------- MODULE DPWavesIdleProofs -------------------------
(***************************************************************************)
(* Proof that the coordinator and the front-ends know when the engines     *)
(* idle.  Every wave number kept or under way is at most the ranks' wave   *)
(* (WaveInv); a coordinator that is behind has the wave_complete of rank 0 *)
(* to come (EndInv); a front-end ends up with what the coordinator last    *)
(* sent (FrontInv); and a coordinator that says the current wave runs has  *)
(* an engine running it, or one it is about to start (RunningInv).  When   *)
(* all channels are empty these leave no way to be wrong about idleness.   *)
(***************************************************************************)
EXTENDS DPWavesProofs

\* The wave an engine is in, or has just ended.
Wave(e) == IF pc[e] = "wave" THEN current_wave[e] + 1 ELSE current_wave[e]

\* The ranks are in the same wave, and no record or message is ahead of them.
RankInv == \A e \in Engines : Wave(e) = Wave(Rank0)

RecordInv == cwave =< Wave(Rank0) /\ \A f \in FrontEnds : fwave[f] =< Wave(Rank0)

AddInv == \A f \in FrontEnds, e \in Engines : \A m \in Items(fe[f][e]) :
            m.type = "add" => m.wave =< Wave(Rank0)

FirstReqInv == \A f \in FrontEnds : \A m \in Items(fc[f]) : m[2] =< Wave(Rank0)

UpdateInv == \A f \in FrontEnds : \A m \in Items(cf[f]) : m[1] =< Wave(Rank0)

StartInv == \A e \in Engines : \A m \in Items(ce[e]) : m[1] =< Wave(Rank0)

ReportInv == \A e \in Engines : \A m \in Items(ec[e]) :
               /\ m.wave =< Wave(Rank0)
               /\ m.type = "wave_complete" => m.wave < Wave(Rank0)

WaveInv == /\ RankInv /\ RecordInv
           /\ AddInv /\ FirstReqInv /\ UpdateInv /\ StartInv /\ ReportInv

\* What a front-end will know when it has read its updates.
FrontInv ==
  \A f \in FrontEnds :
    /\ cf[f] # <<>> => cf[f][Len(cf[f])] = <<cwave, crunning>>
    /\ cf[f] = <<>> => /\ fwave[f] = cwave
                       /\ crunning => frunning[f]
                       /\ frunning[f] => crunning \/ fc[f] # <<>>

\* The coordinator will hear of the end of the wave.
EndInv ==
  cwave < Wave(Rank0) =>
    \/ pc[Rank0] = "wave"
    \/ [type |-> "wave_complete", wave |-> Wave(Rank0) - 1] \in Items(ec[Rank0])

\* An engine that takes part in the wave, or is about to be told of it.
Active(e) ==
  \/ engines_running[e]
  \/ pc[e] \in {"forward", "sync"}
  \/ \E m \in Items(ce[e]) : m[1] = Wave(Rank0) /\ m[2] # e

\* While the coordinator has the current wave running, an engine takes part.
RunningInv ==
  workload.pauses = {} =>
    /\ pauser = "none"
    /\ crunning /\ cwave = Wave(Rank0) => \E e \in Engines : Active(e)

\* The inductive invariant, with the ranks' part.
WInv == IInv /\ WaveInv /\ FrontInv /\ EndInv /\ RunningInv
-----------------------------------------------------------------------------
(* The waves.                                                              *)

\* Which steps write which variable outside the engines.
LEMMA Writers ==
  ASSUME [Next]_vars
  PROVE  /\ \/ UNCHANGED fe
            \/ \E f \in FrontEnds : \/ \E q \in Requests, e \in Engines : AddRequest(f, q, e)
                                    \/ \E mode \in workload.pauses : PauseAll(f, mode)
                                    \/ ResumeAll(f)
                                    \/ \E e \in Engines : HandleFrontEnd(e, f)
            \/ \E q \in Requests : AbortRequest(q)
         /\ UNCHANGED fc \/ \E f \in FrontEnds : SendFirstReq(f) \/ OnFirstReq(f)
         /\ \/ UNCHANGED cf
            \/ \E f \in FrontEnds : UpdateStats(f) \/ Republish(f) \/ OnFirstReq(f)
            \/ \E e \in Engines : OnEngineOutput(e)
         /\ \/ UNCHANGED ce
            \/ \E f \in FrontEnds : OnFirstReq(f)
            \/ \E e \in Engines : OnEngineOutput(e) \/ HandleStartWave(e)
         /\ \/ UNCHANGED ec
            \/ \E e \in Engines : \/ OnEngineOutput(e) \/ EndWave(e)
                                  \/ \E f \in FrontEnds : HandleFrontEnd(e, f)
         /\ \/ UNCHANGED coordVars
            \/ \E f \in FrontEnds : OnFirstReq(f)
            \/ \E e \in Engines : OnEngineOutput(e)
         /\ \/ UNCHANGED <<fwave, frunning>>
            \/ \E f \in FrontEnds : UpdateStats(f) \/ SendFirstReq(f)
         /\ UNCHANGED workload
         /\ \/ UNCHANGED pauser
            \/ \E f \in FrontEnds : \/ \E mode \in workload.pauses : PauseAll(f, mode)
                                    \/ ResumeAll(f)
<1> USE DEF channels, coordVars, frontVars, clientVars
<1>1. ASSUME NEW f \in FrontEnds, NEW q \in Requests, NEW e \in Engines, AddRequest(f, q, e)
      PROVE  UNCHANGED <<fc, cf, ce, ec, coordVars, fwave, frunning, clientVars>>
  BY <1>1 DEF AddRequest
<1>2. ASSUME NEW f \in FrontEnds, NEW mode \in workload.pauses, PauseAll(f, mode)
      PROVE  UNCHANGED <<fc, cf, ce, ec, coordVars, fwave, frunning, workload>>
  BY <1>2 DEF PauseAll
<1>3. ASSUME NEW f \in FrontEnds, ResumeAll(f)
      PROVE  UNCHANGED <<fc, cf, ce, ec, coordVars, fwave, frunning, workload>>
  BY <1>3 DEF ResumeAll
<1>4. ASSUME NEW q \in Requests, AbortRequest(q)
      PROVE  UNCHANGED <<fc, cf, ce, ec, coordVars, fwave, frunning, clientVars>>
  BY <1>4 DEF AbortRequest
<1>5. ASSUME NEW f \in FrontEnds, SendFirstReq(f)
      PROVE  UNCHANGED <<fe, cf, ce, ec, coordVars, clientVars>>
  BY <1>5 DEF SendFirstReq
<1>6. ASSUME NEW f \in FrontEnds, UpdateStats(f)
      PROVE  UNCHANGED <<fe, fc, ce, ec, coordVars, clientVars>>
  BY <1>6 DEF UpdateStats
<1>7. ASSUME NEW f \in FrontEnds, Republish(f)
      PROVE  UNCHANGED <<fe, fc, ce, ec, coordVars, fwave, frunning, clientVars>>
  BY <1>7 DEF Republish
<1>8. ASSUME NEW f \in FrontEnds, OnFirstReq(f)
      PROVE  UNCHANGED <<fe, ec, fwave, frunning, clientVars>>
  BY <1>8 DEF OnFirstReq
<1>9. ASSUME NEW e \in Engines, OnEngineOutput(e)
      PROVE  UNCHANGED <<fe, fc, fwave, frunning, clientVars>>
  BY <1>9 DEF OnEngineOutput
<1>10. ASSUME NEW e \in Engines, NEW f \in FrontEnds, HandleFrontEnd(e, f)
       PROVE  UNCHANGED <<fc, cf, ce, coordVars, fwave, frunning, clientVars>>
  BY <1>10 DEF HandleFrontEnd
<1>11. ASSUME NEW e \in Engines, HandleStartWave(e)
       PROVE  UNCHANGED <<fe, fc, cf, ec, coordVars, fwave, frunning, clientVars>>
  BY <1>11 DEF HandleStartWave
<1>12. ASSUME NEW e \in Engines, EndWave(e)
       PROVE  UNCHANGED <<fe, fc, cf, ce, coordVars, fwave, frunning, clientVars>>
  BY <1>12 DEF EndWave
<1>13. ASSUME NEW e \in Engines, NotifyIdle(e) \/ BeginStep(e)
       PROVE  UNCHANGED <<channels, coordVars, fwave, frunning, clientVars>>
  BY <1>13 DEF NotifyIdle, BeginStep
<1>14. Forward \/ Sync \/ Resumed \/ UNCHANGED vars
         => UNCHANGED <<channels, coordVars, fwave, frunning, clientVars>>
  BY DEF Forward, Sync, Resumed, vars
<1> QED BY <1>1, <1>2, <1>3, <1>4, <1>5, <1>6, <1>7, <1>8, <1>9, <1>10, <1>11, <1>12, <1>13,
           <1>14, NextCases DEF OutsideStep

\* The ranks leave a wave together, in the all-reduce; neither a request nor a
\* START_DP_WAVE takes a rank to another wave.
LEMMA WaveStep ==
  ASSUME TypeOK, WaveInv, [Next]_vars
  PROVE  \/ \A d \in Engines : Wave(d)' = Wave(d)
         \/ /\ \A d \in Engines : Wave(d)' = Wave(d) + 1 /\ pc'[d] = "wave"
            /\ UNCHANGED coordVars
<1>0. EngineType /\ ChannelType /\ Rank0 \in Engines
  BY WaveAssumption DEF TypeOK
<1>1. CASE UNCHANGED <<pc, current_wave>>
  BY <1>1 DEF Wave
<1>2. ASSUME NEW e \in Engines, NEW f \in FrontEnds, HandleFrontEnd(e, f)
      PROVE  \A d \in Engines : Wave(d)' = Wave(d)
  <2> DEFINE m == Head(fe[f][e])
  <2>1. /\ m \in Message /\ m \in Items(fe[f][e])
        /\ \/ m.type = "add" /\ OnAdd(e, m)
           \/ m.type = "abort" /\ OnAbort(e, m)
           \/ m.type = "pause" /\ OnPause(e, m)
           \/ m.type = "resume" /\ OnResume(e)
    BY <1>2, HandleCases
  <2>2. pc[e] = "input"
    BY <1>2 DEF HandleFrontEnd
  <2> HIDE DEF m
  <2>3. CASE m.type = "add" /\ OnAdd(e, m)
    <3>1. m.wave \in Nat /\ m.wave =< current_wave[e]
      BY <2>1, <2>2, <2>3 DEF WaveInv, AddInv, RankInv, Wave, Message
    <3>2. current_wave' = current_wave /\ pc' = pc
      BY <1>0, <2>3, <3>1 DEF OnAdd, EngineType
    <3> QED BY <3>2 DEF Wave
  <2>4. CASE OnAbort(e, m) \/ OnPause(e, m)
    BY <2>4 DEF OnAbort, OnPause, Wave, engineVars
  <2>5. CASE OnResume(e)
    BY <1>0, <2>2, <2>5 DEF OnResume, Wave, EngineType
  <2> QED BY <2>1, <2>3, <2>4, <2>5
<1>3. ASSUME NEW e \in Engines, HandleStartWave(e)
      PROVE  UNCHANGED <<pc, current_wave>>
  <2>1. /\ Head(ce[e]) \in Items(ce[e])
        /\ Head(ce[e]) \in Nat \X (Engines \cup {NoOne})
    BY <1>0, <1>3, Taken DEF HandleStartWave, ChannelType
  <2>2. Head(ce[e])[1] \in Nat /\ Head(ce[e])[1] =< Wave(e)
    BY <2>1 DEF WaveInv, StartInv, RankInv
  <2>3. Wave(e) = current_wave[e] /\ pc' = pc
    BY <1>3 DEF HandleStartWave, Wave
  <2> QED BY <1>0, <1>3, <2>2, <2>3 DEF HandleStartWave, EngineType
<1>4. ASSUME NEW e \in Engines, NotifyIdle(e) PROVE UNCHANGED <<pc, current_wave>>
  BY <1>4 DEF NotifyIdle
<1>5. ASSUME NEW e \in Engines, BeginStep(e) PROVE \A d \in Engines : Wave(d)' = Wave(d)
  BY <1>0, <1>5 DEF BeginStep, Wave, EngineType
<1>6. ASSUME NEW e \in Engines, EndWave(e) PROVE \A d \in Engines : Wave(d)' = Wave(d)
  BY <1>0, <1>6 DEF EndWave, Wave, EngineType
<1>7. CASE Forward
  BY <1>0, <1>7 DEF Forward, Wave, EngineType
<1>8. CASE Sync
  <2> DEFINE unfinished == \/ \E e \in Engines : HasUnfinished(e)
                           \/ {e \in Engines : pending_pause[e]} \notin {{}, Engines}
  <2>1. /\ pc' = [e \in Engines |-> IF unfinished THEN "input" ELSE "wave"]
        /\ current_wave' = current_wave /\ UNCHANGED coordVars
        /\ \A e \in Engines : pc[e] = "sync"
    BY <1>8 DEF Sync
  <2> HIDE DEF unfinished
  <2> QED BY <1>0, <2>1 DEF Wave, EngineType
<1>9. CASE Resumed
  BY <1>0, <1>9 DEF Resumed, Wave, EngineType
<1>10. OutsideStep \/ UNCHANGED vars => UNCHANGED <<pc, current_wave>>
  BY OutsideFrame DEF vars, engineVars
<1> QED BY <1>1, <1>2, <1>3, <1>4, <1>5, <1>6, <1>7, <1>8, <1>9, <1>10, NextCases
\* The common wave never falls.
LEMMA WaveUp ==
  ASSUME TypeOK, WaveInv, [Next]_vars
  PROVE  /\ Wave(Rank0) \in Nat /\ Wave(Rank0)' \in Nat /\ Wave(Rank0) =< Wave(Rank0)'
         /\ RankInv'
<1>1. Rank0 \in Engines /\ EngineType /\ EngineType'
  BY TypeStep, WaveAssumption DEF TypeOK
<1>2. Wave(Rank0) \in Nat /\ Wave(Rank0)' \in Nat
  BY <1>1 DEF Wave, EngineType
<1>3. Wave(Rank0) =< Wave(Rank0)'
  BY <1>1, <1>2, WaveStep
<1>4. RankInv'
  BY <1>1, WaveStep DEF RankInv, WaveInv
<1> QED BY <1>2, <1>3, <1>4

\* What the coordinator and the front-ends know is not ahead of the ranks.
LEMMA RecordStep == ASSUME TypeOK, WaveInv, [Next]_vars PROVE RecordInv'
<1>0. ClientType /\ ChannelType /\ ClientType' /\ ChannelType'
  BY TypeStep DEF TypeOK
<1> DEFINE W == Wave(Rank0)
<1>1. W \in Nat /\ W' \in Nat /\ W =< W'
  BY WaveUp
<1> HIDE DEF W
<1>2. cwave' =< W'
  <2>1. cwave \in Nat /\ cwave =< W
    BY <1>0 DEF WaveInv, RecordInv, ClientType, W
  <2>2. ASSUME NEW e \in Engines, OnEngineOutput(e) PROVE cwave' =< W'
    <3>1. Head(ec[e]) \in Items(ec[e]) /\ Head(ec[e]) \in Report
      BY <1>0, <2>2, Taken DEF OnEngineOutput, ChannelType
    <3>2. /\ Head(ec[e]).wave \in Nat /\ Head(ec[e]).wave =< W
          /\ Head(ec[e]).type = "wave_complete" => Head(ec[e]).wave < W
      BY <3>1 DEF WaveInv, ReportInv, Report, W
    <3>3. \/ cwave' = cwave \/ cwave' = Head(ec[e]).wave
          \/ Head(ec[e]).type = "wave_complete" /\ cwave' = Head(ec[e]).wave + 1
      BY <2>2 DEF OnEngineOutput, coordVars
    <3> QED BY <1>1, <2>1, <3>2, <3>3
  <2>3. ASSUME NEW f \in FrontEnds, OnFirstReq(f) PROVE cwave' = cwave
    BY <2>3 DEF OnFirstReq, coordVars
  <2> QED BY <1>1, <2>1, <2>2, <2>3, Writers DEF coordVars
<1>3. ASSUME NEW g \in FrontEnds PROVE fwave'[g] =< W'
  <2>1. fwave[g] \in Nat /\ fwave[g] =< W
    BY <1>0 DEF WaveInv, RecordInv, ClientType, W
  <2>2. ASSUME NEW f \in FrontEnds, UpdateStats(f) PROVE fwave'[g] =< W'
    <3>1. Head(cf[f]) \in Items(cf[f]) /\ Head(cf[f]) \in Nat \X BOOLEAN
      BY <1>0, <2>2, Taken DEF UpdateStats, ChannelType
    <3>2. Head(cf[f])[1] \in Nat /\ Head(cf[f])[1] =< W
      BY <3>1 DEF WaveInv, UpdateInv, W
    <3> QED BY <1>0, <1>1, <2>1, <2>2, <3>2 DEF UpdateStats, ClientType
  <2>3. ASSUME NEW f \in FrontEnds, SendFirstReq(f) PROVE fwave' = fwave
    BY <2>3 DEF SendFirstReq
  <2> QED BY <1>1, <2>1, <2>2, <2>3, Writers
<1> QED BY <1>2, <1>3 DEF RecordInv, W

\* A request is sent with a wave the ranks have reached.
LEMMA AddStep == ASSUME TypeOK, WaveInv, [Next]_vars PROVE AddInv'
<1>0. ClientType /\ ChannelType
  BY DEF TypeOK
<1> DEFINE W == Wave(Rank0)
<1>1. W \in Nat /\ W' \in Nat /\ W =< W'
  BY WaveUp
<1> HIDE DEF W
<1> SUFFICES ASSUME NEW g \in FrontEnds, NEW d \in Engines, NEW x \in Items(fe'[g][d]), x.type = "add"
             PROVE  x.wave =< W'
  BY DEF AddInv, W
<1>9. fe[g][d] \in Seq(Message)
  BY <1>0 DEF ChannelType
<1>10. ASSUME NEW m \in Message, fe'[g][d] = Append(fe[g][d], m) \/ fe'[g][d] = fe[g][d]
       PROVE  x \in Items(fe[g][d]) \/ x = m
  <2>1. Items(Append(fe[g][d], m)) = Items(fe[g][d]) \cup {m}
    BY <1>9, ItemsAppended
  <2> QED BY <1>10, <2>1
<1>2. ASSUME x \in Items(fe[g][d]) PROVE x.wave =< W'
  <2>1. x \in Message
    BY <1>0, <1>2 DEF Items, ChannelType
  <2>2. x.wave \in Nat /\ x.wave =< W
    BY <1>2, <2>1 DEF WaveInv, AddInv, Message, W
  <2> QED BY <1>1, <2>2
<1>3. ASSUME NEW f \in FrontEnds, NEW q \in Requests, NEW e \in Engines, AddRequest(f, q, e)
      PROVE  x.wave =< W'
  <2> DEFINE m == [type |-> "add", req |-> q, wave |-> fwave[f]]
  <2>1. fwave[f] \in Nat /\ fwave[f] =< W
    BY <1>0 DEF WaveInv, RecordInv, ClientType, W
  <2>2. m \in Message
    BY <2>1 DEF Message
  <2>3. fe'[g][d] = Append(fe[g][d], m) \/ fe'[g][d] = fe[g][d]
    BY <1>0, <1>3 DEF AddRequest, ChannelType
  <2>4. x \in Items(fe[g][d]) \/ x = m
    BY <1>10, <2>2, <2>3
  <2> QED BY <1>1, <1>2, <2>1, <2>4
<1>4. ASSUME NEW m \in Message, m.type # "add",
             \/ fe'[g][d] = Append(fe[g][d], m) \/ fe'[g][d] = fe[g][d]
      PROVE  x.wave =< W'
  <2>1. x \in Items(fe[g][d]) \/ x = m
    BY <1>4, <1>10
  <2> QED BY <1>2, <1>4, <2>1
<1>5. ASSUME NEW f \in FrontEnds, NEW mode \in workload.pauses, PauseAll(f, mode)
      PROVE  x.wave =< W'
  <2>1. mode \in Modes
    BY <1>0, WaveAssumption DEF ClientType, Modes
  <2>2. [type |-> "pause", mode |-> mode] \in Message
    BY <2>1 DEF Message
  <2>3. \/ fe'[g][d] = Append(fe[g][d], [type |-> "pause", mode |-> mode])
        \/ fe'[g][d] = fe[g][d]
    BY <1>0, <1>5 DEF PauseAll, ChannelType
  <2> QED BY <1>4, <2>2, <2>3
<1>6. ASSUME NEW f \in FrontEnds, ResumeAll(f)
      PROVE  x.wave =< W'
  <2>1. [type |-> "resume"] \in Message
    BY DEF Message
  <2>2. fe'[g][d] = Append(fe[g][d], [type |-> "resume"]) \/ fe'[g][d] = fe[g][d]
    BY <1>0, <1>6 DEF ResumeAll, ChannelType
  <2> QED BY <1>4, <2>1, <2>2
<1>7. ASSUME NEW q \in Requests, AbortRequest(q)
      PROVE  x.wave =< W'
  <2>1. [type |-> "abort", req |-> q] \in Message
    BY DEF Message
  <2>2. \/ fe'[g][d] = Append(fe[g][d], [type |-> "abort", req |-> q])
        \/ fe'[g][d] = fe[g][d]
    BY <1>0, <1>7 DEF AbortRequest, ChannelType
  <2> QED BY <1>4, <2>1, <2>2
<1>8. ASSUME NEW f \in FrontEnds, NEW e \in Engines, HandleFrontEnd(e, f)
      PROVE  x.wave =< W'
  <2>1. fe[f][e] # <<>> /\ (fe'[g][d] = fe[g][d] \/ (g = f /\ d = e /\ fe'[g][d] = Tail(fe[g][d])))
    BY <1>0, <1>8 DEF HandleFrontEnd, ChannelType
  <2>2. x \in Items(fe[g][d])
    BY <1>0, <2>1, Taken DEF ChannelType
  <2> QED BY <1>2, <2>2
<1> QED BY <1>2, <1>3, <1>5, <1>6, <1>7, <1>8, Writers

\* A front-end reports a wave the ranks have reached.
LEMMA FirstReqStep == ASSUME TypeOK, WaveInv, [Next]_vars PROVE FirstReqInv'
<1>0. ClientType /\ ChannelType
  BY DEF TypeOK
<1> DEFINE W == Wave(Rank0)
<1>1. W \in Nat /\ W' \in Nat /\ W =< W'
  BY WaveUp
<1> HIDE DEF W
<1> SUFFICES ASSUME NEW g \in FrontEnds, NEW x \in Items(fc'[g])
             PROVE  x[2] =< W'
  BY DEF FirstReqInv, W
<1>9. fc[g] \in Seq(Engines \X Nat)
  BY <1>0 DEF ChannelType
<1>10. ASSUME NEW m \in Engines \X Nat, fc'[g] = Append(fc[g], m) \/ fc'[g] = fc[g]
       PROVE  x \in Items(fc[g]) \/ x = m
  <2> DEFINE T == Engines \X Nat
  <2>1. fc[g] \in Seq(T) /\ m \in T
    BY <1>9
  <2> HIDE DEF T
  <2>2. Items(Append(fc[g], m)) = Items(fc[g]) \cup {m}
    BY <2>1, ItemsAppended
  <2> QED BY <1>10, <2>2
<1>2. ASSUME x \in Items(fc[g]) PROVE x[2] =< W'
  <2>1. x \in Engines \X Nat
    BY <1>9, <1>2, ItemType
  <2>2. x[2] \in Nat /\ x[2] =< W
    BY <1>2, <2>1 DEF WaveInv, FirstReqInv, W
  <2> QED BY <1>1, <2>2
<1>3. ASSUME NEW f \in FrontEnds, SendFirstReq(f) PROVE x[2] =< W'
  <2> DEFINE m == <<Head(first_req[f]), fwave[f]>>
  <2>1. fwave[f] \in Nat /\ fwave[f] =< W
    BY <1>0 DEF WaveInv, RecordInv, ClientType, W
  <2>2. Head(first_req[f]) \in Engines
    BY <1>0, <1>3, Taken DEF SendFirstReq, ChannelType
  <2>3. m \in Engines \X Nat
    BY <2>1, <2>2
  <2>4. fc'[g] = Append(fc[g], m) \/ fc'[g] = fc[g]
    BY <1>0, <1>3 DEF SendFirstReq, ChannelType
  <2>5. x \in Items(fc[g]) \/ x = m
    BY <1>10, <2>3, <2>4
  <2> QED BY <1>1, <1>2, <2>1, <2>5
<1>4. ASSUME NEW f \in FrontEnds, OnFirstReq(f) PROVE x[2] =< W'
  <2>1. fc[f] # <<>> /\ (fc'[g] = fc[g] \/ (g = f /\ fc'[g] = Tail(fc[g])))
    BY <1>0, <1>4 DEF OnFirstReq, ChannelType
  <2>2. x \in Items(fc[g])
    BY <1>9, <2>1, ItemsTaken
  <2> QED BY <1>2, <2>2
<1> QED BY <1>2, <1>3, <1>4, Writers

\* The coordinator publishes a wave the ranks have reached.
LEMMA UpdateStep == ASSUME TypeOK, WaveInv, [Next]_vars PROVE UpdateInv'
<1>0. ClientType /\ ChannelType /\ ClientType'
  BY TypeStep DEF TypeOK
<1> DEFINE W == Wave(Rank0)
<1>1. W \in Nat /\ W' \in Nat /\ W =< W' /\ cwave' =< W' /\ cwave =< W
  BY WaveUp, RecordStep DEF RecordInv, WaveInv
<1> HIDE DEF W
<1> SUFFICES ASSUME NEW g \in FrontEnds, NEW x \in Items(cf'[g])
             PROVE  x[1] =< W'
  BY DEF UpdateInv, W
<1>9. cf[g] \in Seq(Nat \X BOOLEAN)
  BY <1>0 DEF ChannelType
<1>10. ASSUME NEW m \in Nat \X BOOLEAN, cf'[g] = Append(cf[g], m) \/ cf'[g] = cf[g]
       PROVE  x \in Items(cf[g]) \/ x = m
  <2> DEFINE T == Nat \X BOOLEAN
  <2>1. cf[g] \in Seq(T) /\ m \in T
    BY <1>9
  <2> HIDE DEF T
  <2>2. Items(Append(cf[g], m)) = Items(cf[g]) \cup {m}
    BY <2>1, ItemsAppended
  <2> QED BY <1>10, <2>2
<1>2. ASSUME x \in Items(cf[g]) PROVE x[1] =< W'
  <2>1. x \in Nat \X BOOLEAN
    BY <1>9, <1>2, ItemType
  <2>2. x[1] \in Nat /\ x[1] =< W
    BY <1>2, <2>1 DEF WaveInv, UpdateInv, W
  <2> QED BY <1>1, <2>2
<1>3. ASSUME PublishState PROVE x[1] =< W'
  <2> DEFINE m == <<cwave', crunning'>>
  <2>1. m \in Nat \X BOOLEAN
    BY <1>0 DEF ClientType
  <2>2. cf'[g] = Append(cf[g], m)
    BY <1>3 DEF PublishState
  <2>3. x \in Items(cf[g]) \/ x = m
    BY <1>10, <2>1, <2>2
  <2> QED BY <1>1, <1>2, <2>3
<1>4. ASSUME NEW f \in FrontEnds, UpdateStats(f) PROVE x[1] =< W'
  <2>1. cf[f] # <<>> /\ (cf'[g] = cf[g] \/ (g = f /\ cf'[g] = Tail(cf[g])))
    BY <1>0, <1>4 DEF UpdateStats, ChannelType
  <2>2. x \in Items(cf[g])
    BY <1>9, <2>1, ItemsTaken
  <2> QED BY <1>2, <2>2
<1>5. ASSUME NEW f \in FrontEnds, Republish(f) PROVE x[1] =< W'
  <2>1. cf'[g] = cf[g] \/ cf'[g] = <<<<cwave, crunning>>>>
    BY <1>0, <1>5 DEF Republish, ChannelType
  <2>2. x \in Items(cf[g]) \/ x = <<cwave, crunning>>
    BY <2>1 DEF Items
  <2>3. cwave \in Nat
    BY <1>0 DEF ClientType
  <2> QED BY <1>1, <1>2, <2>2, <2>3
<1>6. ASSUME NEW f \in FrontEnds, OnFirstReq(f) PROVE UNCHANGED cf \/ PublishState
  BY <1>6 DEF OnFirstReq
<1>7. ASSUME NEW e \in Engines, OnEngineOutput(e) PROVE UNCHANGED cf \/ PublishState
  BY <1>7 DEF OnEngineOutput
<1> QED BY <1>2, <1>3, <1>4, <1>5, <1>6, <1>7, Writers
\* A START_DP_WAVE is of a wave the ranks have reached.
LEMMA StartStep == ASSUME TypeOK, WaveInv, [Next]_vars PROVE StartInv'
<1>0. ClientType /\ ChannelType
  BY DEF TypeOK
<1> DEFINE W == Wave(Rank0)
<1>1. W \in Nat /\ W' \in Nat /\ W =< W' /\ cwave =< W /\ cwave \in Nat
  BY <1>0, WaveUp DEF RecordInv, WaveInv, ClientType
<1> HIDE DEF W
<1> SUFFICES ASSUME NEW d \in Engines, NEW x \in Items(ce'[d])
             PROVE  x[1] =< W'
  BY DEF StartInv, W
<1>2. ce[d] \in Seq(Nat \X (Engines \cup {NoOne}))
  BY <1>0 DEF ChannelType
<1>3. ASSUME x \in Items(ce[d]) PROVE x[1] =< W'
  <2>1. x \in Nat \X (Engines \cup {NoOne})
    BY <1>2, <1>3, ItemType
  <2>2. x[1] \in Nat /\ x[1] =< W
    BY <1>3, <2>1 DEF WaveInv, StartInv, W
  <2> QED BY <1>1, <2>2
<1>4. ASSUME NEW wave \in Nat, wave =< W, NEW y \in Engines \cup {NoOne}, SendStartWave(wave, y)
      PROVE  x[1] =< W'
  <2> DEFINE T == Nat \X (Engines \cup {NoOne})
             m == <<wave, y>>
  <2>1. ce[d] \in Seq(T) /\ m \in T
    BY <1>2
  <2>2. ce'[d] = Append(ce[d], m)
    BY <1>4 DEF SendStartWave
  <2> HIDE DEF T
  <2>3. Items(Append(ce[d], m)) = Items(ce[d]) \cup {m}
    <3> HIDE DEF m
    <3> QED BY <2>1, ItemsAppended
  <2>4. x \in Items(ce[d]) \/ x = m
    BY <2>2, <2>3
  <2> QED BY <1>1, <1>3, <1>4, <2>4
<1>5. ASSUME NEW f \in FrontEnds, OnFirstReq(f) PROVE x[1] =< W'
  <2>1. Head(fc[f]) \in Engines \X Nat
    BY <1>0, <1>5, Taken DEF ChannelType, OnFirstReq
  <2>2. Head(fc[f])[1] \in Engines
    BY <2>1
  <2>3. UNCHANGED ce \/ \E y \in Engines \cup {NoOne} : SendStartWave(cwave, y)
    BY <1>5, <2>2 DEF OnFirstReq
  <2> QED BY <1>1, <1>3, <1>4, <2>3
<1>6. ASSUME NEW e \in Engines, OnEngineOutput(e) PROVE x[1] =< W'
  <2>1. Head(ec[e]) \in Items(ec[e]) /\ Head(ec[e]) \in Report
    BY <1>0, <1>6, Taken DEF OnEngineOutput, ChannelType
  <2>2. Head(ec[e]).wave \in Nat /\ Head(ec[e]).wave =< W
    BY <2>1 DEF WaveInv, ReportInv, Report, W
  <2>3. UNCHANGED ce \/ SendStartWave(Head(ec[e]).wave, e)
    BY <1>6 DEF OnEngineOutput
  <2> QED BY <1>3, <1>4, <2>2, <2>3
<1>7. ASSUME NEW e \in Engines, HandleStartWave(e) PROVE x[1] =< W'
  <2>1. ce[e] # <<>> /\ (ce'[d] = ce[d] \/ (d = e /\ ce'[d] = Tail(ce[d])))
    BY <1>0, <1>7 DEF HandleStartWave, ChannelType
  <2>2. x \in Items(ce[d])
    BY <1>2, <2>1, ItemsTaken
  <2> QED BY <1>3, <2>2
<1> QED BY <1>3, <1>5, <1>6, <1>7, Writers

\* An engine reports a wave the ranks have reached, and the end of one they
\* have left.
LEMMA ReportStep == ASSUME TypeOK, WaveInv, [Next]_vars PROVE ReportInv'
<1>0. EngineType /\ ChannelType
  BY DEF TypeOK
<1> DEFINE W == Wave(Rank0)
           Behind(x) == x.wave =< W' /\ (x.type = "wave_complete" => x.wave < W')
<1>1. W \in Nat /\ W' \in Nat /\ W =< W'
  BY WaveUp
<1>2. \A e \in Engines : Wave(e) = W
  BY DEF WaveInv, RankInv
<1> HIDE DEF W
<1> SUFFICES ASSUME NEW d \in Engines, NEW x \in Items(ec'[d])
             PROVE  Behind(x)
  BY DEF ReportInv, W
<1>3. ec[d] \in Seq(Report)
  BY <1>0 DEF ChannelType
<1>4. ASSUME x \in Items(ec[d]) PROVE Behind(x)
  <2>1. x \in Report
    BY <1>3, <1>4, ItemType
  <2>2. x.wave \in Nat /\ x.wave =< W /\ (x.type = "wave_complete" => x.wave < W)
    BY <1>4, <2>1 DEF WaveInv, ReportInv, Report, W
  <2> QED BY <1>1, <2>2
<1>5. ASSUME NEW m \in Report, m.wave =< W, m.type = "wave_complete" => m.wave < W,
             ec'[d] = Append(ec[d], m) \/ ec'[d] = ec[d]
      PROVE  Behind(x)
  <2>1. Items(Append(ec[d], m)) = Items(ec[d]) \cup {m}
    BY <1>3, ItemsAppended
  <2>2. x \in Items(ec[d]) \/ x = m
    BY <1>5, <2>1
  <2>3. m.wave \in Nat
    BY DEF Report
  <2> QED BY <1>1, <1>4, <1>5, <2>2, <2>3
<1>6. ASSUME NEW e \in Engines, OnEngineOutput(e) PROVE Behind(x)
  <2>1. ec[e] # <<>> /\ (ec'[d] = ec[d] \/ (d = e /\ ec'[d] = Tail(ec[d])))
    BY <1>0, <1>6 DEF OnEngineOutput, ChannelType
  <2>2. x \in Items(ec[d])
    BY <1>3, <2>1, ItemsTaken
  <2> QED BY <1>4, <2>2
<1>7. ASSUME NEW e \in Engines, EndWave(e) PROVE Behind(x)
  <2> DEFINE m == [type |-> "wave_complete", wave |-> current_wave[e]]
  <2>1. m \in Report /\ m.wave =< W /\ m.wave < W
    BY <1>0, <1>2, <1>7 DEF EndWave, Wave, Report, EngineType
  <2>2. ec'[d] = Append(ec[d], m) \/ ec'[d] = ec[d]
    BY <1>0, <1>7 DEF EndWave, ChannelType
  <2> HIDE DEF m
  <2> QED BY <1>5, <2>1, <2>2
<1>8. ASSUME NEW e \in Engines, NEW f \in FrontEnds, HandleFrontEnd(e, f) PROVE Behind(x)
  <2> DEFINE m == [type |-> "start_wave", wave |-> current_wave[e]]
  <2>1. m \in Report /\ m.wave =< W /\ m.type # "wave_complete"
    <3>1. pc[e] = "input"
      BY <1>8 DEF HandleFrontEnd
    <3>2. current_wave[e] \in Nat /\ current_wave[e] = W
      BY <1>0, <1>2, <3>1 DEF Wave, EngineType
    <3> QED BY <1>1, <3>2 DEF Report
  <2>2. ec' = ec \/ ec' = [ec EXCEPT ![e] = Append(@, m)]
    <3> DEFINE n == Head(fe[f][e])
    <3>1. OnAdd(e, n) \/ OnAbort(e, n) \/ OnPause(e, n) \/ OnResume(e)
      BY <1>8, HandleCases
    <3> HIDE DEF n
    <3>2. CASE OnAdd(e, n)
      BY <3>2 DEF OnAdd
    <3>3. CASE OnAbort(e, n) \/ OnPause(e, n) \/ OnResume(e)
      BY <3>3 DEF OnAbort, OnPause, OnResume
    <3> QED BY <3>1, <3>2, <3>3
  <2>3. ec'[d] = Append(ec[d], m) \/ ec'[d] = ec[d]
    BY <1>0, <2>2 DEF ChannelType
  <2> HIDE DEF m
  <2> QED BY <1>5, <2>1, <2>3
<1> QED BY <1>4, <1>6, <1>7, <1>8, Writers

\* The ranks are in the same wave, and no record or message is ahead of them.
LEMMA WaveInvStep == ASSUME TypeOK, WaveInv, [Next]_vars PROVE WaveInv'
  BY WaveUp, RecordStep, AddStep, FirstReqStep, UpdateStep, StartStep, ReportStep DEF WaveInv
-----------------------------------------------------------------------------
(* What the coordinator and the front-ends know.                           *)

\* A front-end's view is the coordinator's once it has read its updates.
LEMMA FrontStep == ASSUME TypeOK, FrontInv, [Next]_vars PROVE FrontInv'
<1>0. ClientType /\ ChannelType /\ ClientType' /\ ChannelType'
  BY TypeStep DEF TypeOK
<1> SUFFICES ASSUME NEW g \in FrontEnds
             PROVE  /\ cf'[g] # <<>> => cf'[g][Len(cf'[g])] = <<cwave', crunning'>>
                    /\ cf'[g] = <<>> => /\ fwave'[g] = cwave'
                                        /\ crunning' => frunning'[g]
                                        /\ frunning'[g] => crunning' \/ fc'[g] # <<>>
  BY DEF FrontInv
<1> DEFINE Goal == /\ cf'[g] # <<>> => cf'[g][Len(cf'[g])] = <<cwave', crunning'>>
                   /\ cf'[g] = <<>> => /\ fwave'[g] = cwave'
                                       /\ crunning' => frunning'[g]
                                       /\ frunning'[g] => crunning' \/ fc'[g] # <<>>
<1>1. CASE UNCHANGED <<cf, fc, fwave, frunning, cwave, crunning>>
  BY <1>1 DEF FrontInv
<1>2. ASSUME PublishState PROVE Goal
  <2> DEFINE T == Nat \X BOOLEAN
             m == <<cwave', crunning'>>
  <2>1. cf[g] \in Seq(T) /\ m \in T
    BY <1>0 DEF ClientType, ChannelType
  <2>2. cf'[g] = Append(cf[g], m)
    BY <1>2 DEF PublishState
  <2> HIDE DEF T, m
  <2>3. cf'[g] # <<>> /\ cf'[g][Len(cf'[g])] = m
    BY <2>1, <2>2, Appended
  <2> QED BY <2>3 DEF m
<1>3. ASSUME NEW f \in FrontEnds, SendFirstReq(f) PROVE Goal
  <2>1. UNCHANGED <<cf, fwave, cwave, crunning>>
    BY <1>3 DEF SendFirstReq, coordVars
  <2>2. CASE g = f
    <3>1. fc'[g] = Append(fc[g], <<Head(first_req[f]), fwave[f]>>) /\ frunning'[g] = TRUE
      BY <1>0, <1>3, <2>2 DEF SendFirstReq, ChannelType, ClientType
    <3>2. fc'[g] # <<>>
      <4> DEFINE T == Engines \X Nat
                 m == <<Head(first_req[f]), fwave[f]>>
      <4>1. Head(first_req[f]) \in Engines
        BY <1>0, <1>3, Taken DEF SendFirstReq, ChannelType
      <4>2. m \in T /\ fc[g] \in Seq(T)
        BY <1>0, <4>1 DEF ClientType, ChannelType
      <4>3. fc'[g] = Append(fc[g], m)
        BY <3>1
      <4> HIDE DEF m, T
      <4> QED BY <4>2, <4>3, Appended
    <3> QED BY <2>1, <3>1, <3>2 DEF FrontInv
  <2>3. CASE g # f
    <3>1. fc'[g] = fc[g] /\ frunning'[g] = frunning[g]
      BY <1>0, <1>3, <2>3 DEF SendFirstReq, ChannelType, ClientType
    <3> QED BY <2>1, <3>1 DEF FrontInv
  <2> QED BY <2>2, <2>3
<1>4. ASSUME NEW f \in FrontEnds, UpdateStats(f) PROVE Goal
  <2>1. UNCHANGED <<fc, cwave, crunning>>
    BY <1>4 DEF UpdateStats, coordVars
  <2>2. CASE g = f
    <3> DEFINE s == cf[g]
               T == Nat \X BOOLEAN
    <3>1. s \in Seq(T) /\ s # <<>> /\ s[Len(s)] = <<cwave, crunning>>
      BY <1>0, <1>4, <2>2 DEF UpdateStats, ChannelType, FrontInv
    <3>2. /\ cf'[g] = Tail(s) /\ fwave'[g] = Head(s)[1] /\ frunning'[g] = Head(s)[2]
      BY <1>0, <1>4, <2>2 DEF UpdateStats, ChannelType, ClientType
    <3> HIDE DEF s, T
    <3>3. /\ Head(s) = s[1] /\ Tail(s) \in Seq(T) /\ Len(Tail(s)) = Len(s) - 1
          /\ Len(s) \in Nat \ {0}
          /\ \A i \in 1 .. Len(Tail(s)) : Tail(s)[i] = s[i + 1]
      BY <3>1, Taken
    <3>4. CASE Len(s) = 1
      <4>1. Head(s) = <<cwave, crunning>>
        BY <3>1, <3>3, <3>4
      <4>2. Tail(s) = <<>>
        BY <3>1, <3>4, LastOne
      <4> QED BY <2>1, <3>2, <4>1, <4>2
    <3>5. CASE Len(s) # 1
      <4>1. Tail(s)[Len(Tail(s))] = s[Len(s)] /\ Tail(s) # <<>>
        BY <3>1, <3>3, <3>5
      <4> QED BY <2>1, <3>1, <3>2, <4>1
    <3> QED BY <3>4, <3>5
  <2>3. CASE g # f
    <3>1. cf'[g] = cf[g] /\ fwave'[g] = fwave[g] /\ frunning'[g] = frunning[g]
      BY <1>0, <1>4, <2>3 DEF UpdateStats, ChannelType, ClientType
    <3> QED BY <2>1, <3>1 DEF FrontInv
  <2> QED BY <2>2, <2>3
<1>5. ASSUME NEW f \in FrontEnds, Republish(f) PROVE Goal
  <2>1. UNCHANGED <<fc, fwave, frunning, cwave, crunning>>
    BY <1>5 DEF Republish, coordVars, frontVars
  <2>2. cf'[g] = <<<<cwave, crunning>>>> \/ cf'[g] = cf[g]
    BY <1>0, <1>5 DEF Republish, ChannelType
  <2> QED BY <2>1, <2>2 DEF FrontInv
<1>6. ASSUME NEW f \in FrontEnds, OnFirstReq(f) PROVE Goal
  <2>1. CASE PublishState
    BY <1>2, <2>1
  <2>2. CASE crunning /\ UNCHANGED <<coordVars, cf>>
    BY <1>6, <2>2 DEF OnFirstReq, coordVars, frontVars, FrontInv
  <2> QED BY <1>6, <2>1, <2>2 DEF OnFirstReq
<1>7. ASSUME NEW e \in Engines, OnEngineOutput(e) PROVE Goal
  <2>1. CASE PublishState
    BY <1>2, <2>1
  <2>2. CASE UNCHANGED <<coordVars, cf>>
    BY <1>1, <1>7, <2>2 DEF OnEngineOutput, coordVars, frontVars
  <2> QED BY <1>7, <2>1, <2>2 DEF OnEngineOutput
<1> QED BY <1>1, <1>3, <1>4, <1>5, <1>6, <1>7, Writers DEF coordVars

\* The coordinator will hear of the end of the wave.
LEMMA EndStep == ASSUME TypeOK, WaveInv, EndInv, [Next]_vars PROVE EndInv'
<1>0. EngineType /\ ClientType /\ ChannelType /\ Rank0 \in Engines
  BY WaveAssumption DEF TypeOK
<1> DEFINE W == Wave(Rank0)
           Done(w) == [type |-> "wave_complete", wave |-> w]
<1>1. W \in Nat /\ W' \in Nat /\ cwave \in Nat
  BY <1>0, WaveUp DEF ClientType
<1>2. cwave < W => pc[Rank0] = "wave" \/ Done(W - 1) \in Items(ec[Rank0])
  BY DEF EndInv
<1>3. W' = W \/ pc'[Rank0] = "wave"
  BY <1>0, WaveStep
<1> SUFFICES ASSUME cwave' < W', pc'[Rank0] # "wave" PROVE Done(W' - 1) \in Items(ec'[Rank0])
  BY DEF EndInv
<1>4. W' = W
  BY <1>3
<1> HIDE DEF W
<1>5. ec[Rank0] \in Seq(Report)
  BY <1>0 DEF ChannelType
<1>14. ASSUME NEW m \in Report PROVE Items(Append(ec[Rank0], m)) = Items(ec[Rank0]) \cup {m}
  BY <1>5, ItemsAppended
<1>6. ASSUME NEW e \in Engines, EndWave(e) PROVE Done(W' - 1) \in Items(ec'[Rank0])
  <2>1. cwave' = cwave /\ (e # Rank0 => ec'[Rank0] = ec[Rank0] /\ pc'[Rank0] = pc[Rank0])
    BY <1>0, <1>6 DEF EndWave, coordVars, EngineType, ChannelType
  <2>2. CASE e # Rank0
    BY <1>2, <1>4, <2>1, <2>2
  <2>3. CASE e = Rank0
    <3> DEFINE m == Done(current_wave[Rank0])
    <3>1. W = current_wave[Rank0] + 1
      BY <1>6, <2>3 DEF EndWave, Wave, W
    <3>2. m \in Report /\ ec'[Rank0] = Append(ec[Rank0], m)
      BY <1>0, <1>6, <2>3 DEF EndWave, EngineType, ChannelType, Report
    <3>3. m = Done(W' - 1)
      BY <1>0, <1>1, <1>4, <3>1 DEF EngineType
    <3> HIDE DEF m
    <3>4. Items(Append(ec[Rank0], m)) = Items(ec[Rank0]) \cup {m}
      BY <1>14, <3>2
    <3> QED BY <3>2, <3>3, <3>4
  <2> QED BY <2>2, <2>3
<1>7. ASSUME NEW e \in Engines, OnEngineOutput(e) PROVE Done(W' - 1) \in Items(ec'[Rank0])
  <2> DEFINE m == Head(ec[e])
  <2>1. m \in Report /\ ec[e] # <<>>
    BY <1>0, <1>7, Taken DEF OnEngineOutput, ChannelType
  <2>2. m.wave \in Nat
    BY <2>1 DEF Report
  <2>3. /\ cwave =< cwave'
        /\ m.type = "wave_complete" => m.wave < cwave'
    <3>1. \/ m.type = "wave_complete" /\ cwave =< m.wave /\ cwave' = m.wave + 1
          \/ m.type = "start_wave" /\ (m.wave > cwave \/ m.wave = cwave) /\ cwave' = m.wave
          \/ m.type = "wave_complete" /\ cwave > m.wave /\ cwave' = cwave
          \/ m.type = "start_wave" /\ cwave' = cwave
      BY <1>7 DEF OnEngineOutput, coordVars
    <3> HIDE DEF m
    <3> QED BY <1>1, <2>2, <3>1
  <2>4. pc' = pc /\ (ec'[Rank0] = ec[Rank0] \/ (e = Rank0 /\ ec'[Rank0] = Tail(ec[Rank0])))
    BY <1>0, <1>7 DEF OnEngineOutput, engineVars, ChannelType
  <2>5. cwave < W
    BY <1>1, <1>4, <2>2, <2>3, TypeStep DEF TypeOK, ClientType
  <2>6. Done(W - 1) \in Items(ec[Rank0])
    BY <1>2, <2>4, <2>5
  <2>7. m # Done(W - 1)
    <3>1. SUFFICES ASSUME m = Done(W - 1) PROVE FALSE
      OBVIOUS
    <3>2. m.type = "wave_complete" /\ m.wave = W - 1
      BY <3>1
    <3>3. W - 1 < cwave' /\ cwave' \in Nat
      BY <2>3, <3>2, TypeStep DEF TypeOK, ClientType
    <3> QED BY <1>1, <1>4, <3>3
  <2>8. CASE e = Rank0 /\ ec'[Rank0] = Tail(ec[Rank0])
    <3>1. Items(ec[Rank0]) = {m} \cup Items(Tail(ec[Rank0]))
      BY <1>5, <2>1, <2>8, Taken
    <3> HIDE DEF m
    <3> QED BY <1>4, <2>6, <2>7, <2>8, <3>1
  <2> QED BY <1>4, <2>4, <2>6, <2>8
<1>8. ASSUME NEW e \in Engines, NEW f \in FrontEnds, HandleFrontEnd(e, f)
      PROVE  Done(W' - 1) \in Items(ec'[Rank0])
  <2> DEFINE m == [type |-> "start_wave", wave |-> current_wave[e]]
             n == Head(fe[f][e])
  <2>1. OnAdd(e, n) \/ OnAbort(e, n) \/ OnPause(e, n) \/ OnResume(e)
    BY <1>8, HandleCases
  <2>2. cwave' = cwave /\ pc[e] = "input"
    BY <1>8 DEF HandleFrontEnd, coordVars
  <2> HIDE DEF n
  <2>3. ec' = ec \/ ec' = [ec EXCEPT ![e] = Append(@, m)]
    <3>2. CASE OnAdd(e, n)
      BY <3>2 DEF OnAdd
    <3>3. CASE OnAbort(e, n) \/ OnPause(e, n) \/ OnResume(e)
      BY <3>3 DEF OnAbort, OnPause, OnResume
    <3> QED BY <2>1, <3>2, <3>3
  <2>4. pc[Rank0] # "wave"
    <3>1. pc' = pc \/ pc' = [pc EXCEPT ![e] = "resume"]
      BY <2>1 DEF OnAdd, OnAbort, OnPause, OnResume, engineVars
    <3> QED BY <1>0, <2>2, <3>1 DEF EngineType
  <2>5. Done(W - 1) \in Items(ec[Rank0])
    BY <1>2, <1>4, <2>2, <2>4
  <2>6. m \in Report
    BY <1>0 DEF EngineType, Report
  <2>7. ec'[Rank0] = ec[Rank0] \/ ec'[Rank0] = Append(ec[Rank0], m)
    BY <1>0, <2>3 DEF ChannelType
  <2> HIDE DEF m
  <2>8. Items(Append(ec[Rank0], m)) = Items(ec[Rank0]) \cup {m}
    BY <1>14, <2>6
  <2> QED BY <1>4, <2>5, <2>7, <2>8
<1>9. CASE ec' = ec /\ cwave' = cwave /\ pc[Rank0] # "wave"
  BY <1>2, <1>4, <1>9
<1>10. ASSUME NEW e \in Engines, NotifyIdle(e) \/ BeginStep(e) \/ HandleStartWave(e)
       PROVE  ec' = ec /\ cwave' = cwave /\ pc[Rank0] # "wave"
  BY <1>0, <1>10 DEF NotifyIdle, BeginStep, HandleStartWave, channels, coordVars, EngineType
<1>11. Forward \/ Sync \/ Resumed => ec' = ec /\ cwave' = cwave /\ pc[Rank0] # "wave"
  BY <1>0 DEF Forward, Sync, Resumed, channels, coordVars
<1>12. UNCHANGED vars => ec' = ec /\ cwave' = cwave /\ pc[Rank0] # "wave"
  BY DEF vars, channels, coordVars, engineVars
<1>13. ASSUME OutsideStep, \A e \in Engines : ~OnEngineOutput(e)
       PROVE  ec' = ec /\ cwave' = cwave /\ pc[Rank0] # "wave"
  <2>1. ASSUME NEW f \in FrontEnds, OnFirstReq(f) PROVE ec' = ec /\ cwave' = cwave
    BY <2>1 DEF OnFirstReq, coordVars
  <2>2. ASSUME NEW f \in FrontEnds,
               \/ \E q \in Requests, e \in Engines : AddRequest(f, q, e)
               \/ \E mode \in workload.pauses : PauseAll(f, mode)
        PROVE ec' = ec /\ cwave' = cwave
    BY <2>2 DEF AddRequest, PauseAll, coordVars
  <2>3. ASSUME NEW f \in FrontEnds,
               ResumeAll(f) \/ SendFirstReq(f) \/ UpdateStats(f) \/ Republish(f)
        PROVE ec' = ec /\ cwave' = cwave
    BY <2>3 DEF ResumeAll, SendFirstReq, UpdateStats, Republish, coordVars
  <2>4. ASSUME NEW q \in Requests, AbortRequest(q) PROVE ec' = ec /\ cwave' = cwave
    BY <2>4 DEF AbortRequest, coordVars
  <2>5. pc' = pc
    BY <1>13, OutsideFrame DEF engineVars
  <2> QED BY <1>13, <2>1, <2>2, <2>3, <2>4, <2>5 DEF OutsideStep
<1> QED BY <1>6, <1>7, <1>8, <1>9, <1>10, <1>11, <1>12, <1>13, NextCases
\* Besides a rank there is another one.
LEMMA AnotherEngine == ASSUME NEW x PROVE \E e \in Engines : e # x
  BY WaveAssumption

\* While the coordinator takes the wave to be running, without pauses, an engine
\* runs it or will be told to.
LEMMA RunningStep ==
  ASSUME TypeOK, EngineInv, CallInv, ResumeInv, WaveInv, RunningInv, [Next]_vars
  PROVE  RunningInv'
<1>0. EngineType /\ ClientType /\ ChannelType
  BY DEF TypeOK
<1> SUFFICES ASSUME workload'.pauses = {}
             PROVE  /\ pauser' = "none"
                    /\ crunning' /\ cwave' = Wave(Rank0)' => \E e \in Engines : Active(e)'
  BY DEF RunningInv
<1>1. /\ workload.pauses = {} /\ pauser = "none"
      /\ crunning /\ cwave = Wave(Rank0) => \E e \in Engines : Active(e)
  BY Writers DEF RunningInv
<1>2. pauser' = "none"
  BY <1>1, Writers DEF ResumeAll
<1>3. \A e \in Engines : ~Paused(e) /\ ~ignore_start_dp_wave[e]
  BY <1>1 DEF CallInv, EngineInv
<1> SUFFICES ASSUME crunning', cwave' = Wave(Rank0)'
             PROVE  \E e \in Engines : Active(e)'
  BY <1>2
<1> DEFINE W == Wave(Rank0)
<1>4. W \in Nat /\ cwave \in Nat /\ cwave =< W /\ Rank0 \in Engines
  BY <1>0, WaveUp, WaveAssumption DEF ClientType, WaveInv, RecordInv
<1>5. W' = W
  <2>1. W' = W \/ (W' = W + 1 /\ cwave' = cwave)
    BY <1>4, WaveStep DEF coordVars
  <2> QED BY <1>4, <2>1
<1> HIDE DEF W
<1>6. ASSUME NEW wave \in Nat, wave = W, NEW y \in Engines \cup {NoOne}, SendStartWave(wave, y)
      PROVE  \E e \in Engines : Active(e)'
  <2> DEFINE T == Nat \X (Engines \cup {NoOne})
             m == <<wave, y>>
  <2>1. PICK d \in Engines : d # y
    BY AnotherEngine
  <2>2. ce[d] \in Seq(T) /\ m \in T /\ ce'[d] = Append(ce[d], m)
    BY <1>0, <1>6 DEF ChannelType, SendStartWave
  <2>3. m[1] = Wave(Rank0)' /\ m[2] # d
    BY <1>5, <1>6, <2>1 DEF W
  <2> HIDE DEF T, m
  <2>4. Items(ce'[d]) = Items(ce[d]) \cup {m}
    BY <2>2, ItemsAppended
  <2> QED BY <2>3, <2>4 DEF Active
<1>7. ASSUME NEW d \in Engines, Active(d), Items(ce[d]) \subseteq Items(ce'[d]),
             engines_running[d] => engines_running'[d],
             pc[d] \in {"forward", "sync"} => pc'[d] \in {"forward", "sync"}
      PROVE  \E e \in Engines : Active(e)'
  BY <1>5, <1>7 DEF Active, W
<1>8. ASSUME NEW f \in FrontEnds, OnFirstReq(f) PROVE \E e \in Engines : Active(e)'
  <2>1. CASE crunning /\ UNCHANGED <<coordVars, cf, ce>>
    <3>1. PICK d \in Engines : Active(d)
      BY <1>1, <1>5, <2>1 DEF coordVars, W
    <3>2. UNCHANGED engineVars
      BY <1>8 DEF OnFirstReq
    <3> QED BY <1>7, <2>1, <3>1, <3>2 DEF engineVars
  <2>2. CASE /\ UNCHANGED cwave
             /\ SendStartWave(cwave, IF Head(fc[f])[2] < cwave THEN NoOne ELSE Head(fc[f])[1])
    <3>1. Head(fc[f]) \in Engines \X Nat
      BY <1>0, <1>8, Taken DEF ChannelType, OnFirstReq
    <3>2. (IF Head(fc[f])[2] < cwave THEN NoOne ELSE Head(fc[f])[1]) \in Engines \cup {NoOne}
      BY <3>1
    <3>3. cwave = W
      BY <1>5, <2>2 DEF W
    <3> QED BY <1>4, <1>6, <2>2, <3>2, <3>3
  <2> QED BY <1>8, <2>1, <2>2 DEF OnFirstReq
<1>9. ASSUME NEW e \in Engines, OnEngineOutput(e) PROVE \E d \in Engines : Active(d)'
  <2>1. CASE UNCHANGED <<coordVars, cf, ce>>
    <3>1. PICK d \in Engines : Active(d)
      BY <1>1, <1>5, <2>1 DEF coordVars, W
    <3>2. UNCHANGED engineVars
      BY <1>9 DEF OnEngineOutput
    <3> QED BY <1>7, <2>1, <3>1, <3>2 DEF engineVars
  <2>2. CASE cwave' = Head(ec[e]).wave /\ SendStartWave(Head(ec[e]).wave, e)
    <3>1. Head(ec[e]) \in Report
      BY <1>0, <1>9, Taken DEF OnEngineOutput, ChannelType
    <3>2. Head(ec[e]).wave \in Nat
      BY <3>1 DEF Report
    <3>3. Head(ec[e]).wave = W
      BY <1>5, <2>2 DEF W
    <3> QED BY <1>6, <2>2, <3>2, <3>3
  <2>3. CASE crunning' = FALSE
    BY <2>3
  <2> QED BY <1>9, <2>1, <2>2, <2>3 DEF OnEngineOutput
<1>10. ASSUME coordVars' = coordVars PROVE \E d \in Engines : Active(d)
  BY <1>1, <1>5, <1>10 DEF coordVars, W
<1>11. CASE UNCHANGED <<engineVars, coordVars, ce>>
  BY <1>7, <1>10, <1>11 DEF engineVars
<1>12. ASSUME NEW e \in Engines, NEW f \in FrontEnds, HandleFrontEnd(e, f)
       PROVE  \E d \in Engines : Active(d)'
  <2> DEFINE n == Head(fe[f][e])
  <2>1. OnAdd(e, n) \/ OnAbort(e, n) \/ OnPause(e, n) \/ OnResume(e)
    BY <1>12, HandleCases
  <2>2. UNCHANGED <<coordVars, ce>> /\ pc[e] = "input"
    BY <1>12 DEF HandleFrontEnd
  <2> HIDE DEF n
  <2>3. PICK d \in Engines : Active(d)
    BY <1>10, <2>2
  <2>4. engines_running[d] => engines_running'[d]
    BY <1>0, <2>1 DEF OnAdd, OnAbort, OnPause, OnResume, engineVars, EngineType
  <2>5. pc' = pc \/ pc' = [pc EXCEPT ![e] = "resume"]
    BY <2>1 DEF OnAdd, OnAbort, OnPause, OnResume, engineVars
  <2>6. pc[d] \in {"forward", "sync"} => pc'[d] \in {"forward", "sync"}
    BY <1>0, <2>2, <2>5 DEF EngineType
  <2> QED BY <1>7, <2>2, <2>3, <2>4, <2>6
<1>13. ASSUME NEW e \in Engines, HandleStartWave(e) PROVE \E d \in Engines : Active(d)'
  <2> DEFINE m == Head(ce[e])
             T == Nat \X (Engines \cup {NoOne})
  <2>1. UNCHANGED <<coordVars, pc>> /\ pc[e] = "input" /\ ce[e] # <<>>
    BY <1>13 DEF HandleStartWave
  <2>2. PICK d \in Engines : Active(d)
    BY <1>10, <2>1
  <2>3. engines_running[d] => engines_running'[d]
    BY <1>0, <1>13 DEF HandleStartWave, EngineType
  <2>4. CASE d # e
    <3>1. ce'[d] = ce[d]
      BY <1>0, <1>13, <2>4 DEF HandleStartWave, ChannelType
    <3> QED BY <1>7, <2>1, <2>2, <2>3, <3>1
  <2>5. CASE d = e /\ m[1] = Wave(Rank0) /\ m[2] # e
    <3>1. current_wave[e] = Wave(Rank0) /\ current_wave[e] \in Nat
      BY <1>0, <2>1 DEF WaveInv, RankInv, Wave, EngineType
    <3>2. ~ignore_start_dp_wave[e] /\ m[2] # e /\ m[1] >= current_wave[e]
      BY <1>3, <2>5, <3>1
    <3>3. engines_running' = [engines_running EXCEPT ![e] =
            @ \/ (~ignore_start_dp_wave[e] /\ m[2] # e /\ m[1] >= current_wave[e])]
      BY <1>13 DEF HandleStartWave
    <3> HIDE DEF m
    <3>4. engines_running'[e]
      BY <1>0, <3>2, <3>3 DEF EngineType
    <3> QED BY <3>4 DEF Active
  <2>6. CASE d = e /\ ~(m[1] = Wave(Rank0) /\ m[2] # e)
    <3>1. ce[e] \in Seq(T) /\ ce'[e] = Tail(ce[e])
      BY <1>0, <1>13 DEF HandleStartWave, ChannelType
    <3> HIDE DEF T
    <3>2. Items(ce[e]) = {m} \cup Items(ce'[e])
      BY <2>1, <3>1, Taken
    <3> HIDE DEF m
    <3>3. Active(e)'
      BY <1>5, <2>1, <2>2, <2>3, <2>6, <3>2 DEF Active, W
    <3> QED BY <3>3
  <2> QED BY <2>4, <2>5, <2>6
<1>14. ASSUME NEW e \in Engines, NotifyIdle(e) \/ BeginStep(e) \/ EndWave(e)
       PROVE  \E d \in Engines : Active(d)'
  <2>1. UNCHANGED <<coordVars, engines_running, ce>>
    BY <1>14 DEF NotifyIdle, BeginStep, EndWave, channels
  <2>2. PICK d \in Engines : Active(d)
    BY <1>10, <2>1
  <2>3. pc[d] \in {"forward", "sync"} => pc'[d] \in {"forward", "sync"}
    BY <1>0, <1>14 DEF NotifyIdle, BeginStep, EndWave, EngineType
  <2> QED BY <1>7, <2>1, <2>2, <2>3
<1>15. CASE Forward
  <2>1. engines_running'[Rank0] \/ pc'[Rank0] = "sync"
    BY <1>4, <1>15 DEF Forward
  <2> QED BY <1>4, <2>1 DEF Active
<1>16. CASE Sync
  <2> DEFINE unfinished == \/ \E e \in Engines : HasUnfinished(e)
                           \/ {e \in Engines : pending_pause[e]} \notin {{}, Engines}
  <2>1. /\ pc' = [e \in Engines |-> IF unfinished THEN "input" ELSE "wave"]
        /\ engines_running' = [e \in Engines |-> unfinished]
        /\ current_wave' = current_wave /\ pc[Rank0] = "sync"
    BY <1>4, <1>16 DEF Sync
  <2> HIDE DEF unfinished
  <2>2. unfinished
    <3>1. SUFFICES ASSUME ~unfinished PROVE FALSE
      OBVIOUS
    <3>2. pc'[Rank0] = "wave"
      BY <1>4, <2>1, <3>1
    <3>3. W' = W + 1
      BY <2>1, <3>2 DEF W, Wave
    <3> QED BY <1>4, <1>5, <3>3
  <2>3. engines_running'[Rank0]
    BY <1>4, <2>1, <2>2
  <2> QED BY <1>4, <2>3 DEF Active
<1>17. CASE Resumed
  BY <1>1, <1>4, <1>17 DEF Resumed, ResumeInv
<1>18. CASE OutsideStep
  <2>1. ASSUME NEW f \in FrontEnds,
               \/ \E q \in Requests, e \in Engines : AddRequest(f, q, e)
               \/ \E mode \in workload.pauses : PauseAll(f, mode)
        PROVE  UNCHANGED <<coordVars, ce>>
    BY <2>1 DEF AddRequest, PauseAll
  <2>2. ASSUME NEW f \in FrontEnds,
               ResumeAll(f) \/ SendFirstReq(f) \/ UpdateStats(f) \/ Republish(f)
        PROVE  UNCHANGED <<coordVars, ce>>
    BY <2>2 DEF ResumeAll, SendFirstReq, UpdateStats, Republish
  <2>3. ASSUME NEW q \in Requests, AbortRequest(q) PROVE UNCHANGED <<coordVars, ce>>
    BY <2>3 DEF AbortRequest
  <2> QED BY <1>8, <1>9, <1>11, <1>18, <2>1, <2>2, <2>3, OutsideFrame DEF OutsideStep
<1>19. UNCHANGED vars => UNCHANGED <<engineVars, coordVars, ce>>
  BY DEF vars, channels
<1> QED BY <1>11, <1>12, <1>13, <1>14, <1>15, <1>16, <1>17, <1>18, <1>19, NextCases
-----------------------------------------------------------------------------
(* Theorems.                                                               *)

\* The initial state satisfies the invariant.
LEMMA InitWaves == Init => WInv
<1> SUFFICES ASSUME Init PROVE WInv
  OBVIOUS
<1>1. IInv /\ Rank0 \in Engines
  BY InitInv, WaveAssumption
<1>2. \A e \in Engines : Wave(e) = 0
  BY DEF Init, Wave
<1>3. \A f \in FrontEnds : /\ Items(fc[f]) = {} /\ Items(cf[f]) = {}
                          /\ \A e \in Engines : Items(fe[f][e]) = {}
  BY NoItems DEF Init
<1>4. \A e \in Engines : Items(ce[e]) = {} /\ Items(ec[e]) = {}
  BY NoItems DEF Init
<1>5. WaveInv
  BY <1>1, <1>2, <1>3, <1>4 DEF Init, WaveInv, RankInv, RecordInv, AddInv, FirstReqInv, UpdateInv,
                              StartInv, ReportInv
<1>6. FrontInv
  BY DEF Init, FrontInv
<1>7. EndInv
  BY <1>1, <1>2 DEF Init, EndInv
<1>8. RunningInv
  BY DEF Init, RunningInv
<1> QED BY <1>1, <1>5, <1>6, <1>7, <1>8 DEF WInv

\* Every step keeps the invariant.
LEMMA WavesStep == WInv /\ [Next]_vars => WInv'
<1> SUFFICES ASSUME WInv, [Next]_vars PROVE WInv'
  OBVIOUS
<1>1. IInv /\ WaveInv /\ FrontInv /\ EndInv /\ RunningInv
  BY DEF WInv
<1>2. TypeOK /\ EngineInv /\ CallInv /\ ResumeInv
  BY <1>1 DEF IInv
<1>3. IInv'
  BY <1>1, InvStep
<1>4. WaveInv' /\ FrontInv' /\ EndInv' /\ RunningInv'
  BY <1>1, <1>2, WaveInvStep, FrontStep, EndStep, RunningStep
<1> QED BY <1>3, <1>4 DEF WInv

\* The invariant holds in every reachable state, for any number of ranks from
\* two on, of front-ends, of passes between two all-reduces, and any workloads.
THEOREM WavesInvariance == Spec => []WInv
  BY InitWaves, WavesStep, PTL DEF Spec

\* When the engines are idle and nothing is in flight, the coordinator and the
\* front-ends know it and agree with them on the wave that comes next.
THEOREM IdlenessIsKnown == Spec => []IdleIsKnown
<1>1. WInv => IdleIsKnown
  <2> SUFFICES ASSUME WInv, workload.pauses = {},
                      \A e \in Engines : /\ pc[e] = "input" /\ ~HasWork(e)
                                         /\ ce[e] = <<>> /\ ec[e] = <<>>,
                      \A f \in FrontEnds : cf[f] = <<>> /\ fc[f] = <<>>
               PROVE  /\ ~crunning
                      /\ \A e \in Engines : current_wave[e] = cwave
                      /\ \A f \in FrontEnds : ~frunning[f] /\ fwave[f] = cwave
    BY DEF IdleIsKnown
  <2>1. TypeOK /\ WaveInv /\ FrontInv /\ EndInv /\ RunningInv /\ Rank0 \in Engines
    BY WaveAssumption DEF WInv, IInv
  <2>2. \A e \in Engines : Items(ce[e]) = {} /\ Items(ec[e]) = {}
    BY NoItems
  <2>3. Wave(Rank0) \in Nat /\ cwave \in Nat /\ cwave =< Wave(Rank0)
    BY <2>1 DEF TypeOK, EngineType, ClientType, WaveInv, RecordInv, Wave
  <2>4. cwave = Wave(Rank0)
    BY <2>1, <2>2, <2>3 DEF EndInv
  <2>5. \A e \in Engines : current_wave[e] = cwave
    BY <2>1, <2>4 DEF WaveInv, RankInv, Wave
  <2>6. \A e \in Engines : ~Active(e)
    BY <2>2 DEF Active, HasWork
  <2>7. ~crunning
    BY <2>1, <2>4, <2>6 DEF RunningInv
  <2> QED BY <2>1, <2>5, <2>7 DEF FrontInv
<1> QED BY <1>1, WavesInvariance, PTL
=============================================================================
