------------------------ MODULE PhasedRunnableProofs ------------------------
(***************************************************************************)
(* However many sessions share a component, its Run is never entered while *)
(* an earlier call of it goes on, and no session outlives the run it       *)
(* began. Both rest on isRunning: it is TRUE as long as a run's goroutine  *)
(* has not come to its end, so the fields of the adapter, which a session  *)
(* reads long after its Start, can only have moved on to a later run once  *)
(* the session's own run is over.                                          *)
(*                                                                         *)
(* WInv is about sessions that do not overlap: while one is in its         *)
(* adapter, the current run goes on or its result is there to be taken, as *)
(* long as a ReadinessRunnable does not end with nil before it is ready.   *)
(***************************************************************************)
EXTENDS PhasedRunnable, TLAPS

Alive(r) == run[r] \in {"running", "sent"}
Begun(r) == run[r] # "none"
Returned(r) == run[r] \in {"sent", "ended"}

\* At most one goroutine is alive, and only while isRunning is set: that of the current run.
OneAlive == \A r \in Run : Alive(r) => isRunning /\ r = current

\* Only a run that has returned has a result.
ResultsAfterReturn == \A r \in Run : runResult[r] # "empty" => Returned(r)

\* A session waits for its own run, or for a later one, and then its own has ended.
SourcesBegun ==
    \A s \in Session :
       /\ started[s] # 0 => Begun(started[s]) /\ (started[s] = current \/ run[started[s]] = "ended")
       /\ started[s] # 0 <=> session[s] \notin {"idle", "refused"}
       /\ session[s] \in {"selecting", "interrupting", "waiting"} /\ source[s] # started[s]
             => run[started[s]] = "ended"
       /\ session[s] \in {"selecting", "interrupting", "waiting"} => source[s] # 0
       /\ session[s] \in {"waited", "done", "failed"} => Returned(started[s])

\* Runs are numbered in the order in which they began.
Numbered == \A r \in Run : Begun(r) <=> r <= current

IInv == TypeOK /\ OneAlive /\ Numbered /\ ResultsAfterReturn /\ SourcesBegun

\* A session that receives a result has its own run behind it.
LEMMA ReceivedAfterReturn ==
  ASSUME IInv, NEW s \in Session, session[s] \in {"selecting", "interrupting", "waiting"},
         runResult[source[s]] # "empty"
  PROVE  Returned(started[s])
BY DEF IInv, ResultsAfterReturn, SourcesBegun, TypeOK, Returned

LEMMA InitIInv == Init => IInv
<1> SUFFICES ASSUME Init PROVE IInv
  OBVIOUS
<1>1. TypeOK
  BY DEF Init, TypeOK, Stages
<1>2. OneAlive /\ Numbered /\ ResultsAfterReturn
  BY DEF Init, OneAlive, Numbered, ResultsAfterReturn, Alive, Begun, Run
<1>3. SourcesBegun
  BY DEF Init, SourcesBegun
<1> QED
  BY <1>1, <1>2, <1>3 DEF IInv

LEMMA ReceiveKeeps ==
  ASSUME IInv, NEW s \in Session, NEW from \in {"selecting", "interrupting", "waiting"},
         NEW onNil \in {"ready", "waited"}, NEW onErr \in {"failed", "waited"},
         Receive(s, from, onNil, onErr)
  PROVE  IInv'
<1>1. Returned(started[s]) /\ source[s] \in Run
  BY ReceivedAfterReturn DEF IInv, SourcesBegun, TypeOK, Receive
<1>2. UNCHANGED <<kind, isRunning, current, run, ready, runCtxDone, started, source, startCtxDone, closed>>
  BY DEF Receive, adapter, client
<1>3. PICK to \in {"ready", "failed", "waited"} : session' = [session EXCEPT ![s] = to]
  BY DEF Receive
<1>4. runResult' = [runResult EXCEPT ![source[s]] = "empty"]
  BY DEF Receive
<1>5. TypeOK'
  BY <1>1, <1>2, <1>3, <1>4 DEF IInv, TypeOK, Stages
<1>6. ResultsAfterReturn'
  BY <1>1, <1>2, <1>4 DEF IInv, TypeOK, ResultsAfterReturn, Returned
<1>7. SourcesBegun'
  BY <1>1, <1>2, <1>3 DEF IInv, TypeOK, SourcesBegun, Returned, Begun, Receive
<1> QED
  BY <1>2, <1>5, <1>6, <1>7 DEF IInv, OneAlive, Numbered, Alive, Begun

LEMMA NextIInv == IInv /\ [Next]_vars => IInv'
<1> SUFFICES ASSUME IInv, [Next]_vars PROVE IInv'
  OBVIOUS
<1> USE DEF adapter, goroutine, client
<1>1. ASSUME NEW s \in Session, Start(s) PROVE IInv'
  <2>1. /\ ~isRunning /\ isRunning' = TRUE /\ session[s] = "idle"
        /\ current + 1 \in Run /\ current' = current + 1
        /\ run' = [run EXCEPT ![current + 1] = "running"]
        /\ started' = [started EXCEPT ![s] = current + 1]
        /\ UNCHANGED <<kind, runResult, ready, runCtxDone, source, startCtxDone, closed>>
    BY <1>1 DEF Start, MayBegin, IsBusy
  <2>2. PICK to \in {"ready", "starting"} : session' = [session EXCEPT ![s] = to]
    BY <1>1 DEF Start
  <2>3. \A r \in Run : ~Alive(r) /\ (Begun(r) => run[r] = "ended")
    BY <2>1 DEF IInv, OneAlive, TypeOK, Alive, Begun
  <2>4. ~Begun(current + 1) /\ current \in Nat /\ current' # 0
    BY <2>1, PhasedRunnableAssumption DEF IInv, Numbered, TypeOK, Run
  <2>5. TypeOK'
    BY <2>1, <2>2 DEF IInv, TypeOK, Stages
  <2>6. OneAlive'
    BY <2>1, <2>3 DEF IInv, OneAlive, Alive, TypeOK
  <2>7. Numbered'
    BY <2>1, <2>4, PhasedRunnableAssumption DEF IInv, Numbered, Begun, TypeOK, Run
  <2>8. ResultsAfterReturn'
    BY <2>1, <2>4 DEF IInv, ResultsAfterReturn, Returned, Begun, TypeOK
  <2>9. SourcesBegun'
    <3>1. ASSUME NEW t \in Session, t # s, started[t] # 0
          PROVE  run[started[t]] = "ended" /\ run'[started[t]] = "ended"
      BY <2>1, <2>3, <2>4, <3>1 DEF IInv, SourcesBegun, TypeOK
    <3> QED
      BY <2>1, <2>2, <2>4, <3>1 DEF IInv, SourcesBegun, TypeOK, Begun, Returned
  <2> QED
    BY <2>5, <2>6, <2>7, <2>8, <2>9 DEF IInv
\* Steps of a session that leave the runs and what it waits for alone.
<1>2. ASSUME NEW s \in Session, NEW to \in {"refused", "ready", "done"},
             session' = [session EXCEPT ![s] = to],
             to = "refused" => session[s] = "idle",
             to = "ready" => session[s] = "selecting",
             to = "done" => session[s] = "waited",
             UNCHANGED <<kind, adapter, goroutine, client>>
      PROVE  IInv'
  <2>1. TypeOK'
    BY <1>2 DEF IInv, TypeOK, Stages
  <2>2. SourcesBegun'
    BY <1>2 DEF IInv, TypeOK, SourcesBegun, Begun, Returned
  <2> QED
    BY <1>2, <2>1, <2>2 DEF IInv, OneAlive, Numbered, ResultsAfterReturn, Alive, Begun, Returned
\* Steps that block the session on the channel of the current run.
<1>3. ASSUME NEW s \in Session, NEW to \in {"selecting", "interrupting", "waiting"},
             session[s] \in {"starting", "cancelled", "ready"},
             session' = [session EXCEPT ![s] = to], source' = [source EXCEPT ![s] = current],
             UNCHANGED <<kind, adapter, goroutine, started, startCtxDone, closed>>
      PROVE  IInv'
  <2>1. started[s] # 0 /\ current # 0
    BY <1>3, PhasedRunnableAssumption DEF IInv, SourcesBegun, TypeOK, Numbered, Run
  <2>2. TypeOK'
    BY <1>3, <2>1 DEF IInv, TypeOK, Stages
  <2>3. SourcesBegun'
    BY <1>3, <2>1 DEF IInv, TypeOK, SourcesBegun, Begun, Returned
  <2> QED
    BY <1>3, <2>2, <2>3 DEF IInv, OneAlive, Numbered, ResultsAfterReturn, Alive, Begun, Returned
<1>4. ASSUME NEW s \in Session,
             \/ StartReceivesResult(s) \/ InterruptedStartReturns(s) \/ WaitReturns(s)
      PROVE  IInv'
  BY <1>4, ReceiveKeeps DEF StartReceivesResult, InterruptedStartReturns, WaitReturns, StartFailed
<1>5. ASSUME NEW s \in Session, Close(s) \/ InterruptStart(s) PROVE IInv'
  <2>1. /\ UNCHANGED <<kind, adapter, run, runResult, ready, session, started, source>>
        /\ \/ UNCHANGED runCtxDone
           \/ runCtxDone' = runCtxDone \cup {current} /\ started[s] # 0
        /\ startCtxDone' \subseteq startCtxDone \cup {s} /\ closed' \subseteq closed \cup {s}
    BY <1>5 DEF Close, InterruptStart, MayClose, IInv, SourcesBegun
  <2>2. started[s] # 0 => current # 0
    BY PhasedRunnableAssumption DEF IInv, SourcesBegun, TypeOK, Numbered, Run
  <2>3. TypeOK'
    BY <2>1, <2>2 DEF IInv, TypeOK
  <2> QED
    BY <2>1, <2>3
       DEF IInv, OneAlive, Numbered, ResultsAfterReturn, SourcesBegun, Alive, Begun, Returned
<1>11. ASSUME NEW s \in Session, StartReceivesCtxDone(s) PROVE IInv'
  <2>1. /\ session[s] = "selecting" /\ session' = [session EXCEPT ![s] = "cancelled"]
        /\ runCtxDone' = runCtxDone \cup {current}
        /\ UNCHANGED <<kind, adapter, run, runResult, ready, client>>
    BY <1>11 DEF StartReceivesCtxDone, Interrupted, CancelledByStart
  <2>2. current # 0
    BY <2>1, PhasedRunnableAssumption DEF IInv, SourcesBegun, TypeOK, Numbered, Run
  <2>3. TypeOK'
    BY <2>1, <2>2 DEF IInv, TypeOK, Stages
  <2>4. SourcesBegun'
    BY <2>1 DEF IInv, TypeOK, SourcesBegun, Begun, Returned
  <2> QED
    BY <2>1, <2>3, <2>4 DEF IInv, OneAlive, Numbered, ResultsAfterReturn, Alive, Begun, Returned
\* The steps of a run's goroutine.
<1>6. ASSUME NEW r \in Run, OnReady(r) PROVE IInv'
  <2>1. TypeOK'
    BY <1>6 DEF OnReady, IInv, TypeOK
  <2> QED
    BY <1>6, <2>1
       DEF OnReady, IInv, OneAlive, Numbered, ResultsAfterReturn, SourcesBegun, Alive, Begun, Returned
<1>7. ASSUME NEW r \in Run, RunReturns(r) PROVE IInv'
  <2>1. /\ run[r] = "running" /\ run' = [run EXCEPT ![r] = "sent"]
        /\ UNCHANGED <<kind, isRunning, current, ready, runCtxDone, session, client>>
    BY <1>7 DEF RunReturns
  <2>2. PICK res \in {"nil", "err"} : runResult' = [runResult EXCEPT ![r] = res]
    BY <1>7, PhasedRunnableAssumption DEF RunReturns, IInv, TypeOK
  <2>3. TypeOK'
    BY <2>1, <2>2 DEF IInv, TypeOK
  <2>4. OneAlive' /\ Numbered' /\ ResultsAfterReturn'
    BY <2>1, <2>2 DEF IInv, TypeOK, OneAlive, Numbered, ResultsAfterReturn, Alive, Begun, Returned
  <2>5. SourcesBegun'
    BY <2>1 DEF IInv, TypeOK, SourcesBegun, Begun, Returned
  <2> QED
    BY <2>3, <2>4, <2>5 DEF IInv
<1>8. ASSUME NEW r \in Run, StoreNotRunning(r) PROVE IInv'
  <2>1. /\ run[r] = "sent" /\ run' = [run EXCEPT ![r] = "ended"] /\ isRunning' = FALSE
        /\ UNCHANGED <<kind, current, runResult, ready, runCtxDone, session, client>>
    BY <1>8 DEF StoreNotRunning
  <2>2. TypeOK'
    BY <2>1 DEF IInv, TypeOK
  <2>3. OneAlive' /\ Numbered' /\ ResultsAfterReturn'
    BY <2>1 DEF IInv, TypeOK, OneAlive, Numbered, ResultsAfterReturn, Alive, Begun, Returned
  <2>4. SourcesBegun'
    BY <2>1 DEF IInv, TypeOK, SourcesBegun, Begun, Returned
  <2> QED
    BY <2>2, <2>3, <2>4 DEF IInv
<1>9. CASE UNCHANGED vars
  BY <1>9 DEF vars, IInv, TypeOK, OneAlive, Numbered, ResultsAfterReturn, SourcesBegun, Alive, Begun,
              Returned
<1>10. ASSUME NEW s \in Session, SessionStep(s) PROVE IInv'
  <2>1. CASE StartRefused(s) \/ StartReceivesReady(s) \/ SessionEnds(s)
    BY <1>2, <2>1 DEF StartRefused, StartReceivesReady, SessionEnds, MayBegin
  <2>2. CASE Select(s) \/ AwaitInterrupted(s) \/ Wait(s)
    BY <1>3, <2>2 DEF Select, AwaitInterrupted, Wait
  <2> QED
    BY <1>1, <1>4, <1>10, <1>11, <2>1, <2>2 DEF SessionStep
<1> QED
  BY <1>5, <1>6, <1>7, <1>8, <1>9, <1>10 DEF Next, Finished

\* The user's Run is never entered twice at a time.
THEOREM RunsOneAtATime == Spec => []OneRunAtATime
<1>1. IInv => OneRunAtATime
  BY DEF IInv, OneAlive, OneRunAtATime, Alive
<1> QED
  BY <1>1, InitIInv, NextIInv, PTL DEF Spec

\* No session outlives the run it began.
THEOREM SessionsOutlastRuns == Spec => []RunEndsWithSession
<1>1. IInv => RunEndsWithSession
  <2> SUFFICES ASSUME IInv, NEW s \in Session, session[s] \in Over, started[s] # 0
               PROVE  run[started[s]] \in {"sent", "ended"}
    BY DEF RunEndsWithSession
  <2> QED
    BY DEF IInv, SourcesBegun, Returned, Over
<1> QED
  BY <1>1, InitIInv, NextIInv, PTL DEF Spec

\* A run that is not running never runs again, and what is ready stays so.
LEMMA NextKeepsReady == IInv /\ ReadyIfStarted /\ [Next]_vars => ReadyIfStarted'
<1> SUFFICES ASSUME IInv, ReadyIfStarted, [Next]_vars, NEW s \in Session, kind' = "ReadinessRunnable",
                    session'[s] \in {"ready", "waiting"}
             PROVE  started'[s] \in ready' \/ run'[started'[s]] # "running"
  BY DEF ReadyIfStarted
<1> USE DEF adapter, goroutine, client
<1>1. kind' = kind /\ ready \subseteq ready'
  BY DEF Next, SessionStep, StartRefused, Start, Select, StartReceivesResult, StartReceivesReady,
         StartReceivesCtxDone, AwaitInterrupted, InterruptedStartReturns, Wait, WaitReturns, SessionEnds,
         Receive,
         Close, InterruptStart, OnReady, RunReturns, StoreNotRunning, Finished, vars
<1>2. session \in [Session -> Stages] /\ run \in [Run -> {"none", "running", "sent", "ended"}]
      /\ started \in [Session -> Run \cup {0}]
  BY DEF IInv, TypeOK
<1>3. ASSUME NEW t \in Session, Start(t)
      PROVE  started'[s] \in ready' \/ run'[started'[s]] # "running"
  <2>1. s # t /\ session'[s] = session[s] /\ started'[s] = started[s]
    BY <1>1, <1>2, <1>3 DEF Start, ReadyAtOnce
  <2>2. started[s] # 0 /\ Begun(started[s]) /\ ~Begun(current + 1) /\ current + 1 \in Run
    BY <1>2, <1>3, <2>1, PhasedRunnableAssumption DEF Start, IInv, SourcesBegun, Numbered, TypeOK, Run
  <2> QED
    BY <1>1, <1>2, <1>3, <2>1, <2>2 DEF Start, ReadyIfStarted
\* All other steps leave what has been started and begin no run.
<1>4. ASSUME started' = started, \A r \in Run : run'[r] = "running" => run[r] = "running",
             session[s] \in {"ready", "waiting"}
      PROVE  started'[s] \in ready' \/ run'[started'[s]] # "running"
  <2>1. started[s] \in Run
    BY <1>2, <1>4 DEF IInv, SourcesBegun
  <2> QED
    BY <1>1, <1>4, <2>1 DEF ReadyIfStarted
<1>5. ASSUME NEW t \in Session, Receive(t, "selecting", "ready", "failed") \/ Receive(t, "interrupting", "ready", "failed")
      PROVE  started'[s] \in ready' \/ run'[started'[s]] # "running"
  <2>1. run' = run /\ started' = started
    BY <1>5 DEF Receive
  <2>2. CASE s = t
    BY <1>5, <2>1, <2>2, ReceivedAfterReturn DEF Receive, Returned
  <2>3. CASE s # t
    BY <1>2, <1>4, <1>5, <2>1, <2>3 DEF Receive
  <2> QED
    BY <2>2, <2>3
<1>6. ASSUME NEW t \in Session, StartReceivesReady(t)
      PROVE  started'[s] \in ready' \/ run'[started'[s]] # "running"
  BY <1>1, <1>2, <1>4, <1>6 DEF StartReceivesReady
<1>7. ASSUME NEW t \in Session,
             \/ StartRefused(t) \/ Select(t) \/ StartReceivesCtxDone(t) \/ AwaitInterrupted(t) \/ Wait(t)
             \/ Receive(t, "waiting", "waited", "waited") \/ SessionEnds(t)
             \/ Close(t) \/ InterruptStart(t)
      PROVE  started'[s] \in ready' \/ run'[started'[s]] # "running"
  <2>1. run' = run /\ started' = started /\ session[s] \in {"ready", "waiting"}
    BY <1>2, <1>7 DEF StartRefused, Select, StartReceivesCtxDone, AwaitInterrupted, Wait, Receive, SessionEnds, Close,
       InterruptStart, Interrupted
  <2> QED
    BY <1>4, <2>1
<1>8. ASSUME NEW r \in Run, OnReady(r) \/ RunReturns(r) \/ StoreNotRunning(r)
      PROVE  started'[s] \in ready' \/ run'[started'[s]] # "running"
  BY <1>2, <1>4, <1>8 DEF OnReady, RunReturns, StoreNotRunning
<1>9. CASE UNCHANGED vars
  BY <1>4, <1>9 DEF vars
<1> QED
  BY <1>3, <1>5, <1>6, <1>7, <1>8, <1>9
     DEF Next, SessionStep, StartReceivesResult, InterruptedStartReturns, WaitReturns, StartFailed, Finished

\* Start of a ReadinessRunnable reports no success before the component is ready
\* or its Run is over.
THEOREM StartReportsReadiness == Spec => []ReadyIfStarted
<1>1. Init => ReadyIfStarted
  BY DEF Init, ReadyIfStarted
<1>2. IInv /\ ReadyIfStarted /\ [Next]_vars => ReadyIfStarted'
  BY NextKeepsReady
<1> QED
  BY <1>1, <1>2, InitIInv, NextIInv, PTL DEF Spec
-----------------------------------------------------------------------------
(* Sessions one at a time, of a component whose Run returns nil only when it has run *)

AtWork(s) == session[s] \notin {"idle"} \cup Over

\* The one session that is at work is on the current run.
Alone ==
    /\ \A s, t \in Session : AtWork(s) /\ AtWork(t) => s = t
    /\ \A s \in Session : AtWork(s) => started[s] = current
    /\ \A s \in Session : session[s] \in {"selecting", "interrupting", "waiting"} => source[s] = current

\* Only a start that waits for readiness can take a result.
OnlyReadinessWaits ==
    /\ \A r \in Run : runResult[r] = "nil" => "nil" \in RunResults[kind]
    /\ \A s \in Session : session[s] \in {"starting", "selecting", "cancelled", "interrupting"} => kind = "ReadinessRunnable"

ResultToCome ==
    \A s \in Session : session[s] \in {"starting", "selecting", "cancelled", "interrupting", "ready", "waiting"} =>
        run[current] = "running" \/ runResult[current] # "empty"

WInv == Alone /\ OnlyReadinessWaits /\ ResultToCome

LEMMA WInvInit == Init => WInv
BY DEF Init, WInv, Alone, OnlyReadinessWaits, ResultToCome, AtWork

\* A result is taken by wait, or by a start that fails with it.
LEMMA ReceiveKeepsWInv ==
  ASSUME IInv, WInv, NEW s \in Session,
         "ReadinessRunnable" \in HookKinds => "nil" \notin RunResults["ReadinessRunnable"],
         \/ Receive(s, "selecting", "ready", "failed") \/ Receive(s, "interrupting", "ready", "failed")
         \/ Receive(s, "waiting", "waited", "waited")
  PROVE  WInv'
<1>1. /\ session[s] \in {"selecting", "interrupting", "waiting"}
      /\ runResult[source[s]] # "empty"
      /\ UNCHANGED <<kind, isRunning, current, run, started, source>>
      /\ runResult' = [runResult EXCEPT ![source[s]] = "empty"]
  BY DEF Receive, adapter, client
<1>2. /\ source[s] = current /\ current \in Run /\ kind \in HookKinds
      /\ session \in [Session -> Stages] /\ runResult \in [Run -> {"empty", "nil", "err"}]
  BY <1>1 DEF IInv, TypeOK, SourcesBegun, WInv, Alone
<1>3. PICK to \in {"failed", "waited"} : session' = [session EXCEPT ![s] = to]
  <2>1. CASE session[s] = "waiting"
    BY <2>1 DEF Receive
  <2>2. CASE session[s] # "waiting"
    <3>1. kind = "ReadinessRunnable"
      BY <1>1, <2>2 DEF WInv, OnlyReadinessWaits
    <3>2. runResult[source[s]] # "nil"
      BY <1>2, <3>1 DEF WInv, OnlyReadinessWaits
    <3> QED
      BY <2>2, <3>2 DEF Receive
  <2> QED
    BY <2>1, <2>2
<1>4. Alone'
  BY <1>1, <1>2, <1>3 DEF WInv, Alone, AtWork, Over
<1>5. OnlyReadinessWaits'
  BY <1>1, <1>2, <1>3 DEF WInv, OnlyReadinessWaits
<1>6. ResultToCome'
  <2> SUFFICES ASSUME NEW t \in Session,
                      session'[t] \in {"starting", "selecting", "cancelled", "interrupting", "ready", "waiting"}
               PROVE  FALSE
    BY DEF ResultToCome
  <2>1. t # s
    BY <1>2, <1>3
  <2>2. AtWork(s) /\ AtWork(t)
    BY <1>1, <1>2, <1>3, <2>1 DEF AtWork, Over
  <2> QED
    BY <2>1, <2>2 DEF WInv, Alone
<1> QED
  BY <1>4, <1>5, <1>6 DEF WInv

LEMMA WInvNext ==
  ASSUME IInv, WInv, [Next]_vars, Overlap = FALSE,
         "ReadinessRunnable" \in HookKinds => "nil" \notin RunResults["ReadinessRunnable"]
  PROVE  WInv'
<1> USE DEF adapter, goroutine, client
<1>0. /\ session \in [Session -> Stages] /\ run \in [Run -> {"none", "running", "sent", "ended"}]
      /\ started \in [Session -> Run \cup {0}] /\ source \in [Session -> Run \cup {0}]
      /\ runResult \in [Run -> {"empty", "nil", "err"}] /\ current \in Run \cup {0} /\ kind \in HookKinds
  BY DEF IInv, TypeOK
<1>1. ASSUME NEW s \in Session, Start(s) PROVE WInv'
  <2>1. /\ \A t \in Session \ {s} : ~AtWork(t) /\ session'[t] = session[t] /\ started'[t] = started[t]
        /\ current + 1 \in Run /\ current' = current + 1 /\ started'[s] = current + 1
        /\ session'[s] = IF ReadyAtOnce THEN "ready" ELSE "starting"
        /\ run'[current + 1] = "running" /\ UNCHANGED <<kind, runResult, source>>
    BY <1>0, <1>1 DEF Start, MayBegin, AtWork
  <2>2. Alone'
    BY <2>1 DEF Alone, AtWork, Over
  <2>3. OnlyReadinessWaits'
    BY <1>0, <2>1, PhasedRunnableAssumption DEF WInv, OnlyReadinessWaits, ReadyAtOnce
  <2>4. ResultToCome'
    BY <2>1 DEF ResultToCome, AtWork, Over
  <2> QED
    BY <2>2, <2>3, <2>4 DEF WInv
\* Steps of a session within its stages, and refusals.
<1>2. ASSUME NEW s \in Session, NEW to \in {"refused", "done", "selecting", "cancelled", "interrupting", "ready", "waiting"},
             session' = [session EXCEPT ![s] = to],
             to \notin {"refused", "done"} => session[s] \in {"starting", "selecting", "cancelled", "ready"},
             IF to \in {"selecting", "interrupting", "waiting"}
                THEN source' = [source EXCEPT ![s] = current] ELSE source' = source,
             to \in {"selecting", "cancelled", "interrupting"} => session[s] # "ready",
             UNCHANGED <<kind, current, run, runResult, started>>
      PROVE  WInv'
  <2>1. /\ session'[s] = to /\ \A t \in Session \ {s} : session'[t] = session[t] /\ source'[t] = source[t]
        /\ to \in {"selecting", "interrupting", "waiting"} => source'[s] = current
    BY <1>0, <1>2
  <2>2. to \notin {"refused", "done"} => AtWork(s)
    BY <1>2 DEF AtWork, Over
  <2>3. Alone'
    BY <1>2, <2>1, <2>2 DEF WInv, Alone, AtWork, Over
  <2>4. OnlyReadinessWaits' /\ ResultToCome'
    BY <1>2, <2>1 DEF WInv, OnlyReadinessWaits, ResultToCome
  <2> QED
    BY <2>3, <2>4 DEF WInv
<1>3. ASSUME NEW s \in Session, Close(s) \/ InterruptStart(s) PROVE WInv'
  BY <1>3 DEF Close, InterruptStart, WInv, Alone, OnlyReadinessWaits, ResultToCome, AtWork
<1>4. ASSUME NEW r \in Run, OnReady(r) \/ StoreNotRunning(r) PROVE WInv'
  <2>1. UNCHANGED <<kind, current, runResult, session, started, source>>
    BY <1>4 DEF OnReady, StoreNotRunning
  <2>2. \A q \in Run : run[q] = "running" => run'[q] = "running"
    BY <1>0, <1>4 DEF OnReady, StoreNotRunning
  <2>3. ResultToCome'
    <3>1. \A s \in Session : AtWork(s) => current \in Run
      BY <1>0 DEF WInv, Alone, AtWork, Over, IInv, SourcesBegun
    <3> QED
      BY <2>1, <2>2, <3>1 DEF WInv, ResultToCome, AtWork, Over
  <2> QED
    BY <2>1, <2>3 DEF WInv, Alone, OnlyReadinessWaits, AtWork
<1>5. ASSUME NEW r \in Run, RunReturns(r) PROVE WInv'
  <2>1. PICK res \in RunResults[kind] : runResult' = [runResult EXCEPT ![r] = res]
    BY <1>5 DEF RunReturns
  <2>2. res # "empty" /\ res \in RunResults[kind]
    BY <1>0, <2>1, PhasedRunnableAssumption
  <2>3. UNCHANGED <<kind, current, session, started, source>> /\ run' = [run EXCEPT ![r] = "sent"]
    BY <1>5 DEF RunReturns
  <2>4. OnlyReadinessWaits'
    BY <1>0, <2>1, <2>2, <2>3 DEF WInv, OnlyReadinessWaits
  <2>5. ResultToCome'
    BY <1>0, <2>1, <2>2, <2>3 DEF WInv, ResultToCome
  <2> QED
    BY <2>3, <2>4, <2>5 DEF WInv, Alone, AtWork
<1>6. CASE UNCHANGED vars
  BY <1>6 DEF vars, WInv, Alone, OnlyReadinessWaits, ResultToCome, AtWork
<1>7. ASSUME NEW s \in Session, SessionStep(s) PROVE WInv'
  <2>1. CASE StartReceivesResult(s) \/ InterruptedStartReturns(s) \/ WaitReturns(s)
    BY <2>1, ReceiveKeepsWInv DEF StartReceivesResult, InterruptedStartReturns, WaitReturns, StartFailed
  <2>2. CASE StartRefused(s)
    BY <1>2, <2>2 DEF StartRefused, Stages
  <2>3. CASE Select(s) \/ StartReceivesReady(s) \/ StartReceivesCtxDone(s) \/ AwaitInterrupted(s) \/ Wait(s)
    BY <1>2, <2>3 DEF Select, StartReceivesReady, StartReceivesCtxDone, AwaitInterrupted, Wait, Interrupted
  <2>4. CASE SessionEnds(s)
    BY <1>2, <2>4 DEF SessionEnds, Stages
  <2> QED
    BY <1>1, <1>7, <2>1, <2>2, <2>3, <2>4 DEF SessionStep
<1> QED
  BY <1>3, <1>4, <1>5, <1>6, <1>7 DEF Next, Finished

\* lifecycle_types_internal.go:4: of sessions that do not overlap, each waits for a result that
\* is there or will come, if a Run that has a ready callback never returns nil. With either
\* left out it may wait for a result that its start, or another session, has taken.
THEOREM ResultsAreLeftToWaitFor ==
  ASSUME Overlap = FALSE,
         "ReadinessRunnable" \in HookKinds => "nil" \notin RunResults["ReadinessRunnable"]
  PROVE  Spec => []WaitsForAResultToCome
<1>1. IInv /\ WInv => WaitsForAResultToCome
  BY DEF WInv, Alone, ResultToCome, WaitsForAResultToCome
<1>2. IInv /\ WInv /\ [Next]_vars => WInv'
  BY WInvNext
<1> QED
  BY <1>1, <1>2, InitIInv, NextIInv, WInvInit, PTL DEF Spec
=============================================================================
