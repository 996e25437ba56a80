------------------------------- MODULE Runner -------------------------------
(***************************************************************************)
(* A Runner whose Run is called by several goroutines (runner.go): one     *)
(* session at a time, guarded by isRunning. A session has channels and     *)
(* counters of its own (newRunnerSession), but the phases it keeps of each *)
(* node, lcNode.runState, are in the graph that the Runner was built with: *)
(* the next session finds them as the last one left them.                  *)
(***************************************************************************)
EXTENDS RunnerSession

CONSTANT Caller  \* the goroutines that call Run, each once

ASSUME CallerAssumption == Caller # {} /\ IsFiniteSet(Caller)

VARIABLES
    isRunning,
    caller  \* of each: idle, running, returned or refused

runnerVars == <<vars, isRunning, caller>>

RunnerInit ==
    /\ Init
    /\ isRunning = FALSE
    /\ caller = [c \in Caller |-> "idle"]

Guard_Mutant == isRunning /\ pc # "loopAfterCtxDone"   \* lets a call in while shutting down
Guard == isRunning

\* ErrAlreadyRunning
CallRefused(c) ==
    /\ caller[c] = "idle" /\ Guard
    /\ caller' = [caller EXCEPT ![c] = "refused"]
    /\ UNCHANGED <<vars, isRunning>>

\* The new session begins, with a context of the caller's.
CallRun(c) ==
    /\ caller[c] = "idle" /\ ~Guard
    /\ caller' = [caller EXCEPT ![c] = "running"]
    /\ isRunning' = TRUE
    /\ pc' = "run" /\ agenda' = <<>>
    /\ remainingWaits' = Cardinality(LcNodes) /\ remainingCloses' = Cardinality(LcNodes)
    /\ remainingReadySignals' = Cardinality(LcNodes)
    /\ shutdownErr' = "nil" /\ result' = "none"
    /\ onReadyCalls' = 0 /\ onShutdownCalls' = 0
    /\ startCall' = [n \in Node |-> "none"]
    /\ waitCall' = [n \in Node |-> "none"]
    /\ closeCall' = [n \in Node |-> "none"]
    /\ startResults' = {} /\ waitResults' = {} /\ closeResults' = {}
    /\ ctxDone' \in BOOLEAN
    /\ UNCHANGED <<graph, nodes>>

\* The deferred isRunning.Store(false), after the session has returned.
ResetsIsRunning_Mutant == result = "nil"   \* not on an error
ResetsIsRunning == TRUE

RunReturns(c) ==
    /\ caller[c] = "running" /\ pc = "returned"
    /\ caller' = [caller EXCEPT ![c] = "returned"]
    /\ isRunning' = IF ResetsIsRunning THEN FALSE ELSE isRunning
    /\ UNCHANGED vars

InSession == \E c \in Caller : caller[c] = "running"

\* Steps of the session, its hooks and its context.
SessionNext ==
    /\ InSession /\ UNCHANGED <<isRunning, caller>>
    /\ \/ SessionStep \/ CancelRunCtx
       \/ \E n \in LcNodes : StartReturns(n) \/ WaitReturns(n) \/ CloseReturns(n) \/ StartTimesOut(n)

AllAnswered == (\A c \in Caller : caller[c] \in {"returned", "refused"}) /\ UNCHANGED runnerVars

RunnerNext ==
    \/ \E c \in Caller : CallRefused(c) \/ CallRun(c) \/ RunReturns(c)
    \/ SessionNext
    \/ AllAnswered

RunnerFairness ==
    /\ \A c \in Caller : WF_runnerVars(RunReturns(c))
    /\ WF_runnerVars(InSession /\ SessionStep /\ UNCHANGED <<isRunning, caller>>)
    /\ \A n \in Node :
          /\ WF_runnerVars(startCtx[n] = "cancelled" /\ StartReturns(n) /\ UNCHANGED <<isRunning, caller>>)
          /\ WF_runnerVars(closeCall[n] = "returned" /\ WaitReturns(n) /\ UNCHANGED <<isRunning, caller>>)
          /\ WF_runnerVars(CloseReturns(n) /\ UNCHANGED <<isRunning, caller>>)

RunnerSpec == RunnerInit /\ [][RunnerNext]_runnerVars
FairRunnerSpec == RunnerSpec /\ RunnerFairness

-----------------------------------------------------------------------------
(* Properties *)

RunnerTypeOK == TypeOK /\ isRunning \in BOOLEAN /\ caller \in [Caller -> {"idle", "running", "returned", "refused"}]

\* Sessions of one Runner never overlap: they would share the nodes' phases.
OneSessionAtATime == \A c, d \in Caller : caller[c] = "running" /\ caller[d] = "running" => c = d

\* "ErrAlreadyRunning is returned from Runner.Run if the Runner is already
\* running" (runner_errors.go:8), and only then.
RefusedOnlyWhileRunning ==
    [][\A c \in Caller : caller[c] = "idle" /\ caller'[c] = "refused" => InSession]_runnerVars

\* "Once all hooks are done, returns the error that caused the shutdown"
\* (runner.go:31): a call of Run whose context is cancelled returns, be it the
\* first one or not.
EveryRunReturns == \A c \in Caller : caller[c] = "running" /\ ctxDone ~> caller[c] = "returned"
=============================================================================
