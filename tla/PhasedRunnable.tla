--------------------------- MODULE PhasedRunnable ---------------------------
(***************************************************************************)
(* The adapter that makes the three phases Start, wait and close out of    *)
(* one Run method (lifecycle_types_adapters.go): phasedReadinessRunnable   *)
(* and phasedRunnable. There is one adapter per lifecycle hook; the        *)
(* sessions of all Runners whose graph has the hook call it.               *)
(*                                                                         *)
(* A session calls the adapter as RunnerSession does: Start; if it returns *)
(* nil, wait in a goroutine and, any time until the loop has received the  *)
(* result of wait, close. Each Start that is not refused begins a run,     *)
(* with a channel, a context and a goroutine of its own, numbered in that  *)
(* order. The adapter's fields refer to the run that began last.           *)
(***************************************************************************)
EXTENDS Naturals

CONSTANTS
    Session,     \* the sessions, of one Runner or several, that have the hook
    Overlap,     \* may a session begin before the one before it is over?
    HookKinds,   \* a subset of {"Runnable", "ReadinessRunnable"}
    RunResults,  \* what the user's Run of each kind may return: nil or err
    MaxRuns      \* bound: a session begins at most one run

ASSUME PhasedRunnableAssumption ==
    /\ Overlap \in BOOLEAN
    /\ HookKinds \subseteq {"Runnable", "ReadinessRunnable"}
    /\ RunResults \in [HookKinds -> SUBSET {"nil", "err"}]
    /\ MaxRuns \in Nat \ {0}

Run == 1 .. MaxRuns

VARIABLES
    kind,        \* which adapter this is
    isRunning,
    current,     \* the run that runResult, runCtx and cancelRunCtx belong to; 0: none
    run,         \* of each run's goroutine: none, running (the user's Run), sent or ended
    runResult,   \* what is in the run's channel of capacity 1: empty, nil or err
    ready,       \* the runs whose readySignal is closed
    runCtxDone,  \* the runs whose context is cancelled
    session,     \* where each session is
    started,     \* the run a session began; 0: none
    source,      \* the run whose channel a session is blocked on; 0: none
    startCtxDone, closed  \* the sessions that interrupted the start, that closed

adapter == <<isRunning, current>>
goroutine == <<run, runResult, ready, runCtxDone>>
client == <<started, source, startCtxDone, closed>>
vars == <<kind, adapter, goroutine, session, client>>

\* idle; starting: in Start, before its select; selecting; cancelled: after ctx.Done and
\* cancelRunCtx; interrupting: receiving after that; ready: Start returned nil; waiting;
\* waited; done, failed or refused.
Stages == {"idle", "starting", "selecting", "cancelled", "interrupting", "ready", "waiting", "waited",
           "done", "failed", "refused"}
Over == {"done", "failed", "refused"}

-----------------------------------------------------------------------------
(* Calls of a session *)

Init ==
    /\ kind \in HookKinds
    /\ isRunning = FALSE /\ current = 0
    /\ run = [r \in Run |-> "none"] /\ runResult = [r \in Run |-> "empty"]
    /\ ready = {} /\ runCtxDone = {}
    /\ session = [s \in Session |-> "idle"]
    /\ started = [s \in Session |-> 0] /\ source = [s \in Session |-> 0]
    /\ startCtxDone = {} /\ closed = {}

MayBegin(s) ==
    /\ session[s] = "idle"
    /\ Overlap \/ \A t \in Session \ {s} : session[t] \in {"idle"} \cup Over

IsBusy_Mutant == current # 0 /\ current \in ready   \* "is running" once it is ready
IsBusy == isRunning

StartRefused(s) ==
    /\ MayBegin(s) /\ IsBusy
    /\ session' = [session EXCEPT ![s] = "refused"]
    /\ UNCHANGED <<kind, adapter, goroutine, client>>

ReadyAtOnce_Mutant == TRUE   \* a ReadinessRunnable too
ReadyAtOnce == kind = "Runnable"

\* Start up to its select; for a Runnable this is all of it.
Start(s) ==
    /\ MayBegin(s) /\ ~IsBusy
    /\ isRunning' = TRUE
    /\ current + 1 \in Run
    /\ current' = current + 1
    /\ run' = [run EXCEPT ![current + 1] = "running"]
    /\ started' = [started EXCEPT ![s] = current + 1]
    /\ session' = [session EXCEPT ![s] = IF ReadyAtOnce THEN "ready" ELSE "starting"]
    /\ UNCHANGED <<kind, runResult, ready, runCtxDone, source, startCtxDone, closed>>

\* A receive reads the field when it is begun, not when it is over.
Select(s) ==
    /\ session[s] = "starting"
    /\ session' = [session EXCEPT ![s] = "selecting"]
    /\ source' = [source EXCEPT ![s] = current]
    /\ UNCHANGED <<kind, adapter, goroutine, started, startCtxDone, closed>>

\* Takes the result out of the channel the session is blocked on.
Receive(s, from, onNil, onErr) ==
    /\ session[s] = from /\ runResult[source[s]] # "empty"
    /\ session' = [session EXCEPT ![s] = IF runResult[source[s]] = "nil" THEN onNil ELSE onErr]
    /\ runResult' = [runResult EXCEPT ![source[s]] = "empty"]
    /\ UNCHANGED <<kind, adapter, run, ready, runCtxDone, client>>

StartFailed_Mutant == "ready"   \* drops the error
StartFailed == "failed"

\* The Run returned first, or in the same moment: Start returns its result.
StartReceivesResult(s) == Receive(s, "selecting", "ready", StartFailed)

StartReceivesReady(s) ==
    /\ session[s] = "selecting" /\ started[s] \in ready
    /\ session' = [session EXCEPT ![s] = "ready"]
    /\ UNCHANGED <<kind, adapter, goroutine, client>>

Interrupted_Mutant(s) == "failed"   \* returns ctx.Err() without waiting for the Run
Interrupted(s) == "cancelled"

CancelledByStart_Mutant == {}
CancelledByStart == {current}

StartReceivesCtxDone(s) ==
    /\ session[s] = "selecting" /\ s \in startCtxDone
    /\ runCtxDone' = runCtxDone \cup CancelledByStart
    /\ session' = [session EXCEPT ![s] = Interrupted(s)]
    /\ UNCHANGED <<kind, adapter, run, runResult, ready, client>>

\* The field is read again, after the cancellation.
AwaitInterrupted(s) ==
    /\ session[s] = "cancelled"
    /\ session' = [session EXCEPT ![s] = "interrupting"]
    /\ source' = [source EXCEPT ![s] = current]
    /\ UNCHANGED <<kind, adapter, goroutine, started, startCtxDone, closed>>

InterruptedStartReturns(s) == Receive(s, "interrupting", "ready", StartFailed)

Wait(s) ==
    /\ session[s] = "ready"
    /\ session' = [session EXCEPT ![s] = "waiting"]
    /\ source' = [source EXCEPT ![s] = current]
    /\ UNCHANGED <<kind, adapter, goroutine, started, startCtxDone, closed>>

WaitReturns(s) == Receive(s, "waiting", "waited", "waited")

\* The session's loop receives the result of wait.
SessionEnds(s) ==
    /\ session[s] = "waited"
    /\ session' = [session EXCEPT ![s] = "done"]
    /\ UNCHANGED <<kind, adapter, goroutine, client>>

MayClose(s) == session[s] \in {"ready", "waiting", "waited"}

Close(s) ==
    /\ MayClose(s) /\ s \notin closed
    /\ closed' = closed \cup {s}
    /\ runCtxDone' = runCtxDone \cup {current}
    /\ UNCHANGED <<kind, adapter, run, runResult, ready, session, started, source, startCtxDone>>

\* A shutdown of the session, or the start timeout.
InterruptStart(s) ==
    /\ session[s] \in {"starting", "selecting"} /\ s \notin startCtxDone
    /\ startCtxDone' = startCtxDone \cup {s}
    /\ UNCHANGED <<kind, adapter, goroutine, session, started, source, closed>>

-----------------------------------------------------------------------------
(* The run's goroutine *)

OnReady(r) ==
    /\ kind = "ReadinessRunnable" /\ run[r] = "running" /\ r \notin ready
    /\ ready' = ready \cup {r}
    /\ UNCHANGED <<kind, adapter, run, runResult, runCtxDone, session, client>>

RunReturns(r) ==
    /\ run[r] = "running"
    /\ \E res \in RunResults[kind] : runResult' = [runResult EXCEPT ![r] = res]
    /\ run' = [run EXCEPT ![r] = "sent"]
    /\ UNCHANGED <<kind, adapter, ready, runCtxDone, session, client>>

\* Only after the send, so a session may have the result already.
StoreNotRunning(r) ==
    /\ run[r] = "sent"
    /\ run' = [run EXCEPT ![r] = "ended"]
    /\ isRunning' = FALSE
    /\ UNCHANGED <<kind, current, runResult, ready, runCtxDone, session, client>>

-----------------------------------------------------------------------------

SessionStep(s) ==
    \/ StartRefused(s) \/ Start(s) \/ Select(s)
    \/ StartReceivesResult(s) \/ StartReceivesReady(s) \/ StartReceivesCtxDone(s)
    \/ AwaitInterrupted(s) \/ InterruptedStartReturns(s)
    \/ Wait(s) \/ WaitReturns(s) \/ SessionEnds(s)

Finished == (\A s \in Session : session[s] \in Over) /\ UNCHANGED vars

Next ==
    \/ \E s \in Session : SessionStep(s) \/ Close(s) \/ InterruptStart(s)
    \/ \E r \in Run : OnReady(r) \/ RunReturns(r) \/ StoreNotRunning(r)
    \/ Finished

\* Goroutines run; a Run returns once its context is cancelled, as its contract asks.
Fairness ==
    /\ \A s \in Session : WF_vars(SessionStep(s))
    /\ \A r \in Run : WF_vars(r \in runCtxDone /\ RunReturns(r)) /\ WF_vars(StoreNotRunning(r))

Spec == Init /\ [][Next]_vars
FairSpec == Spec /\ Fairness

-----------------------------------------------------------------------------
(* Properties *)

\* Every variable has its type. In particular no context is cancelled before there is one (cancelRunCtx is nil).
TypeOK ==
    /\ kind \in HookKinds /\ isRunning \in BOOLEAN /\ current \in Run \cup {0}
    /\ run \in [Run -> {"none", "running", "sent", "ended"}]
    /\ runResult \in [Run -> {"empty", "nil", "err"}]
    /\ ready \subseteq Run /\ runCtxDone \subseteq Run
    /\ session \in [Session -> Stages]
    /\ started \in [Session -> Run \cup {0}] /\ source \in [Session -> Run \cup {0}]
    /\ startCtxDone \subseteq Session /\ closed \subseteq Session

\* isRunning: the user's Run is never entered while an earlier call of it goes on,
\* however many Runners use the component.
OneRunAtATime == \A q, r \in Run : run[q] = "running" /\ run[r] = "running" => q = r

\* A session is not over before the Run it began has returned, also when the
\* start was interrupted.
RunEndsWithSession == \A s \in Session : session[s] \in Over /\ started[s] # 0 => run[started[s]] \in {"sent", "ended"}

\* Start reports readiness: it returns nil only after onReady or the end of the Run.
ReadyIfStarted ==
    \A s \in Session : kind = "ReadinessRunnable" /\ session[s] \in {"ready", "waiting"}
        => started[s] \in ready \/ run[started[s]] # "running"

\* "block until the component finishes its job" (lifecycle_types_internal.go:10):
\* what a session waits for is the run that it began.
WaitsForItsOwnRun == \A s \in Session : session[s] = "waiting" => source[s] = started[s]

\* wait "can inform Runner about the component's operation completion"
\* (lifecycle_types_internal.go:4): the result it waits for is there or will come,
\* and nobody, not even Start, has taken it.
WaitsForAResultToCome ==
    \A s \in Session : session[s] = "waiting" =>
        run[source[s]] = "running" \/ runResult[source[s]] # "empty"

\* An interrupted start comes to its end.
InterruptedStartEnds ==
    \A s \in Session : s \in startCtxDone ~> session[s] \notin {"starting", "selecting", "cancelled", "interrupting"}

\* A start is refused as "already running" only while another session uses the
\* component.
RefusedOnlyIfInUse ==
    [][\A s \in Session : session[s] # "refused" /\ session'[s] = "refused" =>
          \E t \in Session : session[t] \notin {"idle"} \cup Over]_vars
=============================================================================
