--------------------------- MODULE RunnerShutdown ---------------------------
(***************************************************************************)
(* Runner.Run as a whole (runner.go): a call without a context makes a     *)
(* shutdown context, and a deferred cancel ends it when Run returns, with  *)
(* whatever outcome. Runner has the guard and the session in between,      *)
(* ShutdownContext the contexts: that of caller c is called c, too.        *)
(***************************************************************************)
EXTENDS Runner

CONSTANTS
    NoCtx,  \* the callers that give no context
    Signal

ASSUME NoCtxAssumption == NoCtx \subseteq Caller

VARIABLES created, subscribed, signalsChan, chanClosed, once, at, arg, cause, parentDone, panicked

\* The parent of a context made by Run is Background, which has no end, and its only
\* user is the caller.
S == INSTANCE ShutdownContext WITH Context <- Caller, Canceller <- Caller, Parents <- {}

contexts == <<created, subscribed, signalsChan, chanClosed, once, at, arg, cause, parentDone, panicked>>
allVars == <<runnerVars, contexts>>

RunnerShutdownInit == RunnerInit /\ S!Init

\* The contexts have a life of their own; ctx.Done of the session's context is closed
\* when it ends. Mutant: Run goes on with the context it was given, nil or not.
SessionSeesItsContext_Mutant == UNCHANGED ctxDone
SessionSeesItsContext ==
    ctxDone' = (ctxDone \/ \E c \in NoCtx : caller[c] = "running" /\ cause'[c] # "none")

ContextStep ==
    /\ (\E c \in NoCtx : S!ContextStep(c)) \/ (\E sig \in Signal : S!Deliver(sig))
    /\ SessionSeesItsContext
    /\ UNCHANGED <<session, startCtx, calls, channels, isRunning, caller>>

MakesContext(c) ==
    /\ c \in NoCtx /\ caller[c] = "idle"
    /\ S!NewShutdownContext(c)
    /\ UNCHANGED runnerVars

\* Past the making of the context, if there is none.
PassesGuard(c) ==
    /\ c \in NoCtx => c \in created
    /\ CallRefused(c) \/ (CallRun(c) /\ (c \in NoCtx => ctxDone' = S!Done(c)))
    /\ UNCHANGED contexts

CancelsOwnCtx ==
    /\ \E c \in Caller \ NoCtx : caller[c] = "running"
    /\ CancelRunCtx
    /\ UNCHANGED <<isRunning, caller, contexts>>

\* The deferred cancel(nil), after isRunning is reset. Mutant: deferred behind the guard.
Defers_Mutant(c) == caller[c] = "returned"
Defers(c) == caller[c] \in {"returned", "refused"}

CancelsMadeCtx(c) ==
    /\ c \in NoCtx /\ Defers(c)
    /\ S!Cancel(c, c)
    /\ UNCHANGED runnerVars

SessionGoesOn ==
    /\ InSession /\ UNCHANGED <<isRunning, caller, contexts>>
    /\ SessionStep \/ \E n \in LcNodes : StartReturns(n) \/ WaitReturns(n) \/ CloseReturns(n) \/ StartTimesOut(n)

RunnerShutdownNext ==
    \/ \E c \in Caller : MakesContext(c) \/ PassesGuard(c) \/ CancelsMadeCtx(c) \/ (RunReturns(c) /\ UNCHANGED contexts)
    \/ SessionGoesOn \/ CancelsOwnCtx \/ ContextStep

\* What some goroutine has to do next; of the hooks as much as their contracts ask.
Due ==
    \/ \E c \in Caller : CancelsMadeCtx(c) \/ (RunReturns(c) /\ UNCHANGED contexts)
    \/ ContextStep /\ \E c \in NoCtx : S!ContextStep(c)
    \/ /\ SessionGoesOn
       /\ \/ SessionStep
          \/ \E n \in Node : \/ startCtx[n] = "cancelled" /\ StartReturns(n)
                             \/ closeCall[n] = "returned" /\ WaitReturns(n)
                             \/ CloseReturns(n)

RunnerShutdownSpec == RunnerShutdownInit /\ [][RunnerShutdownNext]_allVars /\ WF_allVars(Due)

-----------------------------------------------------------------------------
(* Properties *)

\* "If ctx is nil, NewShutdownContext is used": a caught signal ends the first
\* session, as its context would.
First(c) == \A d \in Caller \ {c} : caller[d] # "returned"
SignalEndsRun ==
    \A c \in NoCtx : caller[c] = "running" /\ First(c) /\ signalsChan[c] # <<>> ~> caller[c] = "returned"

\* A call of Run leaves no subscription and no goroutine behind, refused or not.
RunEndsItsContext == \A c \in NoCtx : caller[c] \in {"returned", "refused"} ~> S!IsOver(c)
=============================================================================
