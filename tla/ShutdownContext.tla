--------------------------- MODULE ShutdownContext ---------------------------
(***************************************************************************)
(* Contexts that end when the process gets SIGINT or SIGTERM               *)
(* (pkg/contexts/shutdown_context.go). Each call of NewShutdownContext     *)
(* subscribes a channel of its own and leaves a goroutine, the listener,   *)
(* that waits for a signal, for the end of the parent, or for the channel  *)
(* to be closed. The listener and any number of users may call cancel at   *)
(* the same time; a sync.Once lets the first one do it and keeps the       *)
(* others until it is done.                                                *)
(*                                                                         *)
(* A signal that arrives while nobody is subscribed ends the process, as   *)
(* the Go runtime has it; it is not modelled.                              *)
(***************************************************************************)
EXTENDS Naturals, Sequences

CONSTANTS
    Context,    \* the calls of NewShutdownContext
    Canceller,  \* the goroutines of users that call cancel of a context, each once
    Signal,     \* SIGINT and SIGTERM
    Parents     \* the contexts whose parent may end; the parent of the others is Background

ASSUME ShutdownContextAssumption ==
    /\ Parents \subseteq Context
    /\ Signal \cap (Canceller \cup {"parent", "canceled", "none", "listener"}) = {}
    /\ Canceller \cap {"parent", "canceled", "none", "listener"} = {}

\* Who may call cancel, and what context.Cause may be afterwards: a signal, what the
\* user gave as cause, the parent's cause, or context.Canceled for no cause.
Thread == Canceller \cup {"listener"}
Cause == Signal \cup Canceller \cup {"parent", "canceled"}

VARIABLES
    created,      \* the contexts there are
    subscribed,   \* those whose channel gets signals
    signalsChan,  \* the signals in each channel
    chanClosed,   \* those whose channel is closed
    once,         \* the sync.Once of each: unused, running or done
    at,           \* where each thread is in cancel: idle, called, a step of Steps, returned
    arg,          \* the cause it was called with
    cause,        \* context.Cause of each; none: the context is not done
    parentDone,   \* those whose parent has ended
    panicked      \* a channel was closed twice, or sent to when closed

channel == <<subscribed, signalsChan, chanClosed>>
vars == <<created, channel, once, at, arg, cause, parentDone, panicked>>

Capacity == 2
Done(x) == cause[x] # "none"

Init ==
    /\ created = {} /\ subscribed = {} /\ chanClosed = {}
    /\ signalsChan = [x \in Context |-> <<>>]
    /\ once = [x \in Context |-> "unused"]
    /\ at = [x \in Context |-> [t \in Thread |-> "idle"]]
    /\ arg = [x \in Context |-> [t \in Thread |-> "none"]]
    /\ cause = [x \in Context |-> "none"]
    /\ parentDone \in SUBSET Parents
    /\ panicked = FALSE

NewShutdownContext(x) ==
    /\ x \notin created
    /\ created' = created \cup {x}
    /\ subscribed' = subscribed \cup {x}
    /\ cause' = [cause EXCEPT ![x] = IF x \in parentDone THEN "parent" ELSE "none"]
    /\ UNCHANGED <<signalsChan, chanClosed, once, at, arg, parentDone, panicked>>

\* The runtime sends without waiting: a full channel misses the signal.
Deliver(sig) ==
    /\ subscribed # {}
    /\ signalsChan' = [x \in Context |->
          IF x \in subscribed /\ Len(signalsChan[x]) < Capacity
          THEN Append(signalsChan[x], sig) ELSE signalsChan[x]]
    /\ panicked' = (panicked \/ subscribed \cap chanClosed # {})
    /\ UNCHANGED <<created, subscribed, chanClosed, once, at, arg, cause, parentDone>>

ParentEnds(x) ==
    /\ x \in Parents \ parentDone
    /\ parentDone' = parentDone \cup {x}
    /\ UNCHANGED <<created, channel, once, at, arg, cause, panicked>>

\* A parent closes its own channel before it cancels its children.
ParentCancels(x) ==
    /\ x \in created \cap parentDone /\ ~Done(x)
    /\ cause' = [cause EXCEPT ![x] = "parent"]
    /\ UNCHANGED <<created, channel, once, at, arg, parentDone, panicked>>

-----------------------------------------------------------------------------
(* cancel *)

CallCancel(x, t, c) ==
    /\ x \in created /\ at[x][t] = "idle"
    /\ at' = [at EXCEPT ![x][t] = "called"]
    /\ arg' = [arg EXCEPT ![x][t] = c]
    /\ UNCHANGED <<created, subscribed, chanClosed, once, cause, parentDone, panicked>>

\* context.Cause(parent), which is nil while the parent goes on.
ParentCause_Mutant(x) == "canceled"   \* cancel(nil)
ParentCause(x) == IF x \in parentDone THEN "parent" ELSE "canceled"

ListenerReceivesSignal(x) ==
    /\ signalsChan[x] # <<>>
    /\ CallCancel(x, "listener", Head(signalsChan[x]))
    /\ signalsChan' = [signalsChan EXCEPT ![x] = Tail(@)]

ListenerFindsChanClosed(x) ==
    /\ signalsChan[x] = <<>> /\ x \in chanClosed
    /\ CallCancel(x, "listener", ParentCause(x))
    /\ UNCHANGED signalsChan

ListenerFindsParentDone(x) ==
    /\ x \in parentDone
    /\ CallCancel(x, "listener", ParentCause(x))
    /\ UNCHANGED signalsChan

Cancel(x, t) == CallCancel(x, t, t) /\ UNCHANGED signalsChan

\* What the first caller does within once.Do, in this order.
Steps_Mutant1 == <<"close", "cancelInternal", "stop">>
Steps_Mutant2 == <<"stop", "cancelInternal">>   \* forgets to close the channel
Steps == <<"stop", "cancelInternal", "close">>

\* The thread makes the step, if it is the first one to call or has made the step before,
\* and leaves once.Do after the last.
Performs(x, t, step) ==
    \E i \in DOMAIN Steps :
        /\ Steps[i] = step
        /\ IF i = 1 THEN at[x][t] = "called" /\ once[x] = "unused" ELSE at[x][t] = Steps[i - 1]
        /\ at' = [at EXCEPT ![x][t] = IF i = Len(Steps) THEN "returned" ELSE step]
        /\ once' = [once EXCEPT ![x] = IF i = Len(Steps) THEN "done" ELSE "running"]
        /\ UNCHANGED <<created, signalsChan, arg, parentDone>>

StopSignals(x, t) ==
    /\ Performs(x, t, "stop")
    /\ subscribed' = subscribed \ {x}
    /\ UNCHANGED <<chanClosed, cause, panicked>>

\* A context keeps the cause that it has.
CancelInternal(x, t) ==
    /\ Performs(x, t, "cancelInternal")
    /\ cause' = [cause EXCEPT ![x] = IF Done(x) THEN @ ELSE arg[x][t]]
    /\ UNCHANGED <<subscribed, chanClosed, panicked>>

CloseChan(x, t) ==
    /\ Performs(x, t, "close")
    /\ chanClosed' = chanClosed \cup {x}
    /\ panicked' = (panicked \/ x \in chanClosed)
    /\ UNCHANGED <<subscribed, cause>>

OnceIsOver_Mutant(x) == once[x] # "unused"   \* a flag in place of sync.Once
OnceIsOver(x) == once[x] = "done"

\* Every other caller waits for the first one.
ReturnFromOnce(x, t) ==
    /\ at[x][t] = "called" /\ OnceIsOver(x)
    /\ at' = [at EXCEPT ![x][t] = "returned"]
    /\ UNCHANGED <<created, channel, once, arg, cause, parentDone, panicked>>

-----------------------------------------------------------------------------

CancelStep(x, t) == StopSignals(x, t) \/ CancelInternal(x, t) \/ CloseChan(x, t) \/ ReturnFromOnce(x, t)
ListenerReceives(x) == ListenerReceivesSignal(x) \/ ListenerFindsChanClosed(x) \/ ListenerFindsParentDone(x)
ContextStep(x) == ParentCancels(x) \/ ListenerReceives(x) \/ \E t \in Thread : CancelStep(x, t)

\* Everybody is through with cancel, the listeners too.
Finished == (\A x \in Context, t \in Thread : at[x][t] = "returned") /\ UNCHANGED vars

Next ==
    \/ \E x \in Context : \/ NewShutdownContext(x) \/ ParentEnds(x) \/ ContextStep(x)
                          \/ \E t \in Canceller : Cancel(x, t)
    \/ \E sig \in Signal : Deliver(sig)
    \/ Finished

\* Every goroutine goes on when it can. Nobody need call cancel or send a signal.
Fairness ==
    \A x \in Context :
        /\ WF_vars(ParentCancels(x)) /\ WF_vars(ListenerReceives(x))
        /\ \A t \in Thread : WF_vars(CancelStep(x, t))

Spec == Init /\ [][Next]_vars
FairSpec == Spec /\ Fairness

-----------------------------------------------------------------------------
(* Properties *)

\* The channel is closed once, and nothing is sent to it afterwards: the runtime would
\* panic in whatever goroutine handles the signal.
NeverPanics == ~panicked

\* When cancel has returned, whoever of several callers was first, the context is done
\* and signals are no longer caught, as TestShutdownContext_Cancel expects
\* (shutdown_context_test.go:69); and who sees it done can rely on that, unless it was
\* the parent that ended (:50).
CancelIsOverOnReturn ==
    \A x \in Context :
        /\ (\E t \in Thread : at[x][t] = "returned") => Done(x) /\ x \notin subscribed
        /\ Done(x) /\ cause[x] # "parent" => x \notin subscribed

\* context.Cause tells why the context ended: a signal only if the listener has received
\* it, a user's cause only if that user called cancel, the parent's only if the parent has
\* ended, and never none at all (context.Canceled), which only a race could let through.
CauseTellsWhy ==
    \A x \in Context : Done(x) =>
        \/ cause[x] \in Signal /\ arg[x]["listener"] = cause[x]
        \/ cause[x] \in Canceller /\ at[x][cause[x]] # "idle"
        \/ cause[x] = "parent" /\ x \in parentDone

\* A signal that was caught, a call of cancel, or the end of the parent ends the context,
\* its subscription and its goroutine: nothing is lost, and nothing leaks.
IsEnding(x) ==
    x \in created /\ (signalsChan[x] # <<>> \/ x \in parentDone \/ \E t \in Thread : at[x][t] # "idle")
IsOver(x) == Done(x) /\ x \notin subscribed /\ at[x]["listener"] = "returned"
EndsForGood == \A x \in Context : IsEnding(x) ~> IsOver(x)
=============================================================================
