------------------------ MODULE ShutdownContextProofs ------------------------
(***************************************************************************)
(* However many users call cancel, whichever signals arrive and whenever   *)
(* the parents end, a context is canceled once and in order, and tells     *)
(* why. It all rests on who is inside of once.Do (Exclusive), and how far  *)
(* (Progress).                                                             *)
(***************************************************************************)
EXTENDS ShutdownContext, TLAPS

Stages == {"idle", "called", "stop", "cancelInternal", "returned"}

TypeOK ==
    /\ created \subseteq Context /\ subscribed \subseteq created /\ chanClosed \subseteq created
    /\ signalsChan \in [Context -> Seq(Signal)]
    /\ once \in [Context -> {"unused", "running", "done"}]
    /\ at \in [Context -> [Thread -> Stages]]
    /\ arg \in [Context -> [Thread -> Cause \cup {"none"}]]
    /\ cause \in [Context -> Cause \cup {"none"}]
    /\ parentDone \subseteq Parents

\* Nobody has to do with a context that is not there.
Untouched ==
    \A x \in Context \ created : cause[x] = "none" /\ once[x] = "unused" /\ \A t \in Thread : at[x][t] = "idle"

Inside(x, t) == at[x][t] \in {"stop", "cancelInternal"}

\* One thread at a time is inside of once.Do, and it is marked as running meanwhile.
Exclusive ==
    \A x \in Context :
        /\ \A t, u \in Thread : Inside(x, t) /\ Inside(x, u) => t = u
        /\ \A t \in Thread : /\ Inside(x, t) => once[x] = "running"
                             /\ at[x][t] = "returned" => once[x] = "done"

\* What has been done so far.
Progress ==
    \A x \in Context :
        /\ x \in chanClosed <=> once[x] = "done"
        /\ once[x] # "unused" => x \notin subscribed
        /\ once[x] = "done" => Done(x)
        /\ \A t \in Thread : at[x][t] = "cancelInternal" => Done(x)

\* Whoever has called gave a reason.
Reasons ==
    \A x \in Context :
        /\ \A t \in Canceller : at[x][t] # "idle" => arg[x][t] = t
        /\ at[x]["listener"] # "idle" =>
              \/ arg[x]["listener"] \in Signal
              \/ arg[x]["listener"] = "parent" /\ x \in parentDone
              \/ arg[x]["listener"] = "canceled" /\ once[x] = "done"

\* The cause is the reason of a caller, or the parent's.
CauseHasReason ==
    \A x \in Context : Done(x) =>
        \/ cause[x] = "parent" /\ x \in parentDone
        \/ \E t \in Thread : at[x][t] # "idle" /\ arg[x][t] = cause[x] /\ cause[x] # "canceled" /\ once[x] # "unused"

IInv == TypeOK /\ Untouched /\ Exclusive /\ Progress /\ Reasons /\ CauseHasReason /\ NeverPanics

-----------------------------------------------------------------------------

LEMMA InitOK == Init => IInv
  BY ShutdownContextAssumption DEF Init, IInv, TypeOK, Untouched, Exclusive, Inside, Progress, Reasons,
     CauseHasReason, Done, NeverPanics, Stages, Thread

\* What the three steps within once.Do do to the calls.
LEMMA PerformsOK ==
    ASSUME IInv, NEW x \in Context, NEW t \in Thread, NEW step, Performs(x, t, step)
    PROVE  /\ UNCHANGED <<created, signalsChan, arg, parentDone>>
           /\ \/ step = "stop" /\ at[x][t] = "called" /\ once[x] = "unused" /\ once' = [once EXCEPT ![x] = "running"]
                               /\ at' = [at EXCEPT ![x][t] = "stop"]
              \/ step = "cancelInternal" /\ at[x][t] = "stop" /\ once[x] = "running" /\ once' = [once EXCEPT ![x] = "running"]
                               /\ at' = [at EXCEPT ![x][t] = "cancelInternal"]
              \/ step = "close" /\ at[x][t] = "cancelInternal" /\ once[x] = "running" /\ once' = [once EXCEPT ![x] = "done"]
                               /\ at' = [at EXCEPT ![x][t] = "returned"]
<1>1. PICK i \in DOMAIN Steps : /\ Steps[i] = step
                                /\ IF i = 1 THEN at[x][t] = "called" /\ once[x] = "unused" ELSE at[x][t] = Steps[i - 1]
                                /\ at' = [at EXCEPT ![x][t] = IF i = Len(Steps) THEN "returned" ELSE step]
                                /\ once' = [once EXCEPT ![x] = IF i = Len(Steps) THEN "done" ELSE "running"]
                                /\ UNCHANGED <<created, signalsChan, arg, parentDone>>
  BY DEF Performs
<1>2. i \in {1, 2, 3} /\ Len(Steps) = 3 /\ Steps[1] = "stop" /\ Steps[2] = "cancelInternal" /\ Steps[3] = "close"
  BY <1>1 DEF Steps
<1>3. i # 1 => Inside(x, t)
  BY <1>1, <1>2 DEF Inside
<1>4. i # 1 => once[x] = "running"
  BY <1>3 DEF IInv, Exclusive
<1>5. CASE i = 1
  BY <1>1, <1>2, <1>5
<1>6. CASE i = 2
  <2>1. at[x][t] = Steps[1] /\ step = Steps[2] /\ once[x] = "running"
    BY <1>1, <1>4, <1>6
  <2>2. i # Len(Steps)
    BY <1>2, <1>6
  <2> QED
    BY <1>1, <1>2, <2>1, <2>2
<1>7. CASE i = 3
  <2>1. at[x][t] = Steps[2] /\ step = Steps[3] /\ once[x] = "running"
    BY <1>1, <1>4, <1>7
  <2>2. i = Len(Steps)
    BY <1>2, <1>7
  <2> QED
    BY <1>1, <1>2, <2>1, <2>2
<1> QED
  BY <1>2, <1>5, <1>6, <1>7

LEMMA CreateOK == ASSUME IInv, NEW x \in Context, NewShutdownContext(x) PROVE IInv'
<1> USE DEF NewShutdownContext, IInv, Thread
<1>1. TypeOK'
  BY DEF TypeOK, Cause
<1>2. at[x] = at'[x] /\ (\A t \in Thread : at[x][t] = "idle") /\ once[x] = "unused" /\ cause[x] = "none"
  BY DEF Untouched
<1>3. Untouched' /\ Exclusive'
  BY DEF TypeOK, Untouched, Exclusive, Inside
<1>4. Progress' /\ Reasons'
  BY <1>2 DEF TypeOK, Progress, Reasons, Done
<1>5. CauseHasReason'
  BY <1>2 DEF TypeOK, CauseHasReason, Done
<1> QED
  BY <1>1, <1>3, <1>4, <1>5 DEF NeverPanics

\* Nothing is sent to a closed channel: it is not subscribed any more.
LEMMA DeliverOK == ASSUME IInv, NEW sig \in Signal, Deliver(sig) PROVE IInv'
<1> USE DEF Deliver, IInv
<1>1. TypeOK'
  <2>1. \A x \in Context : Append(signalsChan[x], sig) \in Seq(Signal)
    BY DEF TypeOK
  <2> QED
    BY <2>1 DEF TypeOK
<1>2. Untouched' /\ Exclusive' /\ Reasons'
  BY DEF Untouched, Exclusive, Inside, Reasons
<1>3. Progress' /\ CauseHasReason'
  BY DEF Progress, CauseHasReason, Done
<1>4. subscribed \cap chanClosed = {}
  BY DEF TypeOK, Progress
<1> QED
  BY <1>1, <1>2, <1>3, <1>4 DEF NeverPanics

LEMMA ParentOK == ASSUME IInv, NEW x \in Context, ParentEnds(x) \/ ParentCancels(x) PROVE IInv'
<1> USE DEF IInv, channel
<1>1. CASE ParentEnds(x)
  <2>1. TypeOK' /\ Untouched' /\ Exclusive'
    BY <1>1 DEF ParentEnds, TypeOK, Untouched, Exclusive, Inside
  <2>2. Progress' /\ Reasons' /\ CauseHasReason' /\ NeverPanics'
    BY <1>1 DEF ParentEnds, Progress, Reasons, CauseHasReason, Done, NeverPanics
  <2> QED
    BY <2>1, <2>2
<1>2. CASE ParentCancels(x)
  <2>1. TypeOK' /\ Untouched' /\ Exclusive'
    BY <1>2 DEF ParentCancels, TypeOK, Cause, Untouched, Exclusive, Inside
  <2>2. Progress' /\ Reasons' /\ CauseHasReason' /\ NeverPanics'
    BY <1>2, ShutdownContextAssumption DEF ParentCancels, TypeOK, Progress, Reasons, CauseHasReason, Done, NeverPanics
  <2> QED
    BY <2>1, <2>2
<1> QED
  BY <1>1, <1>2

\* A thread calls cancel with a reason.
LEMMA CallOK ==
    ASSUME IInv, NEW x \in Context, NEW t \in Thread, NEW c \in Cause, CallCancel(x, t, c),
           signalsChan' \in [Context -> Seq(Signal)],
           \/ t \in Canceller /\ c = t
           \/ /\ t = "listener"
              /\ c \in Signal \/ (c = "parent" /\ x \in parentDone) \/ (c = "canceled" /\ once[x] = "done")
    PROVE  IInv'
<1> USE DEF CallCancel, IInv
<1>1. TypeOK'
  BY DEF TypeOK, Stages
<1>2. Untouched' /\ Exclusive'
  BY DEF TypeOK, Untouched, Exclusive, Inside
<1>3. Progress' /\ NeverPanics'
  BY DEF TypeOK, Progress, Done, NeverPanics
<1>4. Reasons'
  BY ShutdownContextAssumption DEF TypeOK, Reasons, Thread
<1>5. CauseHasReason'
  BY DEF TypeOK, CauseHasReason, Done
<1> QED
  BY <1>1, <1>2, <1>3, <1>4, <1>5

LEMMA CallsOK ==
    ASSUME IInv, NEW x \in Context, ListenerReceives(x) \/ \E t \in Canceller : Cancel(x, t)
    PROVE  IInv'
<1> USE DEF IInv
<1>1. CASE ListenerReceivesSignal(x)
  <2>1. Head(signalsChan[x]) \in Signal /\ Tail(signalsChan[x]) \in Seq(Signal)
    BY <1>1 DEF ListenerReceivesSignal, TypeOK
  <2>2. signalsChan' \in [Context -> Seq(Signal)]
    BY <1>1, <2>1 DEF ListenerReceivesSignal, TypeOK
  <2> QED
    BY <1>1, <2>1, <2>2, CallOK DEF ListenerReceivesSignal, Thread, Cause
<1>2. CASE ListenerFindsChanClosed(x)
  <2>1. once[x] = "done"
    BY <1>2 DEF ListenerFindsChanClosed, Progress
  <2> QED
    BY <1>2, <2>1, CallOK DEF ListenerFindsChanClosed, ParentCause, TypeOK, Thread, Cause
<1>3. CASE ListenerFindsParentDone(x)
  BY <1>3, CallOK DEF ListenerFindsParentDone, ParentCause, TypeOK, Thread, Cause
<1>4. ASSUME NEW t \in Canceller, Cancel(x, t) PROVE IInv'
  BY <1>4, CallOK DEF Cancel, TypeOK, Thread, Cause
<1> QED
  BY <1>1, <1>2, <1>3, <1>4 DEF ListenerReceives

LEMMA StopSignalsOK == ASSUME IInv, NEW x \in Context, NEW t \in Thread, StopSignals(x, t) PROVE IInv'
<1>1. /\ UNCHANGED <<created, signalsChan, arg, parentDone, chanClosed, cause, panicked>>
      /\ at[x][t] = "called" /\ once[x] = "unused" /\ once' = [once EXCEPT ![x] = "running"]
      /\ at' = [at EXCEPT ![x][t] = "stop"] /\ subscribed' = subscribed \ {x}
  BY PerformsOK DEF StopSignals
<1> USE DEF IInv
<1>2. TypeOK'
  BY <1>1 DEF TypeOK, Stages
<1>3. Untouched' /\ Exclusive'
  BY <1>1 DEF TypeOK, Untouched, Exclusive, Inside
<1>4. Progress' /\ NeverPanics'
  BY <1>1 DEF TypeOK, Progress, Done, NeverPanics
<1>5. Reasons' /\ CauseHasReason'
  BY <1>1 DEF TypeOK, Reasons, CauseHasReason, Done, Thread
<1> QED
  BY <1>2, <1>3, <1>4, <1>5

LEMMA CancelInternalOK == ASSUME IInv, NEW x \in Context, NEW t \in Thread, CancelInternal(x, t) PROVE IInv'
<1>1. /\ UNCHANGED <<created, signalsChan, arg, parentDone, chanClosed, subscribed, panicked>>
      /\ at[x][t] = "stop" /\ once[x] = "running" /\ once' = [once EXCEPT ![x] = "running"]
      /\ at' = [at EXCEPT ![x][t] = "cancelInternal"]
      /\ cause' = [cause EXCEPT ![x] = IF Done(x) THEN @ ELSE arg[x][t]]
  BY PerformsOK DEF CancelInternal
<1> USE DEF IInv
<1>2. arg[x][t] \in Signal \cup Canceller \/ (arg[x][t] = "parent" /\ x \in parentDone)
  BY <1>1 DEF Reasons, Thread
<1>3. arg[x][t] \in Cause /\ arg[x][t] # "none" /\ arg[x][t] # "canceled"
  BY <1>2, ShutdownContextAssumption DEF Cause
<1>4. TypeOK'
  BY <1>1, <1>3 DEF TypeOK, Stages
<1>5. Untouched' /\ Exclusive'
  BY <1>1 DEF TypeOK, Untouched, Exclusive, Inside
<1>6. Progress' /\ NeverPanics'
  BY <1>1, <1>3 DEF TypeOK, Progress, Done, NeverPanics
<1>7. Reasons'
  BY <1>1 DEF TypeOK, Reasons, Thread
<1>8. CauseHasReason'
  BY <1>1, <1>3 DEF TypeOK, CauseHasReason, Done
<1> QED
  BY <1>4, <1>5, <1>6, <1>7, <1>8

LEMMA CloseChanOK == ASSUME IInv, NEW x \in Context, NEW t \in Thread, CloseChan(x, t) PROVE IInv'
<1>1. /\ UNCHANGED <<created, signalsChan, arg, parentDone, subscribed, cause>>
      /\ at[x][t] = "cancelInternal" /\ once[x] = "running" /\ once' = [once EXCEPT ![x] = "done"]
      /\ at' = [at EXCEPT ![x][t] = "returned"]
      /\ chanClosed' = chanClosed \cup {x} /\ panicked' = (panicked \/ x \in chanClosed)
  BY PerformsOK DEF CloseChan
<1> USE DEF IInv
<1>2. x \in created /\ x \notin chanClosed /\ Done(x)
  BY <1>1 DEF Untouched, Progress
<1>3. TypeOK'
  BY <1>1, <1>2 DEF TypeOK, Stages
<1>4. Untouched' /\ Exclusive'
  BY <1>1, <1>2 DEF TypeOK, Untouched, Exclusive, Inside
<1>5. Progress' /\ NeverPanics'
  BY <1>1, <1>2 DEF TypeOK, Progress, Done, NeverPanics
<1>6. Reasons' /\ CauseHasReason'
  BY <1>1 DEF TypeOK, Reasons, CauseHasReason, Done, Thread
<1> QED
  BY <1>3, <1>4, <1>5, <1>6

LEMMA ReturnFromOnceOK == ASSUME IInv, NEW x \in Context, NEW t \in Thread, ReturnFromOnce(x, t) PROVE IInv'
<1> USE DEF IInv, ReturnFromOnce, OnceIsOver, channel
<1>1. TypeOK' /\ Untouched' /\ Exclusive'
  BY DEF TypeOK, Stages, Untouched, Exclusive, Inside
<1>2. Progress' /\ NeverPanics'
  BY DEF TypeOK, Progress, Done, NeverPanics
<1>3. Reasons' /\ CauseHasReason'
  BY DEF TypeOK, Reasons, CauseHasReason, Done, Thread
<1> QED
  BY <1>1, <1>2, <1>3

LEMMA NextOK == IInv /\ [Next]_vars => IInv'
<1> SUFFICES ASSUME IInv, [Next]_vars PROVE IInv'
  OBVIOUS
<1>1. ASSUME NEW x \in Context, NewShutdownContext(x) PROVE IInv'
  BY <1>1, CreateOK
<1>2. ASSUME NEW x \in Context, ParentEnds(x) \/ ParentCancels(x) PROVE IInv'
  BY <1>2, ParentOK
<1>3. ASSUME NEW x \in Context, ListenerReceives(x) \/ \E t \in Canceller : Cancel(x, t) PROVE IInv'
  BY <1>3, CallsOK
<1>4. ASSUME NEW x \in Context, NEW t \in Thread, CancelStep(x, t) PROVE IInv'
  BY <1>4, StopSignalsOK, CancelInternalOK, CloseChanOK, ReturnFromOnceOK DEF CancelStep
<1>5. ASSUME NEW sig \in Signal, Deliver(sig) PROVE IInv'
  BY <1>5, DeliverOK
<1>6. CASE UNCHANGED vars
  BY <1>6 DEF vars, channel, IInv, TypeOK, Untouched, Exclusive, Inside, Progress, Reasons, CauseHasReason, Done, NeverPanics
<1> QED
  BY <1>1, <1>2, <1>3, <1>4, <1>5, <1>6 DEF Next, ContextStep, Finished

LEMMA Inductive == Spec => []IInv
<1> QED
  BY InitOK, NextOK, PTL DEF Spec

-----------------------------------------------------------------------------

\* A context's channel is closed once, after its subscription has ended.
THEOREM NoPanic == Spec => []NeverPanics
<1>1. IInv => NeverPanics
  BY DEF IInv
<1> QED
  BY <1>1, Inductive, PTL

\* After cancel, whoever called it, the context is done and signals are not caught.
THEOREM CancelIsComplete == Spec => []CancelIsOverOnReturn
<1>1. IInv => CancelIsOverOnReturn
  BY DEF IInv, CancelIsOverOnReturn, Exclusive, Progress, CauseHasReason
<1> QED
  BY <1>1, Inductive, PTL

\* A signal, a call of cancel or the end of the parent: the cause tells which one it was.
THEOREM CauseIsTrue == Spec => []CauseTellsWhy
<1>1. ASSUME IInv, NEW x \in Context, Done(x)
      PROVE  \/ cause[x] \in Signal /\ arg[x]["listener"] = cause[x]
             \/ cause[x] \in Canceller /\ at[x][cause[x]] # "idle"
             \/ cause[x] = "parent" /\ x \in parentDone
  BY <1>1, ShutdownContextAssumption DEF IInv, Reasons, CauseHasReason, Thread
<1>2. IInv => CauseTellsWhy
  BY <1>1 DEF CauseTellsWhy
<1> QED
  BY <1>2, Inductive, PTL
=============================================================================
