---------------------------- MODULE RunnerProofs ----------------------------
(***************************************************************************)
(* Sessions of one Runner do not overlap, however many goroutines call Run *)
(* and whatever the session does: isRunning is set exactly while one of    *)
(* them is in a session.                                                   *)
(***************************************************************************)
EXTENDS Runner, TLAPS

FlagTellsSession == isRunning = InSession

GuardInv ==
    /\ caller \in [Caller -> {"idle", "running", "returned", "refused"}]
    /\ isRunning \in BOOLEAN
    /\ FlagTellsSession
    /\ OneSessionAtATime

LEMMA GuardInit == RunnerInit => GuardInv
BY DEF RunnerInit, GuardInv, FlagTellsSession, InSession, OneSessionAtATime

LEMMA GuardNext == GuardInv /\ [RunnerNext]_runnerVars => GuardInv'
<1> SUFFICES ASSUME GuardInv, [RunnerNext]_runnerVars PROVE GuardInv'
  OBVIOUS
<1> USE DEF GuardInv, FlagTellsSession, InSession, OneSessionAtATime
<1>1. ASSUME NEW c \in Caller, CallRefused(c) PROVE GuardInv'
  BY <1>1 DEF CallRefused
<1>2. ASSUME NEW c \in Caller, CallRun(c) PROVE GuardInv'
  <2>1. /\ caller' = [caller EXCEPT ![c] = "running"] /\ isRunning' = TRUE
        /\ \A d \in Caller : caller[d] # "running"
    BY <1>2 DEF CallRun, Guard
  <2> QED
    BY <2>1
<1>3. ASSUME NEW c \in Caller, RunReturns(c) PROVE GuardInv'
  <2>1. /\ caller[c] = "running" /\ caller' = [caller EXCEPT ![c] = "returned"]
        /\ isRunning' = FALSE
    BY <1>3 DEF RunReturns, ResetsIsRunning
  <2>2. \A d \in Caller : caller'[d] # "running"
    BY <2>1
  <2> QED
    BY <2>1, <2>2
<1>4. CASE UNCHANGED <<isRunning, caller>>
  BY <1>4
<1> QED
  BY <1>1, <1>2, <1>3, <1>4 DEF RunnerNext, SessionNext, AllAnswered, runnerVars

\* Sessions of one Runner never overlap.
THEOREM SessionsDoNotOverlap == RunnerSpec => []OneSessionAtATime
<1>1. GuardInv => OneSessionAtATime
  BY DEF GuardInv
<1> QED
  BY <1>1, GuardInit, GuardNext, PTL DEF RunnerSpec

\* A call of Run is refused as already running only during a session of the Runner.
THEOREM RefusedOnlyInSession == RunnerSpec => RefusedOnlyWhileRunning
<1>1. GuardInv /\ [RunnerNext]_runnerVars =>
        [\A c \in Caller : caller[c] = "idle" /\ caller'[c] = "refused" => InSession]_runnerVars
  <2> SUFFICES ASSUME GuardInv, RunnerNext, NEW c \in Caller, caller[c] = "idle", caller'[c] = "refused"
               PROVE  InSession
    OBVIOUS
  <2>1. ASSUME NEW d \in Caller, CallRefused(d) PROVE InSession
    BY <2>1 DEF CallRefused, Guard, GuardInv, FlagTellsSession
  <2>2. ASSUME NEW d \in Caller, CallRun(d) PROVE FALSE
    BY <2>2 DEF CallRun, GuardInv
  <2>3. ASSUME NEW d \in Caller, RunReturns(d) PROVE FALSE
    BY <2>3 DEF RunReturns, GuardInv
  <2>4. ~UNCHANGED caller
    OBVIOUS
  <2> QED
    BY <2>1, <2>2, <2>3, <2>4 DEF RunnerNext, SessionNext, AllAnswered, runnerVars
<1> QED
  BY <1>1, GuardInit, GuardNext, PTL DEF RunnerSpec, RefusedOnlyWhileRunning
=============================================================================
