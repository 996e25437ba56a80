--------------------------- MODULE RunnerSession ---------------------------
(***************************************************************************)
(* One call of Runner.Run past its guard: the session that starts, waits   *)
(* for and closes the lifecycle hooks of a component graph                 *)
(* (runner_session.go, lc_node.go).                                        *)
(*                                                                         *)
(* A single goroutine owns the state. It alternates between a select on    *)
(* three unbuffered channels and the run context, and handlers that call   *)
(* each other recursively. The recursion is modelled by its call stack:    *)
(* agenda holds the calls still to make, the next one first. Every caller  *)
(* passes a result done = true straight on to Run and ignores done =       *)
(* false, and done is always the value of isAllDone(), so a call either    *)
(* leaves the rest of the agenda as it is or ends the session.             *)
(*                                                                         *)
(* Start, wait and Close of a hook run in goroutines of their own, which   *)
(* block on a channel until the loop receives: startResults, waitResults   *)
(* and closeResults are the nodes whose goroutine is blocked in that send. *)
(*                                                                         *)
(* An operator X_Mutant is X with a plausible mistake; nothing uses it.    *)
(***************************************************************************)
EXTENDS Integers, Sequences, FiniteSets

CONSTANTS
    Node,             \* what lifecycle hooks there can be
    Graphs,           \* the graphs of hooks: who depends on whom, and each hook's kind
    SharedHook,       \* the Runnables whose adapter another Runner may be running
    TimedStart,       \* the nodes that have a start timeout
    NilResultAsError  \* the nodes for which a nil Run result is an error

\* What UseLifecycle can register for one hook.
Kinds == {"Starter", "StarterCloser", "Closer", "Runnable", "ReadinessRunnable"}

ASSUME GraphsAssumption ==
    /\ IsFiniteSet(Node)
    /\ \A g \in Graphs : \E nodes \in SUBSET Node :
          /\ g.dependsOn \in [nodes -> SUBSET nodes]
          /\ \A n \in nodes : n \notin g.dependsOn[n]
          /\ g.kind \in [nodes -> Kinds]

VARIABLES
    dependsOn, kind,  \* the graph of this session, fixed
    pc,               \* where Run is: run, starting, loop, loopAfterCtxDone, returned
    agenda,           \* the calls the session's goroutine has still to make
    start,            \* isStarting and isStartDone of each node
    wait,             \* isWaiting and isWaitDone
    close,            \* isClosing and isCloseDone
    startCtx,         \* the start context: none, active or cancelled
    closedDependencies, doneDependents, readyDeps,
    remainingWaits, remainingCloses, remainingReadySignals,
    shutdownErr,
    result,           \* what Run returned
    onReadyCalls, onShutdownCalls,
    startCall, waitCall, closeCall,           \* the calls into the user's hooks
    startResults, waitResults, closeResults,  \* goroutines blocked in a send
    ctxDone           \* the context given to Run is cancelled

graph == <<dependsOn, kind>>
doneCounters == <<closedDependencies, doneDependents>>
remaining == <<remainingWaits, remainingCloses>>
outcome == <<shutdownErr, result>>
observed == <<onReadyCalls, onShutdownCalls>>
calls == <<startCall, waitCall, closeCall>>
channels == <<startResults, waitResults, closeResults>>
env == <<calls, channels, ctxDone>>
nodes == <<start, wait, close, startCtx, doneCounters, readyDeps>>
stats == <<remaining, remainingReadySignals>>
vars == <<graph, pc, agenda, nodes, stats, outcome, observed, env>>

-----------------------------------------------------------------------------
(* The graph, the hooks and the phases of a node *)

LcNodes == DOMAIN dependsOn
Dependents(n) == {m \in LcNodes : n \in dependsOn[m]}
Roots == {n \in LcNodes : Dependents(n) = {}}
Leaves == {n \in LcNodes : dependsOn[n] = {}}

HasStarter(n) == kind[n] # "Closer"
HasWaiter(n) == kind[n] \in {"Runnable", "ReadinessRunnable"}
HasCloser(n) == kind[n] # "Starter"
TrustedAsyncStarter(n) == kind[n] = "Runnable"

Done == {"skipped", "completed"}
Phase == {"none", "active"} \cup Done
IsDone(n) == wait[n] \in Done /\ close[n] \in Done

AllDone_Mutant == remainingWaits = 0   \* forgets the closes
AllDone == remainingWaits + remainingCloses = 0
ShuttingDown == shutdownErr # "nil"

-----------------------------------------------------------------------------
(* The call stack *)

Call(op, ns, err) == [op |-> op, nodes |-> ns, err |-> err]
StartLeaves(ns) == Call("startLeaves", ns, "nil")
StartDependents(ns) == Call("startDependents", ns, "nil")
Wait(n) == Call("wait", {n}, "nil")
CloseIfShuttingDown(n) == Call("closeIfShuttingDown", {n}, "nil")
Close(ns) == Call("close", ns, "nil")
ShutDown(err) == Call("shutDown", {}, err)
\* What is left of a loop over no node: return isAllDone().
ReturnIsAllDone == Close({})

CallIs(op) == agenda # <<>> /\ Head(agenda).op = op
Increment_Mutant(f, ns) == [m \in Node |-> IF m \in ns THEN f[m] - 1 ELSE f[m]]
Increment(f, ns) == [m \in Node |-> IF m \in ns THEN f[m] + 1 ELSE f[m]]

-----------------------------------------------------------------------------
(* Handlers: the effect of one call up to the calls it makes in its turn,    *)
(* which it leaves on the agenda in front of `rest`.                         *)

\* onNodeDependenciesHaveDoneDependent, for a node whose phases are both over.
CountDoneDependent(n) == doneDependents' = Increment(doneDependents, dependsOn[n])

\* Ends a start context that was created.
Cancelled(c) == IF c = "none" THEN "none" ELSE "cancelled"

LastToGetReady == remainingReadySignals = 1
ReportsReady_Mutant == LastToGetReady   \* in a shutdown too
ReportsReady == ~ShuttingDown /\ LastToGetReady
NextToStart_Mutant(n) == IF LastToGetReady THEN {} ELSE Dependents(n)   \* in a shutdown too
NextToStart(n) == IF ShuttingDown \/ LastToGetReady THEN {} ELSE Dependents(n)

\* handleNodeStartResult and handleNodeIsReady: the node is ready.
HandleNodeStarted(n, phase, rest) ==
    /\ start' = [start EXCEPT ![n] = phase]
    /\ startCtx' = [startCtx EXCEPT ![n] = Cancelled(@)]
    /\ remainingReadySignals' = remainingReadySignals - 1
    /\ onReadyCalls' = IF ReportsReady THEN onReadyCalls + 1 ELSE onReadyCalls
    /\ agenda' = <<StartDependents(NextToStart(n)), Wait(n), CloseIfShuttingDown(n)>> \o rest
    /\ UNCHANGED <<graph, pc, wait, close, doneCounters, remaining, outcome, onShutdownCalls>>

\* handleNodeStartError: wait and close are skipped, the session shuts down.
HandleNodeStartError(n, rest) ==
    /\ start' = [start EXCEPT ![n] = "completed"]
    /\ startCtx' = [startCtx EXCEPT ![n] = Cancelled(@)]
    /\ wait' = [wait EXCEPT ![n] = "skipped"]
    /\ close' = [close EXCEPT ![n] = "skipped"]
    /\ remainingWaits' = remainingWaits - 1
    /\ remainingCloses' = remainingCloses - 1
    /\ CountDoneDependent(n)
    /\ agenda' = <<ShutDown("hook"), Close(dependsOn[n])>> \o rest
    /\ UNCHANGED <<graph, pc, closedDependencies, remainingReadySignals, outcome, observed>>

DepsReady_Mutant(n) == readyDeps'[n] > 0 \/ dependsOn[n] = {}
DepsReady(n) == readyDeps'[n] >= Cardinality(dependsOn[n])

\* tryStartNode; its caller has set readyDeps'.
TryStartNode(n, rest) ==
    \/ /\ start[n] # "none" \/ ~DepsReady(n)
       /\ agenda' = (IF start[n] \in Done THEN <<ReturnIsAllDone>> ELSE <<>>) \o rest
       /\ UNCHANGED <<graph, pc, start, wait, close, startCtx, doneCounters, stats, outcome,
                      observed, env>>
    \/ /\ start[n] = "none" /\ DepsReady(n)
       /\ \/ /\ ~HasStarter(n)
             /\ HandleNodeStarted(n, "skipped", rest)
             /\ UNCHANGED env
          \/ /\ TrustedAsyncStarter(n)
             /\ \/ /\ startCall' = [startCall EXCEPT ![n] = "ok"]
                   /\ HandleNodeStarted(n, "completed", rest)
                \/ /\ n \in SharedHook   \* errAlreadyRunning
                   /\ startCall' = [startCall EXCEPT ![n] = "failed"]
                   /\ HandleNodeStartError(n, rest)
             /\ UNCHANGED <<waitCall, closeCall, channels, ctxDone>>
          \/ /\ HasStarter(n) /\ ~TrustedAsyncStarter(n)
             /\ start' = [start EXCEPT ![n] = "active"]
             /\ startCtx' = [startCtx EXCEPT ![n] = "active"]
             /\ startCall' = [startCall EXCEPT ![n] = "running"]
             /\ agenda' = rest
             /\ UNCHANGED <<graph, pc, wait, close, doneCounters, stats, outcome, observed,
                            waitCall, closeCall, channels, ctxDone>>

\* A hook whose Run has returned needs no close.
EndsClose_Mutant(n, phase) == phase = "completed"
EndsClose(n, phase) == phase = "completed" /\ close[n] = "none"

\* When no wait is left, the session shuts down by itself to close what is open.
OnlyClosesLeft_Mutant == FALSE
OnlyClosesLeft == remainingWaits' = 0 /\ remainingCloses' > 0

\* handleNodeWaited: the wait is skipped, for a hook that has no Run, or the Run returned.
HandleNodeWaited(n, failed, phase, rest) ==
    /\ wait' = [wait EXCEPT ![n] = phase]
    /\ remainingWaits' = remainingWaits - 1
    /\ IF EndsClose(n, phase)
       THEN close' = [close EXCEPT ![n] = "skipped"] /\ remainingCloses' = remainingCloses - 1
       ELSE UNCHANGED <<close, remainingCloses>>
    /\ IF close'[n] \in Done THEN CountDoneDependent(n) ELSE UNCHANGED doneDependents
    /\ agenda' = (IF ShuttingDown THEN <<Close({n})>>
                  ELSE IF failed THEN <<ShutDown("hook"), Close({n})>>
                  ELSE IF OnlyClosesLeft THEN <<ShutDown("nil")>>
                  ELSE <<ReturnIsAllDone>>) \o rest
    /\ UNCHANGED <<graph, pc, start, startCtx, closedDependencies, readyDeps,
                   remainingReadySignals, outcome, observed>>

TryWaitForNode(n, rest) ==
    \/ /\ wait[n] # "none"
       /\ agenda' = (IF wait[n] \in Done THEN <<ReturnIsAllDone>> ELSE <<>>) \o rest
       /\ UNCHANGED <<graph, pc, nodes, stats, outcome, observed, env>>
    \/ /\ wait[n] = "none" /\ ~HasWaiter(n)
       /\ HandleNodeWaited(n, FALSE, "skipped", rest)
       /\ UNCHANGED env
    \/ /\ wait[n] = "none" /\ HasWaiter(n)
       /\ wait' = [wait EXCEPT ![n] = "active"]
       /\ waitCall' = [waitCall EXCEPT ![n] = "running"]
       /\ agenda' = rest
       /\ UNCHANGED <<graph, pc, start, close, startCtx, doneCounters, readyDeps, stats, outcome,
                      observed, startCall, closeCall, channels, ctxDone>>

EndsNode_Mutant(n) == TRUE   \* also when the Run goes on
EndsNode(n) == wait'[n] \in Done

\* handleNodeClosed; its caller has set wait'.
HandleNodeClosed(n, phase, rest) ==
    /\ close' = [close EXCEPT ![n] = phase]
    /\ remainingCloses' = remainingCloses - 1
    /\ closedDependencies' = Increment(closedDependencies, Dependents(n))
    /\ IF EndsNode(n)
       THEN CountDoneDependent(n) /\ agenda' = <<Close(dependsOn[n])>> \o rest
       ELSE UNCHANGED doneDependents /\ agenda' = rest

\* tryCloseNode from its OnClose event on. Close of a hook that has a Run only
\* cancels the Run's context, so it is called without a goroutine.
CloseHook(n, rest) ==
    \/ /\ ~HasCloser(n) \/ (HasWaiter(n) /\ wait'[n] \in Done)
       /\ HandleNodeClosed(n, "skipped", rest)
       /\ UNCHANGED closeCall
    \/ /\ HasWaiter(n) /\ wait'[n] \notin Done
       /\ closeCall' = [closeCall EXCEPT ![n] = "returned"]
       /\ HandleNodeClosed(n, "completed", rest)
    \/ /\ HasCloser(n) /\ ~HasWaiter(n)
       /\ close' = [close EXCEPT ![n] = "active"]
       /\ closeCall' = [closeCall EXCEPT ![n] = "running"]
       /\ agenda' = rest
       /\ UNCHANGED <<remainingCloses, doneCounters>>

\* Starting nodes are stopped by their start context, closing ones will report.
UnderWay(n) == start[n] = "active" \/ close[n] = "active"

\* A hook that was never started is closed only if it has no Starter.
NothingToClose_Mutant(n) == ~HasCloser(n)
NothingToClose(n) == HasStarter(n)

\* A Run goes on until all dependents of the node are done.
NeededByDependents_Mutant(n) == wait[n] = "active" /\ Dependents(n) # {} /\ doneDependents[n] = 0
NeededByDependents(n) == wait[n] = "active" /\ doneDependents[n] < Cardinality(Dependents(n))

TryCloseNode(n, rest) ==
    /\ \/ /\ UnderWay(n) \/ (close[n] = "none" /\ start[n] # "none" /\ NeededByDependents(n))
          /\ agenda' = rest
          /\ UNCHANGED <<start, wait, close, doneCounters, remaining, closeCall>>
       \/ /\ ~UnderWay(n) /\ close[n] \in Done
          /\ agenda' = <<Close(IF closedDependencies[n] < Cardinality(dependsOn[n])
                               THEN dependsOn[n] ELSE {})>> \o rest
          /\ UNCHANGED <<start, wait, close, doneCounters, remaining, closeCall>>
       \/ \* had no chance to be started
          /\ ~UnderWay(n) /\ close[n] = "none" /\ start[n] = "none"
          /\ start' = [start EXCEPT ![n] = "skipped"]
          /\ wait' = [wait EXCEPT ![n] = "skipped"]
          /\ remainingWaits' = remainingWaits - 1
          /\ IF NothingToClose(n) THEN HandleNodeClosed(n, "skipped", rest) /\ UNCHANGED closeCall
                                  ELSE CloseHook(n, rest)
       \/ /\ ~UnderWay(n) /\ close[n] = "none" /\ start[n] # "none" /\ ~NeededByDependents(n)
          /\ UNCHANGED <<start, wait, remainingWaits>>
          /\ CloseHook(n, rest)
    /\ UNCHANGED <<graph, pc, startCtx, readyDeps, remainingReadySignals, outcome, observed,
                   startCall, waitCall, channels, ctxDone>>

-----------------------------------------------------------------------------
(* Steps of the session's goroutine *)

\* Run does nothing for a cancelled context or an empty graph.
RunBegins ==
    /\ pc = "run"
    /\ \/ /\ ctxDone
          /\ pc' = "returned" /\ result' = "ctx"
          /\ UNCHANGED <<agenda, onReadyCalls>>
       \/ /\ ~ctxDone /\ Leaves = {}
          /\ pc' = "returned" /\ result' = "nil"
          /\ onReadyCalls' = onReadyCalls + 1
          /\ UNCHANGED agenda
       \/ /\ ~ctxDone /\ Leaves # {}
          /\ pc' = "starting"
          /\ agenda' = <<StartLeaves(Leaves)>>
          /\ UNCHANGED <<result, onReadyCalls>>
    /\ UNCHANGED <<graph, nodes, stats, shutdownErr, onShutdownCalls, env>>

StartNextLeaf ==
    /\ CallIs("startLeaves")
    /\ \E n \in Head(agenda).nodes :
          /\ readyDeps' = readyDeps
          /\ TryStartNode(n, <<StartLeaves(Head(agenda).nodes \ {n})>> \o Tail(agenda))

LeavesStarted ==
    /\ CallIs("startLeaves") /\ Head(agenda).nodes = {}
    /\ pc' = "loop"
    /\ agenda' = Tail(agenda)
    /\ UNCHANGED <<graph, nodes, stats, outcome, observed, env>>

StartNextDependent ==
    /\ CallIs("startDependents")
    /\ \E n \in Head(agenda).nodes :
          /\ readyDeps' = Increment(readyDeps, {n})
          /\ TryStartNode(n, <<StartDependents(Head(agenda).nodes \ {n})>> \o Tail(agenda))

WaitForStarted ==
    /\ CallIs("wait")
    /\ \E n \in Head(agenda).nodes : TryWaitForNode(n, Tail(agenda))

ToCloseAfterStart_Mutant(ns) == {}
\* A shutdown that began meanwhile may have passed the node over as starting.
ToCloseAfterStart(ns) == IF ShuttingDown THEN ns ELSE {}

CloseStarted ==
    /\ CallIs("closeIfShuttingDown")
    /\ agenda' = <<Close(ToCloseAfterStart(Head(agenda).nodes))>> \o Tail(agenda)
    /\ UNCHANGED <<graph, pc, nodes, stats, outcome, observed, env>>

CloseNext ==
    /\ CallIs("close")
    /\ \E n \in Head(agenda).nodes :
          TryCloseNode(n, <<Close(Head(agenda).nodes \ {n})>> \o Tail(agenda))

InterruptStarts_Mutant == UNCHANGED startCtx
InterruptStarts == startCtx' = [n \in Node |-> Cancelled(startCtx[n])]

\* The guard against a second shutdown is a stored error, so a shutdown that
\* has none (all Runs returned nil) does not count.
TryShutDown ==
    /\ CallIs("shutDown")
    /\ IF ShuttingDown
       THEN /\ agenda' = <<ReturnIsAllDone>> \o Tail(agenda)
            /\ UNCHANGED <<shutdownErr, onShutdownCalls, startCtx>>
       ELSE /\ onShutdownCalls' = onShutdownCalls + 1
            /\ shutdownErr' = Head(agenda).err
            /\ InterruptStarts
            /\ agenda' = <<Close(Roots)>> \o Tail(agenda)
    /\ UNCHANGED <<graph, pc, start, wait, close, doneCounters, readyDeps, stats, result,
                   onReadyCalls, env>>

\* return isAllDone(): Run returns, or the caller goes on.
ReturnFromCall ==
    /\ CallIs("close") \/ CallIs("startDependents")
    /\ Head(agenda).nodes = {}
    /\ IF AllDone
       THEN agenda' = <<>> /\ pc' = "returned" /\ result' = shutdownErr
       ELSE agenda' = Tail(agenda) /\ UNCHANGED <<pc, result>>
    /\ UNCHANGED <<graph, nodes, stats, shutdownErr, observed, env>>

\* The select of loop, and of loopAfterCtxDone, which has no ctx case.
Receiving == agenda = <<>> /\ pc \in {"loop", "loopAfterCtxDone"}

ReceiveStartResult(n) ==
    /\ Receiving /\ n \in startResults
    /\ startResults' = startResults \ {n}
    /\ \/ startCall[n] = "ok" /\ HandleNodeStarted(n, "completed", <<>>)
       \/ startCall[n] = "failed" /\ HandleNodeStartError(n, <<>>)
    /\ UNCHANGED <<readyDeps, calls, waitResults, closeResults, ctxDone>>

RunFailed_Mutant(n) == waitCall[n] = "err"
RunFailed(n) == waitCall[n] = "err" \/ n \in NilResultAsError

ReceiveWaitResult(n) ==
    /\ Receiving /\ n \in waitResults
    /\ waitResults' = waitResults \ {n}
    /\ HandleNodeWaited(n, RunFailed(n), "completed", <<>>)
    /\ UNCHANGED <<calls, startResults, closeResults, ctxDone>>

ReceiveClosed(n) ==
    /\ Receiving /\ n \in closeResults
    /\ closeResults' = closeResults \ {n}
    /\ wait' = wait
    /\ HandleNodeClosed(n, "completed", <<>>)
    /\ UNCHANGED <<graph, pc, start, startCtx, readyDeps, remainingWaits, remainingReadySignals,
                   outcome, observed, calls, startResults, waitResults, ctxDone>>

ReceiveCtxDone ==
    /\ Receiving /\ pc = "loop" /\ ctxDone
    /\ pc' = "loopAfterCtxDone"
    /\ agenda' = <<ShutDown("ctx")>>
    /\ UNCHANGED <<graph, nodes, stats, outcome, observed, env>>

SessionStep ==
    \/ RunBegins
    \/ StartNextLeaf \/ LeavesStarted \/ StartNextDependent
    \/ WaitForStarted \/ CloseStarted \/ CloseNext \/ TryShutDown \/ ReturnFromCall
    \/ \E n \in LcNodes : ReceiveStartResult(n) \/ ReceiveWaitResult(n) \/ ReceiveClosed(n)
    \/ ReceiveCtxDone

-----------------------------------------------------------------------------
(* The hooks' goroutines, the start timers and the run context *)

session == <<graph, pc, agenda, start, wait, close, doneCounters, readyDeps, stats, outcome, observed>>

StartReturns(n) ==
    /\ startCall[n] = "running"
    /\ \E r \in {"ok", "failed"} : startCall' = [startCall EXCEPT ![n] = r]
    /\ startResults' = startResults \cup {n}
    /\ UNCHANGED <<session, startCtx, waitCall, closeCall, waitResults, closeResults, ctxDone>>

WaitReturns(n) ==
    /\ waitCall[n] = "running"
    /\ \E r \in {"nil", "err"} : waitCall' = [waitCall EXCEPT ![n] = r]
    /\ waitResults' = waitResults \cup {n}
    /\ UNCHANGED <<session, startCtx, startCall, closeCall, startResults, closeResults, ctxDone>>

CloseReturns(n) ==
    /\ closeCall[n] = "running"
    /\ closeCall' = [closeCall EXCEPT ![n] = "returned"]
    /\ closeResults' = closeResults \cup {n}
    /\ UNCHANGED <<session, startCtx, startCall, waitCall, startResults, waitResults, ctxDone>>

StartTimesOut(n) ==
    /\ n \in TimedStart /\ startCtx[n] = "active"
    /\ startCtx' = [startCtx EXCEPT ![n] = "cancelled"]
    /\ UNCHANGED <<session, env>>

CancelRunCtx ==
    /\ ~ctxDone
    /\ ctxDone' = TRUE
    /\ UNCHANGED <<session, startCtx, calls, channels>>

-----------------------------------------------------------------------------

Init ==
    /\ \E g \in Graphs : dependsOn = g.dependsOn /\ kind = g.kind
    /\ pc = "run" /\ agenda = <<>>
    /\ start = [n \in Node |-> "none"] /\ startCtx = [n \in Node |-> "none"]
    /\ wait = [n \in Node |-> "none"] /\ close = [n \in Node |-> "none"]
    /\ closedDependencies = [n \in Node |-> 0]
    /\ doneDependents = [n \in Node |-> 0]
    /\ readyDeps = [n \in Node |-> 0]
    /\ remainingWaits = Cardinality(LcNodes)
    /\ remainingCloses = Cardinality(LcNodes)
    /\ remainingReadySignals = Cardinality(LcNodes)
    /\ shutdownErr = "nil" /\ result = "none"
    /\ onReadyCalls = 0 /\ onShutdownCalls = 0
    /\ startCall = [n \in Node |-> "none"]
    /\ waitCall = [n \in Node |-> "none"]
    /\ closeCall = [n \in Node |-> "none"]
    /\ startResults = {} /\ waitResults = {} /\ closeResults = {}
    /\ ctxDone \in BOOLEAN

\* Run has returned; nothing more has to happen.
Finished == pc = "returned" /\ UNCHANGED vars

Next ==
    \/ SessionStep
    \/ \E n \in LcNodes : StartReturns(n) \/ WaitReturns(n) \/ CloseReturns(n) \/ StartTimesOut(n)
    \/ CancelRunCtx
    \/ Finished

\* The session's goroutine runs whenever it can. Of the hooks only what their
\* contracts ask (lifecycle_types.go) is assumed: Start and Run return once
\* their context is cancelled, and Close returns.
Fairness ==
    /\ WF_vars(SessionStep)
    /\ \A n \in Node : /\ WF_vars(startCtx[n] = "cancelled" /\ StartReturns(n))
                       /\ WF_vars(closeCall[n] = "returned" /\ WaitReturns(n))
                       /\ WF_vars(CloseReturns(n))

Spec == Init /\ [][Next]_vars
FairSpec == Spec /\ Fairness

-----------------------------------------------------------------------------
(* Properties *)

Errors == {"nil", "hook", "ctx"}
Ops == {"startLeaves", "startDependents", "wait", "closeIfShuttingDown", "close", "shutDown"}
Calls == [op : Ops, nodes : SUBSET LcNodes, err : Errors]

\* Every variable of the session has its type.
TypeOK ==
    /\ LcNodes \subseteq Node
    /\ dependsOn \in [LcNodes -> SUBSET LcNodes] /\ kind \in [LcNodes -> Kinds]
    /\ pc \in {"run", "starting", "loop", "loopAfterCtxDone", "returned"}
    /\ agenda \in Seq(Calls)
    /\ start \in [Node -> Phase] /\ wait \in [Node -> Phase] /\ close \in [Node -> Phase]
    /\ startCtx \in [Node -> {"none", "active", "cancelled"}]
    /\ closedDependencies \in [Node -> Nat] /\ doneDependents \in [Node -> Nat]
    /\ readyDeps \in [Node -> Nat]
    /\ remainingWaits \in Int /\ remainingCloses \in Int /\ remainingReadySignals \in Int
    /\ shutdownErr \in Errors /\ result \in Errors \cup {"none"}
    /\ onReadyCalls \in Nat /\ onShutdownCalls \in Nat
    /\ startCall \in [Node -> {"none", "running", "ok", "failed"}]
    /\ waitCall \in [Node -> {"none", "running", "nil", "err"}]
    /\ closeCall \in [Node -> {"none", "running", "returned"}]
    /\ startResults \subseteq LcNodes /\ waitResults \subseteq LcNodes /\ closeResults \subseteq LcNodes
    /\ ctxDone \in BOOLEAN

\* lcNodesStats: the counters that decide when Run returns count exactly the
\* nodes whose wait and close phases are open, on every path that skips a phase.
CountersExact ==
    /\ remainingWaits = Cardinality({n \in LcNodes : wait[n] \notin Done})
    /\ remainingCloses = Cardinality({n \in LcNodes : close[n] \notin Done})

\* The count that holds back the close of a Run is the number of its node's
\* dependents that have ended, each counted once (onNodeDependenciesHaveDoneDependent).
DoneDependentsExact ==
    \A n \in LcNodes : doneDependents[n] = Cardinality({m \in Dependents(n) : IsDone(m)})

\* Run leaves no goroutine behind: when it has returned, none of the session's
\* goroutines is in a hook or blocked in a send that nobody will receive.
NoGoroutineLeft ==
    pc = "returned" =>
        /\ startResults = {} /\ waitResults = {} /\ closeResults = {}
        /\ \A n \in LcNodes : "running" \notin {startCall[n], waitCall[n], closeCall[n]}

\* What was started is ended before Run returns: the Run of every started
\* Runnable has returned, and every started Closer has been closed.
NothingLeftOpen ==
    pc = "returned" =>
        \A n \in LcNodes : startCall[n] = "ok" =>
            IF HasWaiter(n) THEN waitCall[n] \in {"nil", "err"}
                            ELSE HasCloser(n) => closeCall[n] = "returned"

\* "Close will be called only if Start was successful" (lifecycle_types.go:14).
ClosedOnlyIfStarted ==
    \A n \in LcNodes : HasStarter(n) /\ closeCall[n] # "none" => startCall[n] = "ok"

\* What Run returns tells how the session ended: nil only if no hook failed, the
\* context's error only if it was cancelled, a hook's error only if one failed.
HookFailed(n) == \/ startCall[n] = "failed" \/ waitCall[n] = "err"
                 \/ waitCall[n] = "nil" /\ n \in NilResultAsError
ResultTellsTheEnd ==
    /\ result = "nil" => \A n \in LcNodes : ~HookFailed(n)
    /\ result = "ctx" => ctxDone
    /\ result = "hook" => \E n \in LcNodes : HookFailed(n)

\* The loop never waits for results that nobody is going to send; and when it waits
\* while no Start is under way, all nodes are ready or the session is shutting down.
NeverStalls ==
    Receiving =>
        /\ \E n \in LcNodes : "active" \in {start[n], wait[n], close[n]}
        /\ startResults = {} /\ (\A n \in Node : startCall[n] # "running")
             => onReadyCalls = 1 \/ onShutdownCalls > 0

\* Hooks are started from leaves to roots: Start is called only when every
\* dependency is ready and none of them has been told to close.
StartsOnOpenDependencies ==
    [][\A n \in LcNodes : startCall[n] = "none" /\ startCall'[n] # "none" =>
          \A d \in dependsOn[n] : /\ start[d] \in Done /\ closeCall[d] = "none"
                                  /\ HasStarter(d) => startCall[d] = "ok"]_vars

\* "Don't report readiness and don't start new nodes" during a shutdown
\* (runner_session.go:335).
NothingStartsInShutdown ==
    [][onShutdownCalls > 0 =>
          /\ onReadyCalls' = onReadyCalls
          /\ \A n \in Node : startCall[n] = "none" => startCall'[n] = "none"]_vars

\* The ready callback runs once, when every hook has been started successfully
\* and none has been told to close.
ReadyWhenAllAreUp ==
    [][onReadyCalls' # onReadyCalls =>
          /\ onReadyCalls = 0
          /\ \A n \in LcNodes : /\ start'[n] \in Done
                                /\ startCall'[n] # "failed" /\ closeCall[n] = "none"]_vars

\* Runnables are closed from roots to leaves: the context of a Run is cancelled
\* only when every dependent of the node is done.
RunsEndAfterDependents ==
    [][\A n \in LcNodes : HasWaiter(n) /\ closeCall[n] = "none" /\ closeCall'[n] # "none" =>
          \A m \in Dependents(n) : IsDone(m)]_vars

\* The same for every hook: "A Closer is a component that should be stopped
\* gracefully before stopping its dependencies" (lifecycle_types.go:22).
ClosesAfterDependents ==
    [][\A n \in LcNodes : closeCall[n] = "none" /\ closeCall'[n] # "none" =>
          \A m \in Dependents(n) : IsDone(m)]_vars

\* "OnShutdown is called once when the Runner is shutting down" (runner_listener.go:38).
ShutdownReportedOnce == onShutdownCalls <= 1

\* Once the context is cancelled or a shutdown has begun, Run returns: "Once all
\* hooks are done, returns the error that caused the shutdown" (runner.go:31).
Terminates == ctxDone \/ onShutdownCalls > 0 ~> pc = "returned"
=============================================================================
