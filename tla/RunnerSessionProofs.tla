------------------------ MODULE RunnerSessionProofs ------------------------
(***************************************************************************)
(* What one session guarantees, for every graph of hooks and every set of  *)
(* shared, timed and nil-is-an-error hooks: the counters that decide when  *)
(* Run returns are exact, Run leaves no goroutine and nothing open behind, *)
(* closes only what was started and returns what ended the session.        *)
(*                                                                         *)
(* TypeOK is inductive: one lemma per handler, one per recursive call, one *)
(* step per action. The counters are not: one is right after a handler     *)
(* only if the handler runs once per node, so IInv says which phases can   *)
(* be open when a handler is on the agenda or its goroutine is under way.  *)
(* The rest follows from an account of what a step does to one node        *)
(* (NodeStep), and from one of the errors on the agenda (RInv).            *)
(***************************************************************************)
EXTENDS RunnerSession, FiniteSetTheorems, TLAPS

\* The calls a handler leaves on the agenda are well formed.
LEMMA CallsTyped ==
  ASSUME NEW ns \in SUBSET LcNodes, NEW err \in Errors
  PROVE  /\ StartLeaves(ns) \in Calls /\ StartDependents(ns) \in Calls
         /\ Close(ns) \in Calls /\ ReturnIsAllDone \in Calls /\ ShutDown(err) \in Calls
         /\ \A n \in LcNodes : Wait(n) \in Calls /\ CloseIfShuttingDown(n) \in Calls
BY DEF StartLeaves, StartDependents, Close, ReturnIsAllDone, ShutDown, Wait,
       CloseIfShuttingDown, Call, Calls, Ops, Errors

\* So is an agenda with such calls in front.
LEMMA AgendaInSeq ==
  ASSUME NEW S, NEW rest \in Seq(S)
  PROVE  /\ <<>> \o rest \in Seq(S)
         /\ \A a \in S : <<a>> \o rest \in Seq(S)
         /\ \A a, b \in S : <<a, b>> \o rest \in Seq(S)
         /\ \A a, b, c \in S : <<a, b, c>> \o rest \in Seq(S)
OBVIOUS

LEMMA AgendaTyped ==
  ASSUME NEW rest \in Seq(Calls)
  PROVE  /\ <<>> \o rest \in Seq(Calls)
         /\ \A a \in Calls : <<a>> \o rest \in Seq(Calls)
         /\ \A a, b \in Calls : <<a, b>> \o rest \in Seq(Calls)
         /\ \A a, b, c \in Calls : <<a, b, c>> \o rest \in Seq(Calls)
BY AgendaInSeq

LEMMA ShortAgendaTyped == <<>> \in Seq(Calls) /\ \A a \in Calls : <<a>> \in Seq(Calls)
OBVIOUS

\* What the first call of the agenda is about, and what comes after it.
LEMMA HeadTyped ==
  ASSUME TypeOK, agenda # <<>>
  PROVE  /\ Head(agenda) \in Calls /\ Tail(agenda) \in Seq(Calls)
         /\ Head(agenda).nodes \subseteq LcNodes /\ Head(agenda).err \in Errors
<1>1. Head(agenda) \in Calls /\ Tail(agenda) \in Seq(Calls)
  BY DEF TypeOK
<1> QED
  BY <1>1 DEF Calls

LEMMA IncrementTyped ==
  ASSUME NEW f \in [Node -> Nat], NEW ns
  PROVE  Increment(f, ns) \in [Node -> Nat]
BY DEF Increment

LEMMA GraphTyped ==
  ASSUME TypeOK, NEW n \in LcNodes
  PROVE  /\ n \in Node /\ dependsOn[n] \subseteq LcNodes /\ kind[n] \in Kinds
         /\ Dependents(n) \subseteq LcNodes /\ Roots \subseteq LcNodes /\ Leaves \subseteq LcNodes
BY DEF TypeOK, LcNodes, Dependents, Roots, Leaves

LEMMA StartedTyped ==
  ASSUME TypeOK, NEW n \in LcNodes, NEW phase \in Done, NEW rest \in Seq(Calls),
         HandleNodeStarted(n, phase, rest)
  PROVE  /\ start' \in [Node -> Phase] /\ startCtx' \in [Node -> {"none", "active", "cancelled"}]
         /\ remainingReadySignals' \in Int /\ onReadyCalls' \in Nat /\ agenda' \in Seq(Calls)
<1>1. n \in Node
  BY GraphTyped
<1>2. start' \in [Node -> Phase] /\ remainingReadySignals' \in Int /\ onReadyCalls' \in Nat
  BY <1>1 DEF HandleNodeStarted, TypeOK, Phase
<1>3. startCtx' \in [Node -> {"none", "active", "cancelled"}]
  BY <1>1 DEF HandleNodeStarted, TypeOK, Cancelled
<1>4. agenda' \in Seq(Calls)
  <2>1. NextToStart(n) \subseteq LcNodes
    BY GraphTyped DEF NextToStart
  <2>2. /\ StartDependents(NextToStart(n)) \in Calls
        /\ Wait(n) \in Calls /\ CloseIfShuttingDown(n) \in Calls
    BY <2>1, CallsTyped DEF Errors
  <2> QED
    BY <2>2, AgendaTyped DEF HandleNodeStarted
<1> QED
  BY <1>2, <1>3, <1>4

LEMMA StartErrorTyped ==
  ASSUME TypeOK, NEW n \in LcNodes, NEW rest \in Seq(Calls), HandleNodeStartError(n, rest)
  PROVE  /\ start' \in [Node -> Phase] /\ wait' \in [Node -> Phase] /\ close' \in [Node -> Phase]
         /\ startCtx' \in [Node -> {"none", "active", "cancelled"}]
         /\ remainingWaits' \in Int /\ remainingCloses' \in Int
         /\ doneDependents' \in [Node -> Nat] /\ agenda' \in Seq(Calls)
<1>1. n \in Node /\ dependsOn[n] \subseteq LcNodes
  BY GraphTyped
<1>2. /\ start' \in [Node -> Phase] /\ wait' \in [Node -> Phase] /\ close' \in [Node -> Phase]
      /\ remainingWaits' \in Int /\ remainingCloses' \in Int
  BY <1>1 DEF HandleNodeStartError, TypeOK, Phase, Done
<1>3. startCtx' \in [Node -> {"none", "active", "cancelled"}]
  BY <1>1 DEF HandleNodeStartError, TypeOK, Cancelled
<1>4. doneDependents' \in [Node -> Nat]
  BY IncrementTyped DEF HandleNodeStartError, TypeOK, CountDoneDependent
<1>5. agenda' \in Seq(Calls)
  <2>1. ShutDown("hook") \in Calls /\ Close(dependsOn[n]) \in Calls
    BY <1>1, CallsTyped DEF Errors
  <2> QED
    BY <2>1, AgendaTyped DEF HandleNodeStartError
<1> QED
  BY <1>2, <1>3, <1>4, <1>5

LEMMA WaitedTyped ==
  ASSUME TypeOK, NEW n \in LcNodes, NEW failed \in BOOLEAN, NEW phase \in Done,
         NEW rest \in Seq(Calls), HandleNodeWaited(n, failed, phase, rest)
  PROVE  /\ wait' \in [Node -> Phase] /\ close' \in [Node -> Phase]
         /\ remainingWaits' \in Int /\ remainingCloses' \in Int
         /\ doneDependents' \in [Node -> Nat] /\ agenda' \in Seq(Calls)
<1>1. n \in Node
  BY GraphTyped
<1>2. /\ wait' \in [Node -> Phase] /\ close' \in [Node -> Phase]
      /\ remainingWaits' \in Int /\ remainingCloses' \in Int
  BY <1>1 DEF HandleNodeWaited, TypeOK, Phase, Done
<1>3. doneDependents' \in [Node -> Nat]
  <2>1. doneDependents' = Increment(doneDependents, dependsOn[n]) \/ doneDependents' = doneDependents
    BY DEF HandleNodeWaited, CountDoneDependent
  <2>2. doneDependents \in [Node -> Nat]
    BY DEF TypeOK
  <2> QED
    BY <2>1, <2>2, IncrementTyped
<1>4. agenda' \in Seq(Calls)
  <2>1. /\ Close({n}) \in Calls /\ ShutDown("hook") \in Calls /\ ShutDown("nil") \in Calls
        /\ ReturnIsAllDone \in Calls
    BY CallsTyped DEF Errors
  <2> QED
    BY <2>1, AgendaTyped DEF HandleNodeWaited
<1> QED
  BY <1>2, <1>3, <1>4

LEMMA ClosedTyped ==
  ASSUME TypeOK, NEW n \in LcNodes, NEW phase \in Done, NEW rest \in Seq(Calls),
         HandleNodeClosed(n, phase, rest)
  PROVE  /\ close' \in [Node -> Phase] /\ remainingCloses' \in Int
         /\ closedDependencies' \in [Node -> Nat] /\ doneDependents' \in [Node -> Nat]
         /\ agenda' \in Seq(Calls)
<1>1. n \in Node /\ dependsOn[n] \subseteq LcNodes
  BY GraphTyped
<1>2. close' \in [Node -> Phase] /\ remainingCloses' \in Int
  BY <1>1 DEF HandleNodeClosed, TypeOK, Phase
<1>3. closedDependencies' \in [Node -> Nat] /\ doneDependents' \in [Node -> Nat]
  <2>1. doneDependents' = Increment(doneDependents, dependsOn[n]) \/ doneDependents' = doneDependents
    BY DEF HandleNodeClosed, CountDoneDependent
  <2>2. closedDependencies' = Increment(closedDependencies, Dependents(n))
    BY DEF HandleNodeClosed
  <2>3. doneDependents \in [Node -> Nat] /\ closedDependencies \in [Node -> Nat]
    BY DEF TypeOK
  <2> QED
    BY <2>1, <2>2, <2>3, IncrementTyped
<1>4. agenda' \in Seq(Calls)
  <2>1. Close(dependsOn[n]) \in Calls
    BY <1>1, CallsTyped DEF Errors
  <2> QED
    BY <2>1, AgendaTyped DEF HandleNodeClosed
<1> QED
  BY <1>2, <1>3, <1>4

LEMMA CloseHookTyped ==
  ASSUME TypeOK, NEW n \in LcNodes, NEW rest \in Seq(Calls), CloseHook(n, rest)
  PROVE  /\ close' \in [Node -> Phase] /\ remainingCloses' \in Int
         /\ closedDependencies' \in [Node -> Nat] /\ doneDependents' \in [Node -> Nat]
         /\ closeCall' \in [Node -> {"none", "running", "returned"}] /\ agenda' \in Seq(Calls)
<1>1. n \in Node
  BY GraphTyped
<1>2. CASE HandleNodeClosed(n, "skipped", rest) /\ UNCHANGED closeCall
  BY <1>2, ClosedTyped DEF Done, TypeOK
<1>3. CASE /\ HandleNodeClosed(n, "completed", rest)
           /\ closeCall' = [closeCall EXCEPT ![n] = "returned"]
  <2>1. closeCall' \in [Node -> {"none", "running", "returned"}]
    BY <1>3 DEF TypeOK
  <2> QED
    BY <1>3, <2>1, ClosedTyped DEF Done
<1>4. CASE /\ close' = [close EXCEPT ![n] = "active"]
           /\ closeCall' = [closeCall EXCEPT ![n] = "running"]
           /\ agenda' = rest
           /\ UNCHANGED <<remainingCloses, doneCounters>>
  BY <1>4 DEF TypeOK, Phase, doneCounters
<1> QED
  BY <1>2, <1>3, <1>4 DEF CloseHook

\* The graph does not change, so neither do the types that are built from it.
LEMMA GraphFixed ==
  ASSUME UNCHANGED graph
  PROVE  /\ LcNodes' = LcNodes /\ Calls' = Calls
         /\ \A n : /\ dependsOn'[n] = dependsOn[n] /\ Dependents(n)' = Dependents(n)
                   /\ HasWaiter(n)' = HasWaiter(n) /\ HasStarter(n)' = HasStarter(n)
                   /\ HasCloser(n)' = HasCloser(n)
BY DEF graph, LcNodes, Calls, Dependents, HasWaiter, HasStarter, HasCloser

LEMMA TryStartTyped ==
  ASSUME TypeOK, NEW n \in LcNodes, NEW rest \in Seq(Calls),
         readyDeps' \in [Node -> Nat], TryStartNode(n, rest)
  PROVE  TypeOK'
<1>1. n \in Node
  BY GraphTyped
<1>2. CASE /\ agenda' = (IF start[n] \in Done THEN <<ReturnIsAllDone>> ELSE <<>>) \o rest
           /\ UNCHANGED <<graph, pc, start, wait, close, startCtx, doneCounters, stats, outcome,
                          observed, env>>
  <2>1. agenda' \in Seq(Calls)
    <3>1. ReturnIsAllDone \in Calls
      BY CallsTyped DEF Errors
    <3> QED
      BY <1>2, <3>1, AgendaTyped
  <2> QED
    BY <1>2, <2>1, GraphFixed DEF TypeOK, graph, doneCounters, stats, remaining, outcome, observed,
                                  env, calls, channels
<1>3. CASE HandleNodeStarted(n, "skipped", rest) /\ UNCHANGED env
  <2>1. UNCHANGED graph
    BY <1>3 DEF HandleNodeStarted
  <2> QED
    BY <1>3, <2>1, StartedTyped, GraphFixed
       DEF HandleNodeStarted, TypeOK, Done, graph, doneCounters, remaining, outcome, env, calls,
           channels
<1>4. ASSUME startCall' = [startCall EXCEPT ![n] = "ok"], HandleNodeStarted(n, "completed", rest),
             UNCHANGED <<waitCall, closeCall, channels, ctxDone>>
      PROVE  TypeOK'
  <2>1. UNCHANGED graph
    BY <1>4 DEF HandleNodeStarted
  <2>2. startCall' \in [Node -> {"none", "running", "ok", "failed"}]
    BY <1>1, <1>4 DEF TypeOK
  <2> QED
    BY <1>4, <2>1, <2>2, StartedTyped, GraphFixed
       DEF HandleNodeStarted, TypeOK, Done, graph, doneCounters, remaining, outcome, channels
<1>5. ASSUME startCall' = [startCall EXCEPT ![n] = "failed"], HandleNodeStartError(n, rest),
             UNCHANGED <<waitCall, closeCall, channels, ctxDone>>
      PROVE  TypeOK'
  <2>1. UNCHANGED graph
    BY <1>5 DEF HandleNodeStartError
  <2>2. startCall' \in [Node -> {"none", "running", "ok", "failed"}]
    BY <1>1, <1>5 DEF TypeOK
  <2> QED
    BY <1>5, <2>1, <2>2, StartErrorTyped, GraphFixed, ZenonT(40)
       DEF HandleNodeStartError, TypeOK, graph, outcome, observed, channels
<1>6. CASE /\ start' = [start EXCEPT ![n] = "active"]
           /\ startCtx' = [startCtx EXCEPT ![n] = "active"]
           /\ startCall' = [startCall EXCEPT ![n] = "running"]
           /\ agenda' = rest
           /\ UNCHANGED <<graph, pc, wait, close, doneCounters, stats, outcome, observed,
                          waitCall, closeCall, channels, ctxDone>>
  <2>1. /\ start' \in [Node -> Phase] /\ startCtx' \in [Node -> {"none", "active", "cancelled"}]
        /\ startCall' \in [Node -> {"none", "running", "ok", "failed"}]
    BY <1>1, <1>6 DEF TypeOK, Phase
  <2> QED
    BY <1>6, <2>1, GraphFixed
       DEF TypeOK, graph, doneCounters, stats, remaining, outcome, observed, channels
<1> QED
  BY <1>2, <1>3, <1>4, <1>5, <1>6 DEF TryStartNode

LEMMA TryWaitTyped ==
  ASSUME TypeOK, NEW n \in LcNodes, NEW rest \in Seq(Calls), TryWaitForNode(n, rest)
  PROVE  TypeOK'
<1>1. n \in Node
  BY GraphTyped
<1>2. CASE /\ agenda' = (IF wait[n] \in Done THEN <<ReturnIsAllDone>> ELSE <<>>) \o rest
           /\ UNCHANGED <<graph, pc, nodes, stats, outcome, observed, env>>
  <2>1. agenda' \in Seq(Calls)
    <3>1. ReturnIsAllDone \in Calls
      BY CallsTyped DEF Errors
    <3> QED
      BY <1>2, <3>1, AgendaTyped
  <2> QED
    BY <1>2, <2>1, GraphFixed DEF TypeOK, graph, nodes, doneCounters, stats, remaining, outcome,
                                  observed, env, calls, channels
<1>3. CASE HandleNodeWaited(n, FALSE, "skipped", rest) /\ UNCHANGED env
  <2>1. UNCHANGED graph
    BY <1>3 DEF HandleNodeWaited
  <2> QED
    BY <1>3, <2>1, WaitedTyped, GraphFixed
       DEF HandleNodeWaited, TypeOK, Done, graph, outcome, observed, env, calls, channels
<1>4. CASE /\ wait' = [wait EXCEPT ![n] = "active"]
           /\ waitCall' = [waitCall EXCEPT ![n] = "running"]
           /\ agenda' = rest
           /\ UNCHANGED <<graph, pc, start, close, startCtx, doneCounters, readyDeps, stats, outcome,
                          observed, startCall, closeCall, channels, ctxDone>>
  <2>1. /\ wait' \in [Node -> Phase]
        /\ waitCall' \in [Node -> {"none", "running", "nil", "err"}]
    BY <1>1, <1>4 DEF TypeOK, Phase
  <2> QED
    BY <1>4, <2>1, GraphFixed
       DEF TypeOK, graph, doneCounters, stats, remaining, outcome, observed, channels
<1> QED
  BY <1>2, <1>3, <1>4 DEF TryWaitForNode

LEMMA TryCloseTyped ==
  ASSUME TypeOK, NEW n \in LcNodes, NEW rest \in Seq(Calls), TryCloseNode(n, rest)
  PROVE  TypeOK'
<1>1. n \in Node /\ dependsOn[n] \subseteq LcNodes
  BY GraphTyped
<1>2. /\ UNCHANGED <<graph, pc, startCtx, readyDeps, remainingReadySignals, outcome, observed,
                     startCall, waitCall, channels, ctxDone>>
      /\ UNCHANGED graph
  BY DEF TryCloseNode
<1>3. CASE /\ agenda' = rest
           /\ UNCHANGED <<start, wait, close, doneCounters, remaining, closeCall>>
  BY <1>2, <1>3, GraphFixed DEF TypeOK, graph, doneCounters, remaining, outcome, observed, channels
<1>4. CASE /\ agenda' = <<Close(IF closedDependencies[n] < Cardinality(dependsOn[n])
                                THEN dependsOn[n] ELSE {})>> \o rest
           /\ UNCHANGED <<start, wait, close, doneCounters, remaining, closeCall>>
  <2>1. agenda' \in Seq(Calls)
    <3>1. Close(IF closedDependencies[n] < Cardinality(dependsOn[n]) THEN dependsOn[n] ELSE {}) \in Calls
      BY <1>1, CallsTyped DEF Errors
    <3> QED
      BY <1>4, <3>1, AgendaTyped
  <2> QED
    BY <1>2, <1>4, <2>1, GraphFixed
       DEF TypeOK, graph, doneCounters, remaining, outcome, observed, channels
<1>5. ASSUME start' \in [Node -> Phase], wait' \in [Node -> Phase], remainingWaits' \in Int,
             \/ HandleNodeClosed(n, "skipped", rest) /\ UNCHANGED closeCall
             \/ CloseHook(n, rest)
      PROVE  TypeOK'
  <2>1. /\ close' \in [Node -> Phase] /\ remainingCloses' \in Int
        /\ closedDependencies' \in [Node -> Nat] /\ doneDependents' \in [Node -> Nat]
        /\ closeCall' \in [Node -> {"none", "running", "returned"}] /\ agenda' \in Seq(Calls)
    <3>1. closeCall \in [Node -> {"none", "running", "returned"}]
      BY DEF TypeOK
    <3> QED
      BY <1>5, <3>1, ClosedTyped, CloseHookTyped DEF Done
  <2> QED
    BY <1>2, <1>5, <2>1, GraphFixed DEF TypeOK, graph, outcome, observed, channels
<1>6. CASE /\ start' = [start EXCEPT ![n] = "skipped"]
           /\ wait' = [wait EXCEPT ![n] = "skipped"]
           /\ remainingWaits' = remainingWaits - 1
           /\ IF NothingToClose(n) THEN HandleNodeClosed(n, "skipped", rest) /\ UNCHANGED closeCall
                                   ELSE CloseHook(n, rest)
  <2>1. start' \in [Node -> Phase] /\ wait' \in [Node -> Phase] /\ remainingWaits' \in Int
    BY <1>1, <1>6 DEF TypeOK, Phase, Done
  <2> QED
    BY <1>5, <1>6, <2>1
<1>7. CASE UNCHANGED <<start, wait, remainingWaits>> /\ CloseHook(n, rest)
  <2>1. start' \in [Node -> Phase] /\ wait' \in [Node -> Phase] /\ remainingWaits' \in Int
    BY <1>7 DEF TypeOK
  <2> QED
    BY <1>5, <1>7, <2>1
<1> QED
  BY <1>3, <1>4, <1>6, <1>7 DEF TryCloseNode

LEMMA InitTyped == Init => TypeOK
<1> SUFFICES ASSUME Init PROVE TypeOK
  OBVIOUS
<1>1. PICK g \in Graphs : dependsOn = g.dependsOn /\ kind = g.kind
  BY DEF Init
<1>2. PICK ns \in SUBSET Node : g.dependsOn \in [ns -> SUBSET ns] /\ g.kind \in [ns -> Kinds]
  BY GraphsAssumption
<1>3. /\ LcNodes = ns /\ LcNodes \subseteq Node
      /\ dependsOn \in [LcNodes -> SUBSET LcNodes] /\ kind \in [LcNodes -> Kinds]
  BY <1>1, <1>2 DEF LcNodes
<1>4. Cardinality(LcNodes) \in Nat
  BY <1>3, GraphsAssumption, FS_Subset, FS_CardinalityType
<1> QED
  BY <1>3, <1>4 DEF Init, TypeOK, Phase, Errors

LEMMA NextTyped == TypeOK /\ [Next]_vars => TypeOK'
<1> SUFFICES ASSUME TypeOK, [Next]_vars PROVE TypeOK'
  OBVIOUS
<1> USE DEF doneCounters, remaining, stats, outcome, observed, calls, channels, env
<1>1. CASE RunBegins
  <2>1. agenda' \in Seq(Calls)
    <3>1. StartLeaves(Leaves) \in Calls
      BY CallsTyped DEF Errors, Leaves, LcNodes
    <3> QED
      <4>1. agenda \in Seq(Calls)
        BY DEF TypeOK
      <4>2. agenda' = agenda \/ agenda' = <<StartLeaves(Leaves)>>
        BY <1>1 DEF RunBegins
      <4> QED
        BY <3>1, <4>1, <4>2, ShortAgendaTyped
  <2> QED
    BY <1>1, <2>1, GraphFixed DEF RunBegins, TypeOK, graph, nodes, Errors
<1>2. CASE StartNextLeaf
  <2> SUFFICES ASSUME NEW n \in Head(agenda).nodes, readyDeps' = readyDeps, agenda # <<>>,
                      TryStartNode(n, <<StartLeaves(Head(agenda).nodes \ {n})>> \o Tail(agenda))
               PROVE  TypeOK'
    BY <1>2 DEF StartNextLeaf, CallIs
  <2>1. <<StartLeaves(Head(agenda).nodes \ {n})>> \o Tail(agenda) \in Seq(Calls)
    <3>1. StartLeaves(Head(agenda).nodes \ {n}) \in Calls
      BY HeadTyped, CallsTyped DEF Errors
    <3> QED
      BY <3>1, HeadTyped, AgendaTyped
  <2> QED
    BY <2>1, HeadTyped, TryStartTyped DEF TypeOK
<1>3. CASE LeavesStarted
  <2>1. agenda' \in Seq(Calls)
    BY <1>3, HeadTyped DEF LeavesStarted, CallIs
  <2> QED
    BY <1>3, <2>1, GraphFixed DEF LeavesStarted, TypeOK, graph, nodes
<1>4. CASE StartNextDependent
  <2> SUFFICES ASSUME NEW n \in Head(agenda).nodes, readyDeps' = Increment(readyDeps, {n}),
                      agenda # <<>>,
                      TryStartNode(n, <<StartDependents(Head(agenda).nodes \ {n})>> \o Tail(agenda))
               PROVE  TypeOK'
    BY <1>4 DEF StartNextDependent, CallIs
  <2>1. <<StartDependents(Head(agenda).nodes \ {n})>> \o Tail(agenda) \in Seq(Calls)
    <3>1. StartDependents(Head(agenda).nodes \ {n}) \in Calls
      BY HeadTyped, CallsTyped DEF Errors
    <3> QED
      BY <3>1, HeadTyped, AgendaTyped
  <2>2. readyDeps' \in [Node -> Nat]
    <3>1. readyDeps \in [Node -> Nat]
      BY DEF TypeOK
    <3> QED
      BY <3>1, IncrementTyped
  <2> QED
    BY <2>1, <2>2, HeadTyped, TryStartTyped
<1>5. CASE WaitForStarted
  BY <1>5, HeadTyped, TryWaitTyped DEF WaitForStarted, CallIs
<1>6. CASE CloseStarted
  <2>1. agenda' \in Seq(Calls)
    <3>1. agenda # <<>> /\ agenda' = <<Close(ToCloseAfterStart(Head(agenda).nodes))>> \o Tail(agenda)
      BY <1>6 DEF CloseStarted, CallIs
    <3>2. ToCloseAfterStart(Head(agenda).nodes) \subseteq LcNodes
      BY <3>1, HeadTyped DEF ToCloseAfterStart
    <3>3. Close(ToCloseAfterStart(Head(agenda).nodes)) \in Calls
      BY <3>2, CallsTyped DEF Errors
    <3> QED
      BY <3>1, <3>3, HeadTyped, AgendaTyped
  <2> QED
    BY <1>6, <2>1, GraphFixed DEF CloseStarted, TypeOK, graph, nodes
<1>7. CASE CloseNext
  <2> SUFFICES ASSUME NEW n \in Head(agenda).nodes, agenda # <<>>,
                      TryCloseNode(n, <<Close(Head(agenda).nodes \ {n})>> \o Tail(agenda))
               PROVE  TypeOK'
    BY <1>7 DEF CloseNext, CallIs
  <2>1. <<Close(Head(agenda).nodes \ {n})>> \o Tail(agenda) \in Seq(Calls)
    <3>1. Close(Head(agenda).nodes \ {n}) \in Calls
      BY HeadTyped, CallsTyped DEF Errors
    <3> QED
      BY <3>1, HeadTyped, AgendaTyped
  <2> QED
    BY <2>1, HeadTyped, TryCloseTyped
<1>8. CASE TryShutDown
  <2>1. agenda # <<>> /\ UNCHANGED graph
    BY <1>8 DEF TryShutDown, CallIs
  <2>2. agenda' \in Seq(Calls)
    <3>1. Roots \subseteq LcNodes
      BY DEF Roots
    <3>2. ReturnIsAllDone \in Calls /\ Close(Roots) \in Calls
      BY <3>1, CallsTyped DEF Errors
    <3>3. \/ agenda' = <<ReturnIsAllDone>> \o Tail(agenda)
          \/ agenda' = <<Close(Roots)>> \o Tail(agenda)
      BY <1>8 DEF TryShutDown
    <3> QED
      BY <2>1, <3>2, <3>3, HeadTyped, AgendaTyped
  <2>3. /\ shutdownErr' \in Errors /\ onShutdownCalls' \in Nat
        /\ startCtx' \in [Node -> {"none", "active", "cancelled"}]
    <3>1. Head(agenda).err \in Errors
      BY <2>1, HeadTyped
    <3> QED
      BY <1>8, <3>1 DEF TryShutDown, TypeOK, InterruptStarts, Cancelled
  <2> QED
    BY <1>8, <2>1, <2>2, <2>3, GraphFixed DEF TryShutDown, TypeOK, graph
<1>9. CASE ReturnFromCall
  <2>1. agenda' \in Seq(Calls)
    <3>1. agenda # <<>> /\ (agenda' = <<>> \/ agenda' = Tail(agenda))
      BY <1>9 DEF ReturnFromCall, CallIs
    <3> QED
      BY <3>1, HeadTyped, ShortAgendaTyped
  <2> QED
    BY <1>9, <2>1, GraphFixed DEF ReturnFromCall, TypeOK, graph, nodes
<1>10. ASSUME NEW n \in LcNodes, ReceiveStartResult(n) PROVE TypeOK'
  <2>1. UNCHANGED graph /\ <<>> \in Seq(Calls)
    BY <1>10 DEF ReceiveStartResult, HandleNodeStarted, HandleNodeStartError
  <2>2. CASE HandleNodeStarted(n, "completed", <<>>)
    BY <1>10, <2>1, <2>2, StartedTyped, GraphFixed
       DEF ReceiveStartResult, HandleNodeStarted, TypeOK, Done, graph
  <2>3. CASE HandleNodeStartError(n, <<>>)
    BY <1>10, <2>1, <2>3, StartErrorTyped, GraphFixed
       DEF ReceiveStartResult, HandleNodeStartError, TypeOK, graph
  <2> QED
    BY <1>10, <2>2, <2>3 DEF ReceiveStartResult
<1>11. ASSUME NEW n \in LcNodes, ReceiveWaitResult(n) PROVE TypeOK'
  <2>1. UNCHANGED graph /\ <<>> \in Seq(Calls) /\ RunFailed(n) \in BOOLEAN
    BY <1>11 DEF ReceiveWaitResult, HandleNodeWaited, RunFailed
  <2>2. HandleNodeWaited(n, RunFailed(n), "completed", <<>>)
    BY <1>11 DEF ReceiveWaitResult
  <2>3. /\ wait' \in [Node -> Phase] /\ close' \in [Node -> Phase]
        /\ remainingWaits' \in Int /\ remainingCloses' \in Int
        /\ doneDependents' \in [Node -> Nat] /\ agenda' \in Seq(Calls)
    BY <2>1, <2>2, WaitedTyped DEF Done
  <2>4. UNCHANGED <<dependsOn, kind, pc, start, startCtx, closedDependencies, readyDeps,
                    remainingReadySignals, shutdownErr, result, onReadyCalls, onShutdownCalls,
                    startCall, waitCall, closeCall, startResults, closeResults, ctxDone>>
    BY <1>11 DEF ReceiveWaitResult, HandleNodeWaited, graph
  <2>5. waitResults' \subseteq LcNodes
    BY <1>11 DEF ReceiveWaitResult, TypeOK
  <2> QED
    BY <2>1, <2>3, <2>4, <2>5, GraphFixed DEF TypeOK
<1>12. ASSUME NEW n \in LcNodes, ReceiveClosed(n) PROVE TypeOK'
  <2>1. UNCHANGED graph /\ <<>> \in Seq(Calls)
    BY <1>12 DEF ReceiveClosed
  <2> QED
    BY <1>12, <2>1, ClosedTyped, GraphFixed DEF ReceiveClosed, TypeOK, Done, graph
<1>13. CASE ReceiveCtxDone
  <2>1. ShutDown("ctx") \in Calls
    BY CallsTyped DEF Errors
  <2>2. agenda' \in Seq(Calls)
    BY <1>13, <2>1 DEF ReceiveCtxDone
  <2> QED
    BY <1>13, <2>2, GraphFixed DEF ReceiveCtxDone, TypeOK, graph, nodes
<1>14. ASSUME NEW n \in LcNodes, StartReturns(n) \/ WaitReturns(n) \/ CloseReturns(n) \/ StartTimesOut(n)
       PROVE  TypeOK'
  <2>1. UNCHANGED graph /\ n \in Node
    BY <1>14, GraphTyped DEF StartReturns, WaitReturns, CloseReturns, StartTimesOut, session
  <2>2. CASE StartReturns(n)
    BY <2>1, <2>2, GraphFixed DEF StartReturns, session, TypeOK, graph
  <2>3. CASE WaitReturns(n)
    BY <2>1, <2>3, GraphFixed DEF WaitReturns, session, TypeOK, graph
  <2>4. CASE CloseReturns(n)
    BY <2>1, <2>4, GraphFixed DEF CloseReturns, session, TypeOK, graph
  <2>5. CASE StartTimesOut(n)
    BY <2>1, <2>5, GraphFixed DEF StartTimesOut, session, TypeOK, graph
  <2> QED
    BY <1>14, <2>2, <2>3, <2>4, <2>5
<1>15. CASE CancelRunCtx
  BY <1>15, GraphFixed DEF CancelRunCtx, session, TypeOK, graph
<1>16. CASE UNCHANGED vars
  BY <1>16, GraphFixed DEF vars, nodes, TypeOK, graph
<1> QED
  BY <1>1, <1>2, <1>3, <1>4, <1>5, <1>6, <1>7, <1>8, <1>9, <1>10, <1>11, <1>12, <1>13, <1>14,
     <1>15, <1>16 DEF Next, SessionStep, Finished

\* Every variable of a session has its type in every reachable state.
THEOREM TypeInvariant == Spec => []TypeOK
BY InitTyped, NextTyped, PTL DEF Spec
-----------------------------------------------------------------------------
(* The counters *)

\* The calls that may be on the agenda: the wait of a node comes after its start.
OkCalls == {c \in Calls : c.op = "wait" => \A n \in c.nodes : start[n] \in Done}

\* No wait or close before the start is over.
StartFirst == \A n \in LcNodes : start[n] \notin Done => wait[n] = "none" /\ close[n] = "none"

\* A goroutine of the session is in a hook, or blocked in a send, only while
\* the phase it works for is active.
GoroutinesHavePhases ==
    \A n \in LcNodes :
       /\ start[n] = "none" => startCall[n] = "none"
       /\ startCall[n] = "running" \/ n \in startResults => start[n] = "active"
       /\ waitCall[n] = "running" \/ n \in waitResults => wait[n] = "active"
       /\ closeCall[n] = "running" \/ n \in closeResults => close[n] = "active"
       /\ n \in startResults => startCall[n] \in {"ok", "failed"}
       /\ n \in waitResults => waitCall[n] \in {"nil", "err"}
       /\ n \in closeResults => closeCall[n] = "returned"

NothingStarted == \A n \in LcNodes : start[n] = "none"
AllOver == \A n \in LcNodes : IsDone(n)

\* Before Run begins nothing has been started, and when it has returned nothing
\* was ever started or all phases are over.
Quiet ==
    /\ pc = "run" => agenda = <<>> /\ NothingStarted
    /\ pc = "returned" => agenda = <<>> /\ (NothingStarted \/ AllOver)

IInv ==
    /\ agenda \in Seq(OkCalls)
    /\ StartFirst
    /\ GoroutinesHavePhases
    /\ Quiet
    /\ CountersExact

Open(phase) == {n \in LcNodes : phase[n] \notin Done}

-----------------------------------------------------------------------------
(* Counting the open phases *)

LEMMA OpenFinite ==
  ASSUME TypeOK, NEW f
  PROVE  IsFiniteSet(Open(f)) /\ Cardinality(Open(f)) \in Nat
<1>1. Open(f) \subseteq Node
  BY DEF TypeOK, Open
<1> QED
  BY <1>1, GraphsAssumption, FS_Subset, FS_CardinalityType

\* Closing an open phase takes one node out of the count.
LEMMA CountDown ==
  ASSUME TypeOK, NEW n \in LcNodes, NEW f \in [Node -> Phase], NEW p \in Done, f[n] \notin Done
  PROVE  Cardinality(Open([f EXCEPT ![n] = p])) = Cardinality(Open(f)) - 1
<1>1. n \in Open(f) /\ n \in Node
  BY GraphTyped DEF Open
<1>2. Open([f EXCEPT ![n] = p]) = Open(f) \ {n}
  BY <1>1 DEF Open, TypeOK
<1> QED
  BY <1>1, <1>2, OpenFinite, FS_RemoveElement, ZenonT(40)

\* Activating an idle phase does not change it.
LEMMA CountActive ==
  ASSUME TypeOK, NEW n \in LcNodes, NEW f \in [Node -> Phase], f[n] = "none"
  PROVE  Open([f EXCEPT ![n] = "active"]) = Open(f)
BY GraphTyped DEF Open, Done, TypeOK

LEMMA CountersAreOpen ==
  CountersExact <=> remainingWaits = Cardinality(Open(wait)) /\ remainingCloses = Cardinality(Open(close))
BY DEF CountersExact, Open

LEMMA CountersAreOpenNext ==
  ASSUME UNCHANGED graph, remainingWaits' = Cardinality(Open(wait')),
         remainingCloses' = Cardinality(Open(close'))
  PROVE  CountersExact'
BY GraphFixed DEF CountersExact, Open

-----------------------------------------------------------------------------
(* The agenda *)

\* A call other than a wait is always good; started nodes stay started.
LEMMA OkCallsKept ==
  ASSUME TypeOK, UNCHANGED graph, \A n \in LcNodes : start[n] \in Done => start'[n] \in Done
  PROVE  /\ OkCalls \subseteq OkCalls'
         /\ \A c \in Calls : c.op # "wait" => c \in OkCalls'
         /\ \A rest \in Seq(OkCalls) : rest \in Seq(OkCalls')
<1>1. Calls' = Calls
  BY GraphFixed
<1>2. \A c \in Calls : c.nodes \subseteq LcNodes
  BY DEF Calls
<1>3. OkCalls \subseteq OkCalls'
  BY <1>1, <1>2 DEF OkCalls
<1> QED
  BY <1>1, <1>3 DEF OkCalls

LEMMA CallsNotWait ==
  ASSUME NEW ns, NEW err
  PROVE  /\ StartLeaves(ns).op # "wait" /\ StartDependents(ns).op # "wait" /\ Close(ns).op # "wait"
         /\ ReturnIsAllDone.op # "wait" /\ ShutDown(err).op # "wait"
         /\ \A n : CloseIfShuttingDown(n).op # "wait"
BY DEF StartLeaves, StartDependents, Close, ReturnIsAllDone, ShutDown, CloseIfShuttingDown, Call

\* The first call of the agenda, while the session is running.
LEMMA HeadOk ==
  ASSUME IInv, agenda # <<>>
  PROVE  Head(agenda) \in OkCalls /\ Tail(agenda) \in Seq(OkCalls) /\ pc \notin {"run", "returned"}
BY DEF IInv, Quiet

-----------------------------------------------------------------------------
(* Handlers *)

LEMMA StartedKeeps ==
  ASSUME TypeOK, IInv, NEW n \in LcNodes, NEW phase \in Done, NEW rest \in Seq(OkCalls),
         start[n] \notin Done, pc \notin {"run", "returned"}, HandleNodeStarted(n, phase, rest)
  PROVE  agenda' \in Seq(OkCalls') /\ StartFirst' /\ Quiet' /\ CountersExact'
<1>1. n \in Node /\ UNCHANGED graph /\ UNCHANGED <<pc, wait, close, remaining>>
  BY GraphTyped DEF HandleNodeStarted
<1>2. start' = [start EXCEPT ![n] = phase] /\ start' \in [Node -> Phase]
  BY <1>1 DEF HandleNodeStarted, TypeOK, Phase
<1>3. \A m \in LcNodes : start[m] \in Done => start'[m] \in Done
  BY <1>1, <1>2 DEF TypeOK
<1>4. agenda' \in Seq(OkCalls')
  <2>1. NextToStart(n) \subseteq LcNodes
    BY GraphTyped DEF NextToStart
  <2>2. /\ StartDependents(NextToStart(n)) \in Calls
        /\ Wait(n) \in Calls /\ CloseIfShuttingDown(n) \in Calls
    BY <2>1, CallsTyped DEF Errors
  <2>3. StartDependents(NextToStart(n)) \in OkCalls' /\ CloseIfShuttingDown(n) \in OkCalls'
    BY <1>1, <1>3, <2>2, OkCallsKept, CallsNotWait
  <2>4. Wait(n) \in OkCalls'
    <3>1. start'[n] \in Done
      BY <1>1, <1>2 DEF TypeOK
    <3> QED
      BY <1>1, <2>2, <3>1, GraphFixed DEF OkCalls, Wait, Call
  <2>5. rest \in Seq(OkCalls')
    BY <1>1, <1>3, OkCallsKept
  <2> QED
    BY <2>3, <2>4, <2>5, AgendaInSeq DEF HandleNodeStarted
<1>5. StartFirst'
  BY <1>1, <1>3, GraphFixed DEF IInv, StartFirst
<1>6. Quiet'
  BY <1>1 DEF Quiet
<1>7. CountersExact'
  BY <1>1, CountersAreOpen, CountersAreOpenNext DEF IInv, remaining
<1> QED
  BY <1>4, <1>5, <1>6, <1>7

LEMMA StartErrorKeeps ==
  ASSUME TypeOK, IInv, NEW n \in LcNodes, NEW rest \in Seq(OkCalls),
         start[n] \notin Done, pc \notin {"run", "returned"}, HandleNodeStartError(n, rest)
  PROVE  agenda' \in Seq(OkCalls') /\ StartFirst' /\ Quiet' /\ CountersExact'
<1>1. n \in Node /\ UNCHANGED graph /\ UNCHANGED pc
  BY GraphTyped DEF HandleNodeStartError
<1>2. /\ start' = [start EXCEPT ![n] = "completed"] /\ wait' = [wait EXCEPT ![n] = "skipped"]
      /\ close' = [close EXCEPT ![n] = "skipped"]
      /\ remainingWaits' = remainingWaits - 1 /\ remainingCloses' = remainingCloses - 1
  BY DEF HandleNodeStartError
<1>3. wait[n] = "none" /\ close[n] = "none"
  BY DEF IInv, StartFirst
<1>4. \A m \in LcNodes : start[m] \in Done => start'[m] \in Done
  BY <1>1, <1>2 DEF TypeOK, Done
<1>5. agenda' \in Seq(OkCalls')
  <2>1. ShutDown("hook") \in Calls /\ Close(dependsOn[n]) \in Calls
    BY GraphTyped, CallsTyped DEF Errors
  <2>2. ShutDown("hook") \in OkCalls' /\ Close(dependsOn[n]) \in OkCalls' /\ rest \in Seq(OkCalls')
    BY <1>1, <1>4, <2>1, OkCallsKept, CallsNotWait
  <2> QED
    BY <2>2, AgendaInSeq DEF HandleNodeStartError
<1>6. StartFirst'
  BY <1>1, <1>2, GraphFixed DEF IInv, StartFirst, TypeOK, Done
<1>7. Quiet'
  BY <1>1 DEF Quiet
<1>8. CountersExact'
  <2>1. wait \in [Node -> Phase] /\ close \in [Node -> Phase] /\ "skipped" \in Done
        /\ wait[n] \notin Done /\ close[n] \notin Done
    BY <1>3 DEF TypeOK, Done
  <2>2. /\ remainingWaits = Cardinality(Open(wait)) /\ remainingCloses = Cardinality(Open(close))
    BY CountersAreOpen DEF IInv
  <2>3. remainingWaits' = Cardinality(Open(wait')) /\ remainingCloses' = Cardinality(Open(close'))
    BY <1>2, <2>1, <2>2, CountDown
  <2> QED
    BY <1>1, <2>3, CountersAreOpenNext
<1> QED
  BY <1>5, <1>6, <1>7, <1>8

LEMMA WaitedKeeps ==
  ASSUME TypeOK, IInv, NEW n \in LcNodes, NEW failed \in BOOLEAN, NEW phase \in Done,
         NEW rest \in Seq(OkCalls), start[n] \in Done, wait[n] \notin Done,
         pc \notin {"run", "returned"}, HandleNodeWaited(n, failed, phase, rest)
  PROVE  agenda' \in Seq(OkCalls') /\ StartFirst' /\ Quiet' /\ CountersExact'
<1>1. n \in Node /\ UNCHANGED graph /\ UNCHANGED <<pc, start>>
  BY GraphTyped DEF HandleNodeWaited
<1>2. wait' = [wait EXCEPT ![n] = phase] /\ remainingWaits' = remainingWaits - 1
  BY DEF HandleNodeWaited
<1>3. \/ close' = close /\ remainingCloses' = remainingCloses
      \/ /\ close[n] = "none" /\ close' = [close EXCEPT ![n] = "skipped"]
         /\ remainingCloses' = remainingCloses - 1
  BY DEF HandleNodeWaited, EndsClose
<1>4. agenda' \in Seq(OkCalls')
  <2>1. /\ Close({n}) \in Calls /\ ShutDown("hook") \in Calls /\ ShutDown("nil") \in Calls
        /\ ReturnIsAllDone \in Calls
    BY CallsTyped DEF Errors
  <2>2. /\ Close({n}) \in OkCalls' /\ ShutDown("hook") \in OkCalls'
        /\ ShutDown("nil") \in OkCalls' /\ ReturnIsAllDone \in OkCalls' /\ rest \in Seq(OkCalls')
    BY <1>1, <2>1, OkCallsKept, CallsNotWait
  <2>3. \/ agenda' = <<Close({n})>> \o rest
        \/ agenda' = <<ShutDown("hook"), Close({n})>> \o rest
        \/ agenda' = <<ShutDown("nil")>> \o rest
        \/ agenda' = <<ReturnIsAllDone>> \o rest
    BY DEF HandleNodeWaited
  <2> QED
    BY <2>2, <2>3, AgendaInSeq
<1>5. StartFirst'
  BY <1>1, <1>2, <1>3, GraphFixed DEF IInv, StartFirst, TypeOK
<1>6. Quiet'
  BY <1>1 DEF Quiet
<1>7. CountersExact'
  <2>1. wait \in [Node -> Phase] /\ close \in [Node -> Phase] /\ "skipped" \in Done /\ "none" \notin Done
    BY DEF TypeOK, Done
  <2>2. remainingWaits = Cardinality(Open(wait)) /\ remainingCloses = Cardinality(Open(close))
    BY CountersAreOpen DEF IInv
  <2>3. remainingWaits' = Cardinality(Open(wait'))
    BY <1>2, <2>1, <2>2, CountDown
  <2>4. remainingCloses' = Cardinality(Open(close'))
    BY <1>3, <2>1, <2>2, CountDown
  <2> QED
    BY <1>1, <2>3, <2>4, CountersAreOpenNext
<1> QED
  BY <1>4, <1>5, <1>6, <1>7

\* The callers of the next two have set start' and wait'.
LEMMA ClosedKeeps ==
  ASSUME TypeOK, IInv, NEW n \in LcNodes, NEW phase \in Done, NEW rest \in Seq(OkCalls),
         close[n] \notin Done, UNCHANGED graph,
         \A m \in LcNodes : start[m] \in Done => start'[m] \in Done,
         HandleNodeClosed(n, phase, rest)
  PROVE  /\ agenda' \in Seq(OkCalls')
         /\ close' = [close EXCEPT ![n] = phase]
         /\ remainingCloses' = Cardinality(Open(close'))
<1>1. close' = [close EXCEPT ![n] = phase] /\ remainingCloses' = remainingCloses - 1
  BY DEF HandleNodeClosed
<1>2. remainingCloses = Cardinality(Open(close)) /\ close \in [Node -> Phase]
  BY CountersAreOpen DEF IInv, TypeOK
<1>3. remainingCloses' = Cardinality(Open(close'))
  BY <1>1, <1>2, CountDown
<1>4. agenda' \in Seq(OkCalls')
  <2>1. Close(dependsOn[n]) \in Calls
    BY GraphTyped, CallsTyped DEF Errors
  <2>2. Close(dependsOn[n]) \in OkCalls' /\ rest \in Seq(OkCalls')
    BY <2>1, OkCallsKept, CallsNotWait
  <2>3. agenda' = <<Close(dependsOn[n])>> \o rest \/ agenda' = rest
    BY DEF HandleNodeClosed
  <2> QED
    BY <2>2, <2>3, AgendaInSeq
<1> QED
  BY <1>1, <1>3, <1>4

LEMMA CloseHookKeeps ==
  ASSUME TypeOK, IInv, NEW n \in LcNodes, NEW rest \in Seq(OkCalls), close[n] = "none",
         UNCHANGED graph, \A m \in LcNodes : start[m] \in Done => start'[m] \in Done,
         CloseHook(n, rest)
  PROVE  /\ agenda' \in Seq(OkCalls')
         /\ remainingCloses' = Cardinality(Open(close'))
         /\ \A m \in LcNodes \ {n} : close'[m] = close[m] /\ closeCall'[m] = closeCall[m]
         /\ closeCall'[n] = "running" => closeCall[n] = "running" \/ close'[n] = "active"
<1>1. n \in Node /\ close[n] \notin Done /\ close \in [Node -> Phase]
      /\ closeCall \in [Node -> {"none", "running", "returned"}]
  BY GraphTyped DEF TypeOK, Done
<1>2. ASSUME NEW phase \in Done, HandleNodeClosed(n, phase, rest),
             UNCHANGED closeCall \/ closeCall' = [closeCall EXCEPT ![n] = "returned"]
      PROVE  /\ agenda' \in Seq(OkCalls')
             /\ remainingCloses' = Cardinality(Open(close'))
             /\ \A m \in LcNodes \ {n} : close'[m] = close[m] /\ closeCall'[m] = closeCall[m]
             /\ closeCall'[n] = "running" => closeCall[n] = "running" \/ close'[n] = "active"
  <2>1. /\ agenda' \in Seq(OkCalls') /\ close' = [close EXCEPT ![n] = phase]
        /\ remainingCloses' = Cardinality(Open(close'))
    BY <1>1, <1>2, ClosedKeeps
  <2> QED
    BY <1>1, <1>2, <2>1, GraphTyped
<1>3. CASE /\ close' = [close EXCEPT ![n] = "active"]
           /\ closeCall' = [closeCall EXCEPT ![n] = "running"]
           /\ agenda' = rest /\ remainingCloses' = remainingCloses
  <2>1. agenda' \in Seq(OkCalls')
    BY <1>3, OkCallsKept
  <2>2. remainingCloses' = Cardinality(Open(close'))
    BY <1>1, <1>3, CountActive, CountersAreOpen DEF IInv
  <2> QED
    BY <1>1, <1>3, <2>1, <2>2, GraphTyped
<1>4. "skipped" \in Done /\ "completed" \in Done
  BY DEF Done
<1> QED
  BY <1>2, <1>3, <1>4 DEF CloseHook
LEMMA TryStartKeeps ==
  ASSUME TypeOK, IInv, NEW n \in LcNodes, NEW rest \in Seq(OkCalls),
         pc \notin {"run", "returned"}, TryStartNode(n, rest)
  PROVE  IInv'
<1>1. n \in Node
  BY GraphTyped
<1>2. CASE /\ agenda' = (IF start[n] \in Done THEN <<ReturnIsAllDone>> ELSE <<>>) \o rest
           /\ UNCHANGED <<graph, pc, start, wait, close, startCtx, doneCounters, stats, outcome,
                          observed, env>>
  <2>1. agenda' \in Seq(OkCalls')
    <3>1. ReturnIsAllDone \in OkCalls' /\ rest \in Seq(OkCalls')
      BY <1>2, CallsTyped, OkCallsKept, CallsNotWait DEF Errors
    <3> QED
      BY <1>2, <3>1, AgendaInSeq
  <2> QED
    BY <1>2, <2>1, GraphFixed DEF IInv, StartFirst, GoroutinesHavePhases, Quiet, CountersExact,
                                  stats, remaining, env, calls, channels
<1>3. ASSUME start[n] = "none", NEW phase \in Done, HandleNodeStarted(n, phase, rest),
             UNCHANGED startCall \/ \E r \in {"ok", "failed"} : startCall' = [startCall EXCEPT ![n] = r],
             UNCHANGED <<waitCall, closeCall, channels, ctxDone>>
      PROVE  IInv'
  <2>1. agenda' \in Seq(OkCalls') /\ StartFirst' /\ Quiet' /\ CountersExact'
    BY <1>3, StartedKeeps DEF Done
  <2>2. GoroutinesHavePhases'
    <3>1. start' = [start EXCEPT ![n] = phase] /\ UNCHANGED <<graph, wait, close>>
      BY <1>3 DEF HandleNodeStarted
    <3> QED
      BY <1>1, <1>3, <3>1, GraphFixed DEF IInv, GoroutinesHavePhases, TypeOK, Done, channels
  <2> QED
    BY <2>1, <2>2 DEF IInv
<1>4. ASSUME start[n] = "none", HandleNodeStartError(n, rest),
             startCall' = [startCall EXCEPT ![n] = "failed"],
             UNCHANGED <<waitCall, closeCall, channels, ctxDone>>
      PROVE  IInv'
  <2>1. agenda' \in Seq(OkCalls') /\ StartFirst' /\ Quiet' /\ CountersExact'
    BY <1>4, StartErrorKeeps DEF Done
  <2>2. GoroutinesHavePhases'
    <3>1. /\ start' = [start EXCEPT ![n] = "completed"] /\ wait' = [wait EXCEPT ![n] = "skipped"]
          /\ close' = [close EXCEPT ![n] = "skipped"] /\ UNCHANGED graph
      BY <1>4 DEF HandleNodeStartError
    <3>2. wait[n] = "none" /\ close[n] = "none"
      BY <1>4 DEF IInv, StartFirst, Done
    <3> QED
      BY <1>1, <1>4, <3>1, <3>2, GraphFixed DEF IInv, GoroutinesHavePhases, TypeOK, channels
  <2> QED
    BY <2>1, <2>2 DEF IInv
<1>5. ASSUME start[n] = "none", start' = [start EXCEPT ![n] = "active"],
             startCall' = [startCall EXCEPT ![n] = "running"], agenda' = rest,
             UNCHANGED <<graph, pc, wait, close, stats, waitCall, closeCall, channels, ctxDone>>
      PROVE  IInv'
  <2>1. \A m \in LcNodes : start[m] \in Done => start'[m] \in Done
    BY <1>1, <1>5 DEF TypeOK, Done
  <2>2. agenda' \in Seq(OkCalls')
    BY <1>5, <2>1, OkCallsKept
  <2>3. StartFirst'
    BY <1>5, <2>1, GraphFixed DEF IInv, StartFirst
  <2>4. GoroutinesHavePhases'
    BY <1>1, <1>5, GraphFixed DEF IInv, GoroutinesHavePhases, TypeOK, channels
  <2>5. Quiet' /\ CountersExact'
    BY <1>5, GraphFixed DEF IInv, Quiet, CountersExact, stats, remaining
  <2> QED
    BY <2>2, <2>3, <2>4, <2>5 DEF IInv
<1> QED
  BY <1>2, <1>3, <1>4, <1>5 DEF TryStartNode, Done, env, calls

LEMMA TryWaitKeeps ==
  ASSUME TypeOK, IInv, NEW n \in LcNodes, NEW rest \in Seq(OkCalls), start[n] \in Done,
         pc \notin {"run", "returned"}, TryWaitForNode(n, rest)
  PROVE  IInv'
<1>1. n \in Node
  BY GraphTyped
<1>2. CASE /\ agenda' = (IF wait[n] \in Done THEN <<ReturnIsAllDone>> ELSE <<>>) \o rest
           /\ UNCHANGED <<graph, pc, nodes, stats, outcome, observed, env>>
  <2>1. UNCHANGED <<start, wait, close>>
    BY <1>2 DEF nodes
  <2>2. agenda' \in Seq(OkCalls')
    <3>1. ReturnIsAllDone \in OkCalls' /\ rest \in Seq(OkCalls')
      BY <1>2, <2>1, CallsTyped, OkCallsKept, CallsNotWait DEF Errors
    <3> QED
      BY <1>2, <3>1, AgendaInSeq
  <2> QED
    BY <1>2, <2>1, <2>2, GraphFixed
       DEF IInv, StartFirst, GoroutinesHavePhases, Quiet, CountersExact, stats, remaining, env, calls,
           channels
<1>3. ASSUME wait[n] = "none", HandleNodeWaited(n, FALSE, "skipped", rest), UNCHANGED env
      PROVE  IInv'
  <2>1. agenda' \in Seq(OkCalls') /\ StartFirst' /\ Quiet' /\ CountersExact'
    BY <1>3, WaitedKeeps DEF Done
  <2>2. GoroutinesHavePhases'
    <3>1. /\ wait' = [wait EXCEPT ![n] = "skipped"] /\ UNCHANGED <<graph, start>>
          /\ close' = close \/ (close[n] = "none" /\ close' = [close EXCEPT ![n] = "skipped"])
      BY <1>3 DEF HandleNodeWaited, EndsClose
    <3> QED
      BY <1>1, <1>3, <3>1, GraphFixed DEF IInv, GoroutinesHavePhases, TypeOK, env, calls, channels
  <2> QED
    BY <2>1, <2>2 DEF IInv
<1>4. ASSUME wait[n] = "none", wait' = [wait EXCEPT ![n] = "active"],
             waitCall' = [waitCall EXCEPT ![n] = "running"], agenda' = rest,
             UNCHANGED <<graph, pc, start, close, stats, startCall, closeCall, channels>>
      PROVE  IInv'
  <2>1. agenda' \in Seq(OkCalls')
    BY <1>4, OkCallsKept
  <2>2. StartFirst'
    BY <1>1, <1>4, GraphFixed DEF IInv, StartFirst, TypeOK
  <2>3. GoroutinesHavePhases'
    BY <1>1, <1>4, GraphFixed DEF IInv, GoroutinesHavePhases, TypeOK, channels
  <2>4. CountersExact'
    <3>1. Open(wait') = Open(wait) /\ UNCHANGED <<close, remainingWaits, remainingCloses>>
      BY <1>4, CountActive DEF TypeOK, stats, remaining
    <3> QED
      BY <1>4, <3>1, CountersAreOpen, CountersAreOpenNext DEF IInv
  <2>5. Quiet'
    BY <1>4 DEF Quiet
  <2> QED
    BY <2>1, <2>2, <2>3, <2>4, <2>5 DEF IInv
<1> QED
  BY <1>2, <1>3, <1>4 DEF TryWaitForNode

LEMMA TryCloseKeeps ==
  ASSUME TypeOK, IInv, NEW n \in LcNodes, NEW rest \in Seq(OkCalls),
         pc \notin {"run", "returned"}, TryCloseNode(n, rest)
  PROVE  IInv'
<1>1. n \in Node /\ dependsOn[n] \subseteq LcNodes
  BY GraphTyped
<1>2. UNCHANGED graph /\ UNCHANGED <<pc, startCall, waitCall, channels>>
  BY DEF TryCloseNode
<1>3. CASE /\ \E ns \in SUBSET LcNodes : agenda' = <<Close(ns)>> \o rest \/ agenda' = rest
           /\ UNCHANGED <<start, wait, close, doneCounters, remaining, closeCall>>
  <2>1. agenda' \in Seq(OkCalls')
    <3>1. PICK ns \in SUBSET LcNodes : agenda' = <<Close(ns)>> \o rest \/ agenda' = rest
      BY <1>3
    <3>2. Close(ns) \in OkCalls' /\ rest \in Seq(OkCalls')
      BY <1>2, <1>3, CallsTyped, OkCallsKept, CallsNotWait DEF Errors
    <3> QED
      BY <3>1, <3>2, AgendaInSeq
  <2> QED
    BY <1>2, <1>3, <2>1, GraphFixed
       DEF IInv, StartFirst, GoroutinesHavePhases, Quiet, CountersExact, remaining, channels
<1>4. ASSUME close[n] = "none", \A m \in LcNodes : start[m] \in Done => start'[m] \in Done,
             \A m \in LcNodes \ {n} : start'[m] = start[m] /\ wait'[m] = wait[m],
             start'[n] \in Done, start[n] = "none" \/ start'[n] = start[n],
             wait[n] = "none" \/ wait'[n] = wait[n],
             remainingWaits' = Cardinality(Open(wait')),
             \/ HandleNodeClosed(n, "skipped", rest) /\ UNCHANGED closeCall
             \/ CloseHook(n, rest)
      PROVE  IInv'
  <2>1. /\ agenda' \in Seq(OkCalls')
        /\ remainingCloses' = Cardinality(Open(close'))
        /\ \A m \in LcNodes \ {n} : close'[m] = close[m] /\ closeCall'[m] = closeCall[m]
        /\ closeCall'[n] = "running" => closeCall[n] = "running" \/ close'[n] = "active"
    <3>1. CASE CloseHook(n, rest)
      BY <1>2, <1>4, <3>1, CloseHookKeeps
    <3>2. CASE HandleNodeClosed(n, "skipped", rest) /\ UNCHANGED closeCall
      <4>1. /\ agenda' \in Seq(OkCalls') /\ close' = [close EXCEPT ![n] = "skipped"]
            /\ remainingCloses' = Cardinality(Open(close'))
        BY <1>2, <1>4, <3>2, ClosedKeeps DEF Done
      <4> QED
        BY <1>1, <3>2, <4>1, GraphTyped DEF TypeOK
    <3> QED
      BY <1>4, <3>1, <3>2
  <2>2. StartFirst'
    BY <1>2, <1>4, <2>1, GraphFixed DEF IInv, StartFirst
  <2>3. GoroutinesHavePhases'
    <3>1. closeCall[n] # "running" /\ n \notin closeResults
      BY <1>4 DEF IInv, GoroutinesHavePhases
    <3>2. start[n] # "active"
      BY <1>4 DEF Done
    <3>3. ASSUME NEW m \in LcNodes
          PROVE  /\ closeCall'[m] = "running" \/ m \in closeResults' => close'[m] = "active"
                 /\ m \in closeResults' => closeCall'[m] = "returned"
      BY <1>2, <2>1, <3>1 DEF IInv, GoroutinesHavePhases, channels
    <3>4. ASSUME NEW m \in LcNodes
          PROVE  /\ start'[m] = "none" => startCall'[m] = "none"
                 /\ startCall'[m] = "running" \/ m \in startResults' => start'[m] = "active"
                 /\ waitCall'[m] = "running" \/ m \in waitResults' => wait'[m] = "active"
                 /\ m \in startResults' => startCall'[m] \in {"ok", "failed"}
                 /\ m \in waitResults' => waitCall'[m] \in {"nil", "err"}
      BY <1>2, <1>4, <3>2 DEF IInv, GoroutinesHavePhases, channels, Done
    <3> QED
      BY <1>2, <3>3, <3>4, GraphFixed DEF GoroutinesHavePhases
  <2>4. Quiet' /\ CountersExact'
    BY <1>2, <1>4, <2>1, CountersAreOpenNext DEF Quiet
  <2> QED
    BY <2>1, <2>2, <2>3, <2>4 DEF IInv
<1>5. CASE /\ close[n] = "none" /\ start[n] = "none"
           /\ start' = [start EXCEPT ![n] = "skipped"] /\ wait' = [wait EXCEPT ![n] = "skipped"]
           /\ remainingWaits' = remainingWaits - 1
           /\ IF NothingToClose(n) THEN HandleNodeClosed(n, "skipped", rest) /\ UNCHANGED closeCall
                                   ELSE CloseHook(n, rest)
  <2>1. wait[n] = "none"
    BY <1>5 DEF IInv, StartFirst, Done
  <2>2. remainingWaits' = Cardinality(Open(wait'))
    <3>1. wait \in [Node -> Phase] /\ wait[n] \notin Done /\ "skipped" \in Done
      BY <2>1 DEF TypeOK, Done
    <3> QED
      BY <1>5, <3>1, CountDown, CountersAreOpen DEF IInv
  <2>3. /\ \A m \in LcNodes : start[m] \in Done => start'[m] \in Done
        /\ \A m \in LcNodes \ {n} : start'[m] = start[m] /\ wait'[m] = wait[m]
        /\ start'[n] \in Done
    BY <1>1, <1>5, GraphTyped DEF TypeOK, Done
  <2> QED
    BY <1>4, <1>5, <2>1, <2>2, <2>3
<1>6. CASE /\ close[n] = "none" /\ start[n] # "none" /\ start[n] # "active"
           /\ UNCHANGED <<start, wait, remainingWaits>> /\ CloseHook(n, rest)
  <2>1. start[n] \in Done
    BY <1>1, <1>6 DEF TypeOK, Phase, Done
  <2>2. remainingWaits' = Cardinality(Open(wait'))
    BY <1>6, CountersAreOpen DEF IInv
  <2> QED
    BY <1>4, <1>6, <2>1, <2>2
<1>7. /\ UnderWay(n) <=> start[n] = "active" \/ close[n] = "active"
      /\ dependsOn[n] \in SUBSET LcNodes /\ {} \in SUBSET LcNodes
  BY <1>1 DEF UnderWay
<1> QED
  BY <1>3, <1>5, <1>6, <1>7 DEF TryCloseNode
-----------------------------------------------------------------------------
(* Initial states and steps *)

LEMMA InitIInv == Init => IInv
<1> SUFFICES ASSUME Init PROVE IInv
  OBVIOUS
<1>1. TypeOK
  BY InitTyped
<1>2. \A n \in LcNodes : n \in Node
  BY <1>1, GraphTyped
<1>3. agenda \in Seq(OkCalls)
  BY DEF Init
<1>4. CountersExact
  <2>1. Open(wait) = LcNodes /\ Open(close) = LcNodes
    BY <1>2 DEF Init, Open, Done
  <2> QED
    BY <2>1, CountersAreOpen DEF Init
<1> QED
  BY <1>2, <1>3, <1>4 DEF Init, IInv, StartFirst, GoroutinesHavePhases, Quiet, NothingStarted, Done

\* A step that touches neither a phase nor a counter keeps what is about them.
LEMMA AgendaStepKeeps ==
  ASSUME TypeOK, IInv, UNCHANGED <<start, wait, close>>, UNCHANGED graph,
         UNCHANGED <<remainingWaits, remainingCloses>>, UNCHANGED calls, UNCHANGED channels
  PROVE  StartFirst' /\ GoroutinesHavePhases' /\ CountersExact' /\ OkCalls' = OkCalls
BY GraphFixed DEF IInv, StartFirst, GoroutinesHavePhases, CountersExact, OkCalls, calls, channels

LEMMA EnvStepKeeps ==
  ASSUME TypeOK, IInv, UNCHANGED session, GoroutinesHavePhases'
  PROVE  IInv'
<1>1. UNCHANGED <<dependsOn, kind, pc, agenda, start, wait, close, remainingWaits, remainingCloses>>
  BY DEF session, graph, stats, remaining
<1>2. UNCHANGED graph
  BY <1>1 DEF graph
<1> QED
  BY <1>1, <1>2, GraphFixed
     DEF IInv, StartFirst, CountersExact, Quiet, NothingStarted, AllOver, IsDone, OkCalls

\* When the counters are zero, all phases are over.
LEMMA AllDoneMeansOver == ASSUME TypeOK, CountersExact, AllDone PROVE AllOver
<1>1. Cardinality(Open(wait)) = 0 /\ Cardinality(Open(close)) = 0
  BY OpenFinite, CountersAreOpen DEF AllDone
<1>2. Open(wait) = {} /\ Open(close) = {}
  BY <1>1, OpenFinite, FS_EmptySet
<1> QED
  BY <1>2 DEF Open, AllOver, IsDone

LEMMA ReceiveKeeps ==
  ASSUME TypeOK, IInv, NEW n \in LcNodes,
         ReceiveStartResult(n) \/ ReceiveWaitResult(n) \/ ReceiveClosed(n)
  PROVE  IInv'
<1>1. n \in Node /\ <<>> \in Seq(OkCalls) /\ pc \notin {"run", "returned"}
  BY GraphTyped DEF ReceiveStartResult, ReceiveWaitResult, ReceiveClosed, Receiving
<1>2. CASE ReceiveStartResult(n)
  <2>1. start[n] = "active" /\ startCall[n] # "running" /\ wait[n] = "none" /\ close[n] = "none"
    BY <1>2 DEF ReceiveStartResult, IInv, GoroutinesHavePhases, StartFirst, Done
  <2>2. /\ startResults' = startResults \ {n}
        /\ UNCHANGED <<calls, waitResults, closeResults>>
    BY <1>2 DEF ReceiveStartResult
  <2>3. CASE HandleNodeStarted(n, "completed", <<>>)
    <3>1. agenda' \in Seq(OkCalls') /\ StartFirst' /\ Quiet' /\ CountersExact'
      BY <1>1, <2>1, <2>3, StartedKeeps DEF Done
    <3>2. start' = [start EXCEPT ![n] = "completed"] /\ UNCHANGED <<graph, wait, close>>
      BY <2>3 DEF HandleNodeStarted
    <3>3. GoroutinesHavePhases'
      BY <1>1, <2>1, <2>2, <3>2, GraphFixed DEF IInv, GoroutinesHavePhases, TypeOK, calls
    <3> QED
      BY <3>1, <3>3 DEF IInv
  <2>4. CASE HandleNodeStartError(n, <<>>)
    <3>1. agenda' \in Seq(OkCalls') /\ StartFirst' /\ Quiet' /\ CountersExact'
      BY <1>1, <2>1, <2>4, StartErrorKeeps DEF Done
    <3>2. /\ start' = [start EXCEPT ![n] = "completed"] /\ wait' = [wait EXCEPT ![n] = "skipped"]
          /\ close' = [close EXCEPT ![n] = "skipped"] /\ UNCHANGED graph
      BY <2>4 DEF HandleNodeStartError
    <3>3. GoroutinesHavePhases'
      BY <1>1, <2>1, <2>2, <3>2, GraphFixed DEF IInv, GoroutinesHavePhases, TypeOK, calls
    <3> QED
      BY <3>1, <3>3 DEF IInv
  <2> QED
    BY <1>2, <2>3, <2>4 DEF ReceiveStartResult
<1>3. CASE ReceiveWaitResult(n)
  <2>1. wait[n] = "active" /\ waitCall[n] # "running" /\ start[n] \in Done
    BY <1>3 DEF ReceiveWaitResult, IInv, GoroutinesHavePhases, StartFirst
  <2>2. /\ waitResults' = waitResults \ {n}
        /\ HandleNodeWaited(n, RunFailed(n), "completed", <<>>)
        /\ UNCHANGED <<calls, startResults, closeResults>>
    BY <1>3 DEF ReceiveWaitResult
  <2>3. agenda' \in Seq(OkCalls') /\ StartFirst' /\ Quiet' /\ CountersExact'
    <3>1. RunFailed(n) \in BOOLEAN
      BY DEF RunFailed
    <3> QED
      BY <1>1, <2>1, <2>2, <3>1, WaitedKeeps DEF Done
  <2>4. /\ wait' = [wait EXCEPT ![n] = "completed"] /\ UNCHANGED <<graph, start>>
        /\ close' = close \/ (close[n] = "none" /\ close' = [close EXCEPT ![n] = "skipped"])
    BY <2>2 DEF HandleNodeWaited, EndsClose
  <2>5. GoroutinesHavePhases'
    BY <1>1, <2>1, <2>2, <2>4, GraphFixed DEF IInv, GoroutinesHavePhases, TypeOK, calls
  <2> QED
    BY <2>3, <2>5 DEF IInv
<1>4. CASE ReceiveClosed(n)
  <2>1. close[n] = "active" /\ closeCall[n] # "running" /\ start[n] \in Done
    BY <1>4 DEF ReceiveClosed, IInv, GoroutinesHavePhases, StartFirst
  <2>2. /\ closeResults' = closeResults \ {n} /\ HandleNodeClosed(n, "completed", <<>>)
        /\ UNCHANGED graph
        /\ UNCHANGED <<pc, start, wait, remainingWaits, calls, startResults, waitResults>>
    BY <1>4 DEF ReceiveClosed
  <2>3. /\ agenda' \in Seq(OkCalls') /\ close' = [close EXCEPT ![n] = "completed"]
        /\ remainingCloses' = Cardinality(Open(close'))
    BY <2>1, <1>1, <2>2, ClosedKeeps DEF Done
  <2>4. StartFirst'
    BY <1>1, <2>1, <2>2, <2>3, GraphFixed DEF IInv, StartFirst, TypeOK
  <2>5. GoroutinesHavePhases'
    BY <1>1, <2>1, <2>2, <2>3, GraphFixed DEF IInv, GoroutinesHavePhases, TypeOK, calls
  <2>6. Quiet' /\ CountersExact'
    BY <1>1, <2>2, <2>3, CountersAreOpen, CountersAreOpenNext DEF IInv, Quiet
  <2> QED
    BY <2>3, <2>4, <2>5, <2>6 DEF IInv
<1> QED
  BY <1>2, <1>3, <1>4

LEMMA NextIInv == TypeOK /\ IInv /\ [Next]_vars => IInv'
<1> SUFFICES ASSUME TypeOK, IInv, [Next]_vars PROVE IInv'
  OBVIOUS
<1>1. CASE RunBegins
  <2>1. /\ UNCHANGED graph /\ UNCHANGED calls /\ UNCHANGED channels
        /\ UNCHANGED <<start, wait, close, remainingWaits, remainingCloses>>
    BY <1>1 DEF RunBegins, nodes, stats, remaining, env
  <2>2. StartFirst' /\ GoroutinesHavePhases' /\ CountersExact' /\ OkCalls' = OkCalls
    BY <2>1, AgendaStepKeeps
  <2>3. agenda = <<>> /\ NothingStarted
    BY <1>1 DEF RunBegins, IInv, Quiet
  <2>4. agenda' \in Seq(OkCalls') /\ Quiet'
    <3>1. CASE pc' = "returned" /\ UNCHANGED agenda
      BY <2>1, <2>2, <2>3, <3>1, GraphFixed DEF Quiet, NothingStarted
    <3>2. CASE pc' = "starting" /\ agenda' = <<StartLeaves(Leaves)>>
      <4>1. StartLeaves(Leaves) \in OkCalls
        BY CallsTyped, CallsNotWait DEF Errors, Leaves, LcNodes, OkCalls
      <4>2. agenda' \in Seq(OkCalls)
        BY <3>2, <4>1
      <4> QED
        BY <2>2, <3>2, <4>2 DEF Quiet
    <3> QED
      BY <1>1, <3>1, <3>2 DEF RunBegins
  <2> QED
    BY <2>2, <2>4 DEF IInv
<1>2. CASE StartNextLeaf
  <2> SUFFICES ASSUME NEW n \in Head(agenda).nodes, agenda # <<>>,
                      TryStartNode(n, <<StartLeaves(Head(agenda).nodes \ {n})>> \o Tail(agenda))
               PROVE  IInv'
    BY <1>2 DEF StartNextLeaf, CallIs
  <2>1. <<StartLeaves(Head(agenda).nodes \ {n})>> \o Tail(agenda) \in Seq(OkCalls)
    <3>1. StartLeaves(Head(agenda).nodes \ {n}) \in OkCalls
      BY HeadTyped, CallsTyped, CallsNotWait DEF Errors, OkCalls
    <3> QED
      BY <3>1, HeadOk, AgendaInSeq
  <2> QED
    BY <2>1, HeadTyped, HeadOk, TryStartKeeps
<1>3. CASE LeavesStarted
  <2>1. /\ UNCHANGED graph /\ UNCHANGED calls /\ UNCHANGED channels
        /\ UNCHANGED <<start, wait, close, remainingWaits, remainingCloses>>
        /\ pc' = "loop" /\ agenda # <<>> /\ agenda' = Tail(agenda)
    BY <1>3 DEF LeavesStarted, CallIs, nodes, stats, remaining, env
  <2>2. StartFirst' /\ GoroutinesHavePhases' /\ CountersExact' /\ OkCalls' = OkCalls
    BY <2>1, AgendaStepKeeps
  <2> QED
    BY <2>1, <2>2, HeadOk DEF IInv, Quiet
<1>4. CASE StartNextDependent
  <2> SUFFICES ASSUME NEW n \in Head(agenda).nodes, agenda # <<>>,
                      TryStartNode(n, <<StartDependents(Head(agenda).nodes \ {n})>> \o Tail(agenda))
               PROVE  IInv'
    BY <1>4 DEF StartNextDependent, CallIs
  <2>1. <<StartDependents(Head(agenda).nodes \ {n})>> \o Tail(agenda) \in Seq(OkCalls)
    <3>1. StartDependents(Head(agenda).nodes \ {n}) \in OkCalls
      BY HeadTyped, CallsTyped, CallsNotWait DEF Errors, OkCalls
    <3> QED
      BY <3>1, HeadOk, AgendaInSeq
  <2> QED
    BY <2>1, HeadTyped, HeadOk, TryStartKeeps
<1>5. CASE WaitForStarted
  <2> SUFFICES ASSUME NEW n \in Head(agenda).nodes, agenda # <<>>, Head(agenda).op = "wait",
                      TryWaitForNode(n, Tail(agenda))
               PROVE  IInv'
    BY <1>5 DEF WaitForStarted, CallIs
  <2>1. start[n] \in Done
    BY HeadOk DEF OkCalls
  <2> QED
    BY <2>1, HeadTyped, HeadOk, TryWaitKeeps
<1>6. CASE CloseStarted
  <2>1. /\ UNCHANGED graph /\ UNCHANGED calls /\ UNCHANGED channels
        /\ UNCHANGED <<pc, start, wait, close, remainingWaits, remainingCloses>>
        /\ agenda # <<>>
        /\ agenda' = <<Close(ToCloseAfterStart(Head(agenda).nodes))>> \o Tail(agenda)
    BY <1>6 DEF CloseStarted, CallIs, nodes, stats, remaining, env
  <2>2. StartFirst' /\ GoroutinesHavePhases' /\ CountersExact' /\ OkCalls' = OkCalls
    BY <2>1, AgendaStepKeeps
  <2>3. Close(ToCloseAfterStart(Head(agenda).nodes)) \in OkCalls
    <3>1. ToCloseAfterStart(Head(agenda).nodes) \subseteq LcNodes
      BY <2>1, HeadTyped DEF ToCloseAfterStart
    <3> QED
      BY <3>1, CallsTyped, CallsNotWait DEF Errors, OkCalls
  <2>4. agenda' \in Seq(OkCalls')
    BY <2>1, <2>2, <2>3, HeadOk, AgendaInSeq
  <2>5. Quiet'
    BY <2>1, HeadOk DEF Quiet
  <2> QED
    BY <2>2, <2>4, <2>5 DEF IInv
<1>7. CASE CloseNext
  <2> SUFFICES ASSUME NEW n \in Head(agenda).nodes, agenda # <<>>,
                      TryCloseNode(n, <<Close(Head(agenda).nodes \ {n})>> \o Tail(agenda))
               PROVE  IInv'
    BY <1>7 DEF CloseNext, CallIs
  <2>1. <<Close(Head(agenda).nodes \ {n})>> \o Tail(agenda) \in Seq(OkCalls)
    <3>1. Close(Head(agenda).nodes \ {n}) \in OkCalls
      BY HeadTyped, CallsTyped, CallsNotWait DEF Errors, OkCalls
    <3> QED
      BY <3>1, HeadOk, AgendaInSeq
  <2> QED
    BY <2>1, HeadTyped, HeadOk, TryCloseKeeps
<1>8. CASE TryShutDown
  <2>1. /\ UNCHANGED graph /\ UNCHANGED calls /\ UNCHANGED channels
        /\ UNCHANGED <<pc, start, wait, close, remainingWaits, remainingCloses>>
        /\ agenda # <<>>
    BY <1>8 DEF TryShutDown, CallIs, stats, remaining, env
  <2>2. StartFirst' /\ GoroutinesHavePhases' /\ CountersExact' /\ OkCalls' = OkCalls
    BY <2>1, AgendaStepKeeps
  <2>3. agenda' \in Seq(OkCalls')
    <3>1. ReturnIsAllDone \in OkCalls /\ Close(Roots) \in OkCalls
      BY CallsTyped, CallsNotWait DEF Errors, OkCalls, Roots
    <3>2. agenda' = <<ReturnIsAllDone>> \o Tail(agenda) \/ agenda' = <<Close(Roots)>> \o Tail(agenda)
      BY <1>8 DEF TryShutDown
    <3> QED
      BY <2>1, <2>2, <3>1, <3>2, HeadOk, AgendaInSeq
  <2>4. Quiet'
    BY <2>1, HeadOk DEF Quiet
  <2> QED
    BY <2>2, <2>3, <2>4 DEF IInv
<1>9. CASE ReturnFromCall
  <2>1. /\ UNCHANGED graph /\ UNCHANGED calls /\ UNCHANGED channels
        /\ UNCHANGED <<start, wait, close, remainingWaits, remainingCloses>>
        /\ agenda # <<>>
    BY <1>9 DEF ReturnFromCall, CallIs, nodes, stats, remaining, env
  <2>2. StartFirst' /\ GoroutinesHavePhases' /\ CountersExact' /\ OkCalls' = OkCalls
    BY <2>1, AgendaStepKeeps
  <2>3. CASE AllDone /\ agenda' = <<>> /\ pc' = "returned"
    <3>1. AllOver'
      BY <2>1, <2>3, AllDoneMeansOver, GraphFixed DEF AllOver, IsDone, IInv
    <3> QED
      BY <2>2, <2>3, <3>1 DEF IInv, Quiet
  <2>4. CASE agenda' = Tail(agenda) /\ UNCHANGED pc
    BY <2>1, <2>2, <2>4, HeadOk DEF IInv, Quiet
  <2> QED
    BY <1>9, <2>3, <2>4 DEF ReturnFromCall
<1>10. CASE \E n \in LcNodes : ReceiveStartResult(n) \/ ReceiveWaitResult(n) \/ ReceiveClosed(n)
  BY <1>10, ReceiveKeeps
<1>11. CASE ReceiveCtxDone
  <2>1. /\ UNCHANGED graph /\ UNCHANGED calls /\ UNCHANGED channels
        /\ UNCHANGED <<start, wait, close, remainingWaits, remainingCloses>>
        /\ pc' = "loopAfterCtxDone" /\ agenda' = <<ShutDown("ctx")>>
    BY <1>11 DEF ReceiveCtxDone, nodes, stats, remaining, env
  <2>2. StartFirst' /\ GoroutinesHavePhases' /\ CountersExact' /\ OkCalls' = OkCalls
    BY <2>1, AgendaStepKeeps
  <2>3. ShutDown("ctx") \in OkCalls
    BY CallsTyped, CallsNotWait DEF Errors, OkCalls
  <2>4. agenda' \in Seq(OkCalls)
    BY <2>1, <2>3
  <2> QED
    BY <2>1, <2>2, <2>4 DEF IInv, Quiet
<1>12. ASSUME NEW n \in LcNodes,
              StartReturns(n) \/ WaitReturns(n) \/ CloseReturns(n) \/ StartTimesOut(n)
       PROVE  IInv'
  <2>1. UNCHANGED session /\ UNCHANGED graph /\ UNCHANGED <<start, wait, close>> /\ n \in Node
    BY <1>12, GraphTyped DEF StartReturns, WaitReturns, CloseReturns, StartTimesOut, session
  <2>2. CASE StartReturns(n)
    <3>1. GoroutinesHavePhases'
      BY <2>1, <2>2, GraphFixed DEF StartReturns, IInv, GoroutinesHavePhases, TypeOK
    <3> QED
      BY <2>1, <3>1, EnvStepKeeps
  <2>3. CASE WaitReturns(n)
    <3>1. GoroutinesHavePhases'
      BY <2>1, <2>3, GraphFixed DEF WaitReturns, IInv, GoroutinesHavePhases, TypeOK
    <3> QED
      BY <2>1, <3>1, EnvStepKeeps
  <2>4. CASE CloseReturns(n)
    <3>1. GoroutinesHavePhases'
      BY <2>1, <2>4, GraphFixed DEF CloseReturns, IInv, GoroutinesHavePhases, TypeOK
    <3> QED
      BY <2>1, <3>1, EnvStepKeeps
  <2>5. CASE StartTimesOut(n)
    <3>1. GoroutinesHavePhases'
      BY <2>1, <2>5, GraphFixed DEF StartTimesOut, env, calls, channels, IInv, GoroutinesHavePhases
    <3> QED
      BY <2>1, <3>1, EnvStepKeeps
  <2> QED
    BY <1>12, <2>2, <2>3, <2>4, <2>5
<1>13. CASE CancelRunCtx \/ Finished \/ UNCHANGED vars
  <2>1. UNCHANGED session /\ UNCHANGED graph /\ UNCHANGED <<start, wait, close>>
        /\ UNCHANGED calls /\ UNCHANGED channels
    BY <1>13 DEF CancelRunCtx, Finished, vars, session, nodes, env
  <2>2. GoroutinesHavePhases'
    BY <2>1, GraphFixed DEF calls, channels, IInv, GoroutinesHavePhases
  <2> QED
    BY <2>1, <2>2, EnvStepKeeps
<1> QED
  BY <1>1, <1>2, <1>3, <1>4, <1>5, <1>6, <1>7, <1>8, <1>9, <1>10, <1>11, <1>12, <1>13
     DEF Next, SessionStep

\* The strengthening holds in every reachable state.
THEOREM Inductive == Spec => []IInv
<1>1. Init => IInv
  BY InitIInv
<1>2. TypeOK /\ IInv /\ [Next]_vars => IInv'
  BY NextIInv
<1> QED
  BY <1>1, <1>2, TypeInvariant, PTL DEF Spec

-----------------------------------------------------------------------------
(* The theorems *)

\* lcNodesStats.isAllDone is true exactly when no phase is open: the counters
\* count the open wait and close phases in every reachable state.
THEOREM CountersCorrect == Spec => []CountersExact
<1>1. IInv => CountersExact
  BY DEF IInv
<1> QED
  BY <1>1, Inductive, PTL

\* Run leaves no goroutine behind, whatever the graph and whatever the hooks do.
THEOREM NoGoroutineLeak == Spec => []NoGoroutineLeft
<1>1. TypeOK /\ IInv => NoGoroutineLeft
  <2> SUFFICES ASSUME TypeOK, IInv, pc = "returned"
               PROVE  /\ startResults = {} /\ waitResults = {} /\ closeResults = {}
                      /\ \A n \in LcNodes : "running" \notin {startCall[n], waitCall[n], closeCall[n]}
    BY DEF NoGoroutineLeft
  <2>1. \A n \in LcNodes : start[n] # "active" /\ wait[n] # "active" /\ close[n] # "active"
    <3>1. CASE NothingStarted
      BY <3>1 DEF NothingStarted, IInv, StartFirst, Done
    <3>2. CASE AllOver
      BY <3>2 DEF AllOver, IsDone, IInv, StartFirst, Done
    <3> QED
      BY <3>1, <3>2 DEF IInv, Quiet
  <2>2. startResults \subseteq LcNodes /\ waitResults \subseteq LcNodes /\ closeResults \subseteq LcNodes
    BY DEF TypeOK
  <2> QED
    BY <2>1, <2>2 DEF IInv, GoroutinesHavePhases
<1> QED
  BY <1>1, Inductive, TypeInvariant, PTL

-----------------------------------------------------------------------------
(* What a step does to a node. Most steps move one node, by one of the moves   *)
(* below; what follows about nodes needs to know no more of the handlers.      *)

OthersStay(n) ==
    \A m \in LcNodes \ {n} :
        UNCHANGED <<start[m], wait[m], close[m], startCall[m], waitCall[m], closeCall[m]>>
PhasesMove(n, s, w, c) == start'[n] = s /\ wait'[n] = w /\ close'[n] = c
CallsStay(n) == UNCHANGED <<startCall[n], waitCall[n], closeCall[n]>>
StartCallMoves(n, res) == startCall'[n] = res /\ UNCHANGED <<waitCall[n], closeCall[n]>>
CloseCallMoves(n, res) == closeCall'[n] = res /\ UNCHANGED <<startCall[n], waitCall[n]>>

Starts(n) ==
    /\ start[n] = "none"
    /\ \/ PhasesMove(n, "skipped", wait[n], close[n]) /\ ~HasStarter(n) /\ CallsStay(n)
       \/ PhasesMove(n, "completed", wait[n], close[n]) /\ StartCallMoves(n, "ok")
       \/ PhasesMove(n, "active", wait[n], close[n]) /\ StartCallMoves(n, "running")
GetsReady(n) ==
    start[n] = "active" /\ startCall[n] = "ok"
    /\ PhasesMove(n, "completed", wait[n], close[n]) /\ CallsStay(n)
FailsToStart(n) ==
    /\ start[n] = "active" \/ (start[n] = "none" /\ n \in SharedHook)
    /\ PhasesMove(n, "completed", "skipped", "skipped") /\ StartCallMoves(n, "failed")
BeginsWait(n) ==
    /\ start[n] \in Done /\ wait[n] = "none"
    /\ \/ ~HasWaiter(n) /\ PhasesMove(n, start[n], "skipped", close[n]) /\ CallsStay(n)
       \/ /\ HasWaiter(n) /\ PhasesMove(n, start[n], "active", close[n])
          /\ waitCall'[n] = "running" /\ UNCHANGED <<startCall[n], closeCall[n]>>
EndsWait(n) ==
    /\ wait[n] = "active" /\ waitCall[n] \in {"nil", "err"}
    /\ \E c \in {close[n], "skipped"} :
          PhasesMove(n, start[n], "completed", c) /\ (c # close[n] => close[n] = "none")
    /\ CallsStay(n)
IsSkipped(n) ==
    /\ start[n] = "none"
    /\ \/ PhasesMove(n, "skipped", "skipped", "skipped") /\ CallsStay(n)
       \/ /\ ~HasStarter(n) /\ HasCloser(n) /\ ~HasWaiter(n)
          /\ PhasesMove(n, "skipped", "skipped", "active") /\ CloseCallMoves(n, "running")
BeginsClose(n) ==
    /\ start[n] \in Done /\ close[n] = "none"
    /\ \/ /\ ~HasCloser(n) \/ (HasWaiter(n) /\ wait[n] \in Done)
          /\ PhasesMove(n, start[n], wait[n], "skipped") /\ CallsStay(n)
       \/ /\ HasWaiter(n) /\ wait[n] \notin Done /\ ~NeededByDependents(n)
          /\ PhasesMove(n, start[n], wait[n], "completed") /\ CloseCallMoves(n, "returned")
       \/ /\ HasCloser(n) /\ ~HasWaiter(n)
          /\ PhasesMove(n, start[n], wait[n], "active") /\ CloseCallMoves(n, "running")
EndsClosing(n) ==
    close[n] = "active" /\ closeCall[n] = "returned"
    /\ PhasesMove(n, start[n], wait[n], "completed") /\ CallsStay(n)
CallReturns(n) ==
    /\ PhasesMove(n, start[n], wait[n], close[n])
    /\ \/ startCall[n] = "running" /\ \E r \in {"ok", "failed"} : StartCallMoves(n, r)
       \/ closeCall[n] = "running" /\ CloseCallMoves(n, "returned")
       \/ /\ waitCall[n] = "running" /\ waitCall'[n] \in {"nil", "err"}
          /\ UNCHANGED <<startCall[n], closeCall[n]>>

\* A node that is moved was not done, and its dependencies count it once it is.
Moves(n) ==
    /\ OthersStay(n) /\ ~IsDone(n)
    /\ IF IsDone(n)' THEN CountDoneDependent(n) ELSE UNCHANGED doneDependents
    /\ \/ Starts(n) \/ GetsReady(n) \/ FailsToStart(n) \/ BeginsWait(n) \/ EndsWait(n)
       \/ IsSkipped(n) \/ BeginsClose(n) \/ EndsClosing(n) \/ CallReturns(n)

NothingMoves == UNCHANGED <<start, wait, close, doneDependents, startCall, waitCall, closeCall>>

NodeStep == UNCHANGED graph /\ (NothingMoves \/ \E n \in LcNodes : Moves(n))

LEMMA TryStartMoves ==
  ASSUME TypeOK, IInv, NEW n \in LcNodes, NEW rest, TryStartNode(n, rest)
  PROVE  NodeStep
<1>1. n \in Node /\ \A m \in LcNodes : m \in Node
  BY GraphTyped
<1>2. /\ start \in [Node -> Phase] /\ wait \in [Node -> Phase] /\ close \in [Node -> Phase]
      /\ startCall \in [Node -> {"none", "running", "ok", "failed"}]
  BY DEF TypeOK
<1>3. start[n] \notin Done => wait[n] = "none" /\ close[n] = "none" /\ ~IsDone(n)
  BY DEF IInv, StartFirst, IsDone, Done
<1>4. CASE UNCHANGED <<graph, start, wait, close, doneCounters, env>>
  BY <1>4 DEF NodeStep, NothingMoves, doneCounters, env, calls
<1>5. ASSUME start[n] = "none", NEW phase \in Done, HandleNodeStarted(n, phase, rest),
             \/ phase = "skipped" /\ ~HasStarter(n) /\ UNCHANGED env
             \/ phase = "completed" /\ startCall' = [startCall EXCEPT ![n] = "ok"] /\ UNCHANGED <<waitCall, closeCall>>
      PROVE  NodeStep
  <2>1. /\ start' = [start EXCEPT ![n] = phase] /\ UNCHANGED <<wait, close, doneDependents>>
        /\ UNCHANGED graph /\ UNCHANGED <<waitCall, closeCall>>
    BY <1>5 DEF HandleNodeStarted, doneCounters, env, calls
  <2>2. OthersStay(n)
    BY <1>1, <1>2, <1>5, <2>1 DEF OthersStay, env, calls
  <2>3. Starts(n)
    BY <1>1, <1>2, <1>5, <2>1 DEF Starts, PhasesMove, CallsStay, StartCallMoves, env, calls
  <2>4. ~IsDone(n) /\ ~IsDone(n)'
    BY <1>3, <1>5, <2>1 DEF IsDone, Done
  <2> QED
    BY <2>1, <2>2, <2>3, <2>4 DEF NodeStep, Moves
<1>6. ASSUME start[n] = "none", n \in SharedHook, HandleNodeStartError(n, rest),
             startCall' = [startCall EXCEPT ![n] = "failed"], UNCHANGED <<waitCall, closeCall>>
      PROVE  NodeStep
  <2>1. /\ start' = [start EXCEPT ![n] = "completed"] /\ wait' = [wait EXCEPT ![n] = "skipped"]
        /\ close' = [close EXCEPT ![n] = "skipped"] /\ CountDoneDependent(n) /\ UNCHANGED graph
    BY <1>6 DEF HandleNodeStartError
  <2>2. OthersStay(n)
    BY <1>1, <1>2, <1>6, <2>1 DEF OthersStay
  <2>3. FailsToStart(n)
    BY <1>1, <1>2, <1>6, <2>1 DEF FailsToStart, PhasesMove, StartCallMoves, Done
  <2>4. ~IsDone(n) /\ IsDone(n)'
    BY <1>1, <1>2, <1>3, <1>6, <2>1 DEF IsDone, Done
  <2> QED
    BY <2>1, <2>2, <2>3, <2>4 DEF NodeStep, Moves
<1>7. ASSUME start[n] = "none", start' = [start EXCEPT ![n] = "active"],
             startCall' = [startCall EXCEPT ![n] = "running"],
             UNCHANGED graph, UNCHANGED <<wait, close, doneCounters, waitCall, closeCall>>
      PROVE  NodeStep
  <2>1. OthersStay(n)
    BY <1>1, <1>2, <1>7 DEF OthersStay
  <2>2. Starts(n)
    BY <1>1, <1>2, <1>7 DEF Starts, PhasesMove, StartCallMoves
  <2>3. ~IsDone(n) /\ ~IsDone(n)'
    BY <1>3, <1>7 DEF IsDone, Done
  <2> QED
    BY <1>7, <2>1, <2>2, <2>3 DEF NodeStep, Moves, doneCounters
<1>8. "skipped" \in Done /\ "completed" \in Done
  BY DEF Done
<1> QED
  BY <1>4, <1>5, <1>6, <1>7, <1>8 DEF TryStartNode

LEMMA WaitedMoves ==
  ASSUME TypeOK, IInv, NEW n \in LcNodes, NEW failed, NEW phase, NEW rest,
         HandleNodeWaited(n, failed, phase, rest), start[n] \in Done, UNCHANGED calls,
         \/ phase = "skipped" /\ wait[n] = "none" /\ ~HasWaiter(n)
         \/ phase = "completed" /\ wait[n] = "active" /\ waitCall[n] \in {"nil", "err"}
  PROVE  NodeStep
<1>1. n \in Node /\ \A m \in LcNodes : m \in Node
  BY GraphTyped
<1>2. wait \in [Node -> Phase] /\ close \in [Node -> Phase]
  BY DEF TypeOK
<1>3. /\ UNCHANGED graph /\ UNCHANGED start /\ wait' = [wait EXCEPT ![n] = phase]
      /\ IF phase = "completed" /\ close[n] = "none"
         THEN close' = [close EXCEPT ![n] = "skipped"] ELSE close' = close
      /\ IF close'[n] \in Done THEN CountDoneDependent(n) ELSE UNCHANGED doneDependents
  BY DEF HandleNodeWaited, EndsClose
<1>4. UNCHANGED <<startCall, waitCall, closeCall>>
  BY DEF calls
<1>5. OthersStay(n)
  BY <1>1, <1>2, <1>3, <1>4 DEF OthersStay
<1>6. BeginsWait(n) \/ EndsWait(n)
  BY <1>1, <1>2, <1>3, <1>4 DEF BeginsWait, EndsWait, PhasesMove, CallsStay
<1>7. ~IsDone(n) /\ (IsDone(n)' <=> close'[n] \in Done)
  BY <1>1, <1>2, <1>3 DEF IsDone, Done
<1> QED
  BY <1>3, <1>5, <1>6, <1>7 DEF NodeStep, Moves

LEMMA TryWaitMoves ==
  ASSUME TypeOK, IInv, NEW n \in LcNodes, NEW rest, start[n] \in Done, TryWaitForNode(n, rest)
  PROVE  NodeStep
<1>1. n \in Node /\ \A m \in LcNodes : m \in Node
  BY GraphTyped
<1>2. CASE UNCHANGED graph /\ UNCHANGED <<nodes, env>>
  BY <1>2 DEF NodeStep, NothingMoves, nodes, doneCounters, env, calls
<1>3. CASE wait[n] = "none" /\ ~HasWaiter(n) /\ HandleNodeWaited(n, FALSE, "skipped", rest) /\ UNCHANGED env
  BY <1>3, WaitedMoves DEF env
<1>4. CASE /\ wait[n] = "none" /\ HasWaiter(n) /\ wait' = [wait EXCEPT ![n] = "active"]
           /\ waitCall' = [waitCall EXCEPT ![n] = "running"] /\ UNCHANGED graph
           /\ UNCHANGED <<start, close, doneCounters, startCall, closeCall>>
  <2>1. wait \in [Node -> Phase] /\ waitCall \in [Node -> {"none", "running", "nil", "err"}]
    BY DEF TypeOK
  <2>2. OthersStay(n) /\ BeginsWait(n)
    BY <1>1, <1>4, <2>1 DEF OthersStay, BeginsWait, PhasesMove
  <2>3. ~IsDone(n) /\ ~IsDone(n)'
    BY <1>1, <1>4, <2>1 DEF IsDone, Done
  <2> QED
    BY <1>4, <2>2, <2>3 DEF NodeStep, Moves, doneCounters
<1> QED
  BY <1>2, <1>3, <1>4 DEF TryWaitForNode

LEMMA TryCloseMoves ==
  ASSUME TypeOK, IInv, NEW n \in LcNodes, NEW rest, TryCloseNode(n, rest)
  PROVE  NodeStep
<1>1. n \in Node /\ \A m \in LcNodes : m \in Node
  BY GraphTyped
<1>2. /\ start \in [Node -> Phase] /\ wait \in [Node -> Phase] /\ close \in [Node -> Phase]
      /\ closeCall \in [Node -> {"none", "running", "returned"}]
  BY DEF TypeOK
<1>3. UNCHANGED graph /\ UNCHANGED <<startCall, waitCall>>
  BY DEF TryCloseNode
<1>4. CASE UNCHANGED <<start, wait, close, doneCounters, closeCall>>
  BY <1>3, <1>4 DEF NodeStep, NothingMoves, doneCounters
<1>5. ASSUME close[n] = "none", NEW phase \in {"skipped", "completed"}, HandleNodeClosed(n, phase, rest),
             IF phase = "skipped" THEN UNCHANGED closeCall ELSE closeCall' = [closeCall EXCEPT ![n] = "returned"]
      PROVE  /\ \A m \in LcNodes \ {n} : close'[m] = close[m] /\ closeCall'[m] = closeCall[m]
             /\ IF wait'[n] \in Done THEN CountDoneDependent(n) ELSE UNCHANGED doneDependents
             /\ close'[n] = phase /\ closeCall'[n] = IF phase = "skipped" THEN closeCall[n] ELSE "returned"
  BY <1>1, <1>2, <1>5 DEF HandleNodeClosed, EndsNode
<1>6. ASSUME close[n] = "none", close' = [close EXCEPT ![n] = "active"],
             closeCall' = [closeCall EXCEPT ![n] = "running"]
      PROVE  /\ \A m \in LcNodes \ {n} : close'[m] = close[m] /\ closeCall'[m] = closeCall[m]
             /\ close'[n] = "active" /\ closeCall'[n] = "running"
  BY <1>1, <1>2, <1>6
<1>7. ASSUME close[n] = "none", start[n] = "none",
             start' = [start EXCEPT ![n] = "skipped"], wait' = [wait EXCEPT ![n] = "skipped"],
             IF NothingToClose(n) THEN HandleNodeClosed(n, "skipped", rest) /\ UNCHANGED closeCall
                                  ELSE CloseHook(n, rest)
      PROVE  NodeStep
  <2>1. /\ \A m \in LcNodes \ {n} : start'[m] = start[m] /\ wait'[m] = wait[m]
        /\ start'[n] = "skipped" /\ wait'[n] = "skipped"
    BY <1>1, <1>2, <1>7
  <2>2. ~IsDone(n) /\ wait'[n] \in Done
    BY <1>7, <2>1 DEF IsDone, Done
  <2>3. CASE HandleNodeClosed(n, "skipped", rest) /\ UNCHANGED closeCall
    <3>1. OthersStay(n) /\ IsSkipped(n)
      BY <1>3, <1>5, <1>7, <2>1, <2>3 DEF OthersStay, IsSkipped, PhasesMove, CallsStay
    <3>2. IsDone(n)' /\ CountDoneDependent(n)
      BY <1>5, <1>7, <2>1, <2>2, <2>3 DEF IsDone, Done
    <3> QED
      BY <1>3, <2>2, <3>1, <3>2 DEF NodeStep, Moves
  <2>4. CASE /\ ~HasStarter(n) /\ HasCloser(n) /\ ~HasWaiter(n) /\ close' = [close EXCEPT ![n] = "active"]
             /\ closeCall' = [closeCall EXCEPT ![n] = "running"] /\ UNCHANGED doneCounters
    <3>1. OthersStay(n) /\ IsSkipped(n)
      BY <1>3, <1>6, <1>7, <2>1, <2>4 DEF OthersStay, IsSkipped, PhasesMove, CloseCallMoves
    <3>2. ~IsDone(n)' /\ UNCHANGED doneDependents
      BY <1>6, <1>7, <2>4 DEF IsDone, Done, doneCounters
    <3> QED
      BY <1>3, <2>2, <3>1, <3>2 DEF NodeStep, Moves
  <2> QED
    BY <1>7, <2>2, <2>3, <2>4 DEF CloseHook, NothingToClose
<1>8. ASSUME close[n] = "none", start[n] \in Done, ~NeededByDependents(n),
             UNCHANGED <<start, wait>>, CloseHook(n, rest)
      PROVE  NodeStep
  <2>1. ~IsDone(n)
    BY <1>8 DEF IsDone, Done
  <2>2. CASE /\ ~HasCloser(n) \/ (HasWaiter(n) /\ wait[n] \in Done)
             /\ HandleNodeClosed(n, "skipped", rest) /\ UNCHANGED closeCall
    <3>1. OthersStay(n) /\ BeginsClose(n)
      BY <1>3, <1>5, <1>8, <2>2 DEF OthersStay, BeginsClose, PhasesMove, CallsStay
    <3>2. IF IsDone(n)' THEN CountDoneDependent(n) ELSE UNCHANGED doneDependents
      BY <1>5, <1>8, <2>2 DEF IsDone, Done
    <3> QED
      BY <1>3, <2>1, <3>1, <3>2 DEF NodeStep, Moves
  <2>3. CASE /\ HasWaiter(n) /\ wait[n] \notin Done /\ closeCall' = [closeCall EXCEPT ![n] = "returned"]
             /\ HandleNodeClosed(n, "completed", rest)
    <3>1. OthersStay(n) /\ BeginsClose(n)
      BY <1>3, <1>5, <1>8, <2>3 DEF OthersStay, BeginsClose, PhasesMove, CloseCallMoves
    <3>2. IF IsDone(n)' THEN CountDoneDependent(n) ELSE UNCHANGED doneDependents
      BY <1>5, <1>8, <2>3 DEF IsDone, Done
    <3> QED
      BY <1>3, <2>1, <3>1, <3>2 DEF NodeStep, Moves
  <2>4. CASE /\ HasCloser(n) /\ ~HasWaiter(n) /\ close' = [close EXCEPT ![n] = "active"]
             /\ closeCall' = [closeCall EXCEPT ![n] = "running"] /\ UNCHANGED doneCounters
    <3>1. OthersStay(n) /\ BeginsClose(n)
      BY <1>3, <1>6, <1>8, <2>4 DEF OthersStay, BeginsClose, PhasesMove, CloseCallMoves
    <3>2. ~IsDone(n)' /\ UNCHANGED doneDependents
      BY <1>6, <1>8, <2>4 DEF IsDone, Done, doneCounters
    <3> QED
      BY <1>3, <2>1, <3>1, <3>2 DEF NodeStep, Moves
  <2> QED
    BY <1>8, <2>2, <2>3, <2>4 DEF CloseHook
<1>9. ~UnderWay(n) /\ start[n] # "none" => start[n] \in Done
  BY <1>1, <1>2 DEF UnderWay, Phase
<1> QED
  BY <1>4, <1>7, <1>8, <1>9 DEF TryCloseNode

LEMMA ReceiveMoves ==
  ASSUME TypeOK, IInv, NEW n \in LcNodes,
         ReceiveStartResult(n) \/ ReceiveWaitResult(n) \/ ReceiveClosed(n)
  PROVE  NodeStep
<1>1. n \in Node /\ \A m \in LcNodes : m \in Node
  BY GraphTyped
<1>2. /\ start \in [Node -> Phase] /\ wait \in [Node -> Phase] /\ close \in [Node -> Phase]
  BY DEF TypeOK
<1>3. n \in startResults => start[n] = "active" /\ wait[n] = "none" /\ close[n] = "none"
  BY DEF IInv, GoroutinesHavePhases, StartFirst, Done
<1>4. n \in waitResults => /\ wait[n] = "active" /\ start[n] \in Done /\ waitCall[n] \in {"nil", "err"}
  BY DEF IInv, GoroutinesHavePhases, StartFirst
<1>5. n \in closeResults => close[n] = "active" /\ closeCall[n] = "returned"
  BY DEF IInv, GoroutinesHavePhases
<1>6. CASE ReceiveStartResult(n) /\ startCall[n] = "ok" /\ HandleNodeStarted(n, "completed", <<>>)
  <2>1. /\ start' = [start EXCEPT ![n] = "completed"] /\ start[n] = "active"
        /\ UNCHANGED <<wait, close, doneDependents>>
        /\ UNCHANGED graph /\ UNCHANGED <<startCall, waitCall, closeCall>>
    BY <1>3, <1>6 DEF ReceiveStartResult, HandleNodeStarted, doneCounters, calls
  <2>2. OthersStay(n) /\ GetsReady(n)
    BY <1>1, <1>2, <1>6, <2>1 DEF OthersStay, GetsReady, PhasesMove, CallsStay
  <2>3. ~IsDone(n) /\ ~IsDone(n)'
    BY <1>3, <1>6, <2>1 DEF ReceiveStartResult, IsDone, Done
  <2> QED
    BY <2>1, <2>2, <2>3 DEF NodeStep, Moves
<1>7. CASE ReceiveStartResult(n) /\ startCall[n] = "failed" /\ HandleNodeStartError(n, <<>>)
  <2>1. /\ start' = [start EXCEPT ![n] = "completed"] /\ start[n] = "active"
        /\ wait' = [wait EXCEPT ![n] = "skipped"] /\ close' = [close EXCEPT ![n] = "skipped"]
        /\ CountDoneDependent(n) /\ UNCHANGED graph /\ UNCHANGED <<startCall, waitCall, closeCall>>
    BY <1>3, <1>7 DEF ReceiveStartResult, HandleNodeStartError, calls
  <2>2. OthersStay(n)
    BY <1>1, <1>2, <2>1 DEF OthersStay
  <2>3. FailsToStart(n)
    BY <1>1, <1>2, <1>7, <2>1 DEF FailsToStart, PhasesMove, StartCallMoves, Done
  <2>4. ~IsDone(n) /\ IsDone(n)'
    BY <1>1, <1>2, <1>3, <1>7, <2>1 DEF ReceiveStartResult, IsDone, Done
  <2> QED
    BY <2>1, <2>2, <2>3, <2>4 DEF NodeStep, Moves
<1>8. CASE ReceiveWaitResult(n)
  BY <1>4, <1>8, WaitedMoves DEF ReceiveWaitResult
<1>9. CASE ReceiveClosed(n)
  <2>1. /\ close' = [close EXCEPT ![n] = "completed"] /\ close[n] = "active" /\ closeCall[n] = "returned"
        /\ UNCHANGED <<start, wait, startCall, waitCall, closeCall>> /\ UNCHANGED graph
        /\ IF wait[n] \in Done THEN CountDoneDependent(n) ELSE UNCHANGED doneDependents
    BY <1>5, <1>9 DEF ReceiveClosed, HandleNodeClosed, EndsNode, calls
  <2>2. OthersStay(n) /\ EndsClosing(n)
    BY <1>1, <1>2, <2>1 DEF OthersStay, EndsClosing, PhasesMove, CallsStay
  <2>3. ~IsDone(n) /\ (IsDone(n)' <=> wait[n] \in Done)
    BY <1>1, <1>2, <2>1 DEF IsDone, Done
  <2> QED
    BY <2>1, <2>2, <2>3 DEF NodeStep, Moves
<1> QED
  BY <1>6, <1>7, <1>8, <1>9 DEF ReceiveStartResult

LEMMA CallReturnMoves ==
  ASSUME TypeOK, IInv, NEW n \in LcNodes, StartReturns(n) \/ WaitReturns(n) \/ CloseReturns(n)
  PROVE  NodeStep
<1>1. n \in Node /\ \A m \in LcNodes : m \in Node
  BY GraphTyped
<1>2. /\ startCall \in [Node -> {"none", "running", "ok", "failed"}]
      /\ waitCall \in [Node -> {"none", "running", "nil", "err"}]
      /\ closeCall \in [Node -> {"none", "running", "returned"}]
  BY DEF TypeOK
<1>3. UNCHANGED graph /\ UNCHANGED <<start, wait, close, doneDependents>>
  BY DEF StartReturns, WaitReturns, CloseReturns, session, doneCounters
<1>4. ~IsDone(n) /\ ~IsDone(n)'
  BY <1>3 DEF StartReturns, WaitReturns, CloseReturns, IInv, GoroutinesHavePhases, StartFirst, IsDone, Done
<1>5. OthersStay(n)
  BY <1>1, <1>2, <1>3 DEF OthersStay, StartReturns, WaitReturns, CloseReturns
<1>6. CallReturns(n)
  BY <1>1, <1>2, <1>3 DEF CallReturns, PhasesMove, StartCallMoves, CloseCallMoves,
     StartReturns, WaitReturns, CloseReturns
<1> QED
  BY <1>3, <1>4, <1>5, <1>6 DEF NodeStep, Moves

LEMMA NextMoves == TypeOK /\ IInv /\ [Next]_vars => NodeStep
<1> SUFFICES ASSUME TypeOK, IInv, [Next]_vars PROVE NodeStep
  OBVIOUS
<1>1. CASE RunBegins \/ LeavesStarted \/ CloseStarted \/ TryShutDown \/ ReturnFromCall \/ ReceiveCtxDone
  <2>1. UNCHANGED graph /\ NothingMoves
    BY <1>1 DEF RunBegins, LeavesStarted, CloseStarted, TryShutDown, ReturnFromCall, ReceiveCtxDone,
       NothingMoves, nodes, doneCounters, env, calls
  <2> QED
    BY <2>1 DEF NodeStep
<1>2. CASE StartNextLeaf
  <2>1. PICK n \in Head(agenda).nodes :
           agenda # <<>> /\ TryStartNode(n, <<StartLeaves(Head(agenda).nodes \ {n})>> \o Tail(agenda))
    BY <1>2 DEF StartNextLeaf, CallIs
  <2> QED
    BY <2>1, HeadTyped, TryStartMoves
<1>3. CASE StartNextDependent
  <2>1. PICK n \in Head(agenda).nodes :
           agenda # <<>> /\ TryStartNode(n, <<StartDependents(Head(agenda).nodes \ {n})>> \o Tail(agenda))
    BY <1>3 DEF StartNextDependent, CallIs
  <2> QED
    BY <2>1, HeadTyped, TryStartMoves
<1>4. CASE WaitForStarted
  <2>1. PICK n \in Head(agenda).nodes :
           agenda # <<>> /\ Head(agenda).op = "wait" /\ TryWaitForNode(n, Tail(agenda))
    BY <1>4 DEF WaitForStarted, CallIs
  <2>2. start[n] \in Done
    BY <2>1, HeadOk DEF OkCalls
  <2> QED
    BY <2>1, <2>2, HeadTyped, TryWaitMoves
<1>5. CASE CloseNext
  <2>1. PICK n \in Head(agenda).nodes :
           agenda # <<>> /\ TryCloseNode(n, <<Close(Head(agenda).nodes \ {n})>> \o Tail(agenda))
    BY <1>5 DEF CloseNext, CallIs
  <2> QED
    BY <2>1, HeadTyped, TryCloseMoves
<1>6. ASSUME NEW n \in LcNodes, StartTimesOut(n)
      PROVE  NodeStep
  BY <1>6 DEF StartTimesOut, session, env, calls, doneCounters, NodeStep, NothingMoves
<1>7. CASE CancelRunCtx \/ Finished \/ UNCHANGED vars
  BY <1>7 DEF CancelRunCtx, Finished, vars, session, nodes, env, calls, doneCounters, NodeStep, NothingMoves
<1> QED
  BY <1>1, <1>2, <1>3, <1>4, <1>5, <1>6, <1>7, ReceiveMoves, CallReturnMoves DEF Next, SessionStep

-----------------------------------------------------------------------------
(* Two facts about the moves *)

LEMMA DependentsFinite ==
  ASSUME TypeOK, NEW n \in LcNodes
  PROVE  IsFiniteSet({m \in Dependents(n) : IsDone(m)})
<1>1. {m \in Dependents(n) : IsDone(m)} \subseteq Node
  BY GraphTyped DEF Dependents
<1> QED
  BY <1>1, GraphsAssumption, FS_Subset

LEMMA MovesCountDependents ==
  ASSUME TypeOK, DoneDependentsExact, NodeStep
  PROVE  DoneDependentsExact'
<1> SUFFICES ASSUME NEW n \in LcNodes
             PROVE  doneDependents'[n] = Cardinality({m \in Dependents(n) : IsDone(m)'})
  BY GraphFixed DEF DoneDependentsExact, NodeStep
<1>1. n \in Node /\ (\A m \in LcNodes : m \in Node) /\ doneDependents \in [Node -> Nat]
  BY GraphTyped DEF TypeOK
<1>2. CASE NothingMoves
  BY <1>2 DEF NothingMoves, DoneDependentsExact, IsDone
<1>3. ASSUME NEW k \in LcNodes, Moves(k)
      PROVE  doneDependents'[n] = Cardinality({m \in Dependents(n) : IsDone(m)'})
  <2>1. \A m \in LcNodes \ {k} : IsDone(m)' <=> IsDone(m)
    BY <1>3 DEF Moves, OthersStay, IsDone
  <2>2. ~IsDone(k)
    BY <1>3 DEF Moves
  <2>3. CASE IsDone(k)' /\ k \in Dependents(n)
    <3>1. doneDependents'[n] = doneDependents[n] + 1
      BY <1>1, <1>3, <2>3 DEF Moves, CountDoneDependent, Increment, Dependents
    <3>2. {m \in Dependents(n) : IsDone(m)'} = {m \in Dependents(n) : IsDone(m)} \cup {k}
      BY <2>1, <2>3 DEF Dependents
    <3> QED
      BY <2>2, <3>1, <3>2, DependentsFinite, FS_AddElement, ZenonT(40) DEF DoneDependentsExact
  <2>4. CASE ~(IsDone(k)' /\ k \in Dependents(n))
    <3>1. doneDependents'[n] = doneDependents[n]
      BY <1>1, <1>3, <2>4 DEF Moves, CountDoneDependent, Increment, Dependents
    <3>2. {m \in Dependents(n) : IsDone(m)'} = {m \in Dependents(n) : IsDone(m)}
      BY <2>1, <2>2, <2>4 DEF Dependents
    <3> QED
      BY <3>1, <3>2 DEF DoneDependentsExact
  <2> QED
    BY <2>3, <2>4
<1> QED
  BY <1>2, <1>3 DEF NodeStep

\* What the calls into a node's hook say of its phases.
CallFits(n) ==
       /\ HasStarter(n) /\ (closeCall[n] # "none" \/ (start[n] \in Done /\ close[n] \notin Done))
            => startCall[n] = "ok"
       /\ start[n] = "active" => startCall[n] # "none"
       /\ start[n] = "completed" => startCall[n] \in {"ok", "failed"}
       /\ close[n] = "none" => closeCall[n] = "none"
       /\ close[n] = "completed" => closeCall[n] = "returned"
       /\ wait[n] = "none" => waitCall[n] = "none"
       /\ wait[n] = "active" => HasWaiter(n)
       /\ wait[n] = "completed" => waitCall[n] \in {"nil", "err"}
       /\ startCall[n] = "ok" => /\ HasWaiter(n) => wait[n] # "skipped"
                                 /\ HasCloser(n) /\ ~HasWaiter(n) => close[n] # "skipped"
CallsFitPhases == \A n \in LcNodes : CallFits(n)

LEMMA MovesFitPhases ==
  ASSUME TypeOK, IInv, CallsFitPhases, NodeStep
  PROVE  CallsFitPhases'
<1>1. UNCHANGED graph /\ LcNodes' = LcNodes
  BY GraphFixed DEF NodeStep
<1>2. \A n : /\ HasStarter(n)' = HasStarter(n) /\ HasWaiter(n)' = HasWaiter(n)
             /\ HasCloser(n)' = HasCloser(n)
  BY <1>1 DEF graph, HasStarter, HasWaiter, HasCloser
<1>3. CASE NothingMoves
  BY <1>1, <1>2, <1>3 DEF NothingMoves, CallsFitPhases, CallFits
<1>4. ASSUME NEW k \in LcNodes, Moves(k)
      PROVE  CallsFitPhases'
  <2> SUFFICES ASSUME NEW n \in LcNodes
               PROVE  CallFits(n)'
    BY <1>1 DEF CallsFitPhases
  <2>1. CASE n # k
    BY <1>2, <1>4, <2>1 DEF Moves, OthersStay, CallsFitPhases, CallFits
  <2>2. /\ start[n] \in Phase /\ wait[n] \in Phase /\ close[n] \in Phase
    BY GraphTyped DEF TypeOK
  <2>3. /\ start[n] \notin Done => wait[n] = "none" /\ close[n] = "none"
        /\ start[n] = "none" => startCall[n] = "none"
        /\ startCall[n] = "running" => start[n] = "active"
        /\ waitCall[n] = "running" => wait[n] = "active"
        /\ closeCall[n] = "running" => close[n] = "active"
    BY DEF IInv, StartFirst, GoroutinesHavePhases
  <2>4. CASE n = k /\ Starts(k)
    BY <1>2, <2>2, <2>3, <2>4 DEF Starts, PhasesMove, CallsStay, StartCallMoves, CallsFitPhases, CallFits, Done, Phase
  <2>5. CASE n = k /\ (GetsReady(k) \/ FailsToStart(k))
    BY <1>2, <2>2, <2>3, <2>5 DEF GetsReady, FailsToStart, PhasesMove, CallsStay, StartCallMoves, CallsFitPhases, CallFits, Done, Phase
  <2>6. CASE n = k /\ (BeginsWait(k) \/ EndsWait(k))
    BY <1>2, <2>2, <2>3, <2>6 DEF BeginsWait, EndsWait, PhasesMove, CallsStay, CallsFitPhases, CallFits, Done, Phase
  <2>7. CASE n = k /\ IsSkipped(k)
    BY <1>2, <2>2, <2>3, <2>7 DEF IsSkipped, PhasesMove, CallsStay, CloseCallMoves, CallsFitPhases, CallFits, Done, Phase
  <2>8. CASE n = k /\ (BeginsClose(k) \/ EndsClosing(k))
    BY <1>2, <2>2, <2>3, <2>8 DEF BeginsClose, EndsClosing, PhasesMove, CallsStay, CloseCallMoves, CallsFitPhases, CallFits, Done, Phase
  <2>9. CASE n = k /\ CallReturns(k)
    BY <1>2, <2>2, <2>3, <2>9 DEF CallReturns, PhasesMove, StartCallMoves, CloseCallMoves, CallsFitPhases, CallFits, Done, Phase
  <2> QED
    BY <1>4, <2>1, <2>4, <2>5, <2>6, <2>7, <2>8, <2>9 DEF Moves
<1> QED
  BY <1>3, <1>4 DEF NodeStep
-----------------------------------------------------------------------------
(* The theorems about nodes *)

LEMMA InitCallsFit == Init => CallsFitPhases /\ DoneDependentsExact
<1> SUFFICES ASSUME Init PROVE CallsFitPhases /\ DoneDependentsExact
  OBVIOUS
<1>1. \A n \in LcNodes : n \in Node
  BY GraphsAssumption DEF Init, LcNodes
<1>2. CallsFitPhases
  BY <1>1 DEF Init, CallsFitPhases, CallFits, Done
<1>3. \A n \in LcNodes : {m \in Dependents(n) : IsDone(m)} = {}
  BY <1>1 DEF Init, IsDone, Done, Dependents
<1>4. DoneDependentsExact
  BY <1>1, <1>3, FS_EmptySet DEF Init, DoneDependentsExact
<1> QED
  BY <1>2, <1>4

\* The calls into a hook and the phases of its node go together: a strengthening
\* of the two properties below, which the moves above keep.
THEOREM CallsFollowPhases == Spec => []CallsFitPhases
<1>1. Init => CallsFitPhases
  BY InitCallsFit
<1>2. TypeOK /\ IInv /\ CallsFitPhases /\ [Next]_vars => CallsFitPhases'
  BY NextMoves, MovesFitPhases
<1> QED
  BY <1>1, <1>2, TypeInvariant, Inductive, PTL DEF Spec

\* Every node counts each of its ended dependents once, whichever of the two
\* phases ends last and on whichever path it ends.
THEOREM DependentsCounted == Spec => []DoneDependentsExact
<1>1. Init => DoneDependentsExact
  BY InitCallsFit
<1>2. TypeOK /\ IInv /\ DoneDependentsExact /\ [Next]_vars => DoneDependentsExact'
  BY NextMoves, MovesCountDependents
<1> QED
  BY <1>1, <1>2, TypeInvariant, Inductive, PTL DEF Spec

\* No hook is closed whose Start was not successful (lifecycle_types.go:14).
THEOREM ClosedWereStarted == Spec => []ClosedOnlyIfStarted
<1>1. CallsFitPhases => ClosedOnlyIfStarted
  <2> SUFFICES ASSUME CallsFitPhases, NEW n \in LcNodes, HasStarter(n), closeCall[n] # "none"
               PROVE  startCall[n] = "ok"
    BY DEF ClosedOnlyIfStarted
  <2>1. CallFits(n)
    BY DEF CallsFitPhases
  <2> QED
    BY <2>1 DEF CallFits
<1> QED
  BY <1>1, CallsFollowPhases, PTL

\* When Run returns, all that was started has been closed or has returned,
\* whether or not another Runner shares its hooks.
THEOREM NothingIsLeftOpen == Spec => []NothingLeftOpen
<1>1. IInv /\ CallsFitPhases => NothingLeftOpen
  <2> SUFFICES ASSUME IInv, CallsFitPhases, pc = "returned", NEW n \in LcNodes, startCall[n] = "ok"
               PROVE  IF HasWaiter(n) THEN waitCall[n] \in {"nil", "err"}
                                      ELSE HasCloser(n) => closeCall[n] = "returned"
    BY DEF NothingLeftOpen
  <2>1. IsDone(n)
    <3>1. start[n] # "none"
      BY DEF IInv, GoroutinesHavePhases
    <3> QED
      BY <3>1 DEF IInv, Quiet, NothingStarted, AllOver
  <2> QED
    BY <2>1 DEF IsDone, Done, CallsFitPhases, CallFits
<1> QED
  BY <1>1, Inductive, CallsFollowPhases, PTL

-----------------------------------------------------------------------------
(* What Run returns. A shutdown has its error from the call that begins it,    *)
(* which is the first on the agenda and the only shutDown there.               *)

OtherCalls == [op : Ops \ {"shutDown"}, nodes : SUBSET Node, err : Errors]
OneShutDown == agenda # <<>> => Tail(agenda) \in Seq(OtherCalls)
AboutToShutDown == IF CallIs("shutDown") THEN Head(agenda).err ELSE "nil"
Cause == IF ShuttingDown THEN shutdownErr ELSE AboutToShutDown

RunErred(n) == waitCall[n] = "err" \/ (waitCall[n] = "nil" /\ n \in NilResultAsError)

\* The cause has a reason, and a failure is the cause of a shutdown, or comes
\* when there is one, unless its result is still to be received.
CauseHasReason ==
    /\ Cause = "hook" => \E n \in LcNodes : HookFailed(n)
    /\ Cause = "ctx" => ctxDone
FailuresAreNoticed ==
    \A n \in LcNodes : /\ startCall[n] = "failed" => Cause # "nil" \/ n \in startResults
                       /\ RunErred(n) => Cause # "nil" \/ n \in waitResults
RInv == OneShutDown /\ CauseHasReason /\ FailuresAreNoticed

LEMMA Failed == \A n : HookFailed(n) <=> startCall[n] = "failed" \/ RunErred(n)
BY DEF HookFailed, RunErred

\* An agenda with a call in front of others.
LEMMA AgendaBegins ==
  ASSUME NEW op \in Ops, NEW ns, NEW err, NEW rest \in Seq(OtherCalls),
         agenda' = <<Call(op, ns, err)>> \o rest
  PROVE  OneShutDown' /\ AboutToShutDown' = IF op = "shutDown" THEN err ELSE "nil"
<1>1. Head(agenda') = Call(op, ns, err) /\ Tail(agenda') = rest /\ agenda' # <<>>
  OBVIOUS
<1>2. Head(agenda').op = op /\ Head(agenda').err = err
  BY <1>1 DEF Call
<1> QED
  BY <1>1, <1>2 DEF OneShutDown, AboutToShutDown, CallIs

LEMMA AgendaGoesOn ==
  ASSUME NEW rest \in Seq(OtherCalls), agenda' = rest
  PROVE  OneShutDown' /\ AboutToShutDown' = "nil"
<1>1. rest # <<>> => Head(rest) \in OtherCalls /\ Tail(rest) \in Seq(OtherCalls)
  OBVIOUS
<1> QED
  BY <1>1 DEF OneShutDown, AboutToShutDown, CallIs, OtherCalls

LEMMA AgendaReturns ==
  ASSUME NEW rest \in Seq(OtherCalls), NEW P \in BOOLEAN,
         agenda' = (IF P THEN <<ReturnIsAllDone>> ELSE <<>>) \o rest
  PROVE  OneShutDown' /\ AboutToShutDown' = "nil"
<1>1. CASE P
  BY <1>1, AgendaBegins DEF ReturnIsAllDone, Close, Ops
<1>2. CASE ~P
  BY <1>2, AgendaGoesOn, <<>> \o rest = rest
<1> QED
  BY <1>1, <1>2

LEMMA FirstOfAgenda ==
  ASSUME NEW S, NEW rest \in Seq(S)
  PROVE  \A a, b, c \in S : <<a, b, c>> \o rest = <<a>> \o (<<b, c>> \o rest)
OBVIOUS

LEMMA OthersTyped ==
  ASSUME TypeOK, NEW ns \in SUBSET LcNodes
  PROVE  /\ StartLeaves(ns) \in OtherCalls /\ StartDependents(ns) \in OtherCalls /\ Close(ns) \in OtherCalls
         /\ \A n \in LcNodes : Wait(n) \in OtherCalls /\ CloseIfShuttingDown(n) \in OtherCalls
<1>1. LcNodes \subseteq Node
  BY DEF TypeOK
<1> QED
  BY <1>1 DEF StartLeaves, StartDependents, Close, Wait, CloseIfShuttingDown, Call, OtherCalls, Ops, Errors

\* What the handlers leave on the agenda.
LEMMA StartedAgenda ==
  ASSUME TypeOK, NEW n \in LcNodes, NEW phase, NEW rest \in Seq(OtherCalls), HandleNodeStarted(n, phase, rest)
  PROVE  OneShutDown' /\ AboutToShutDown' = "nil" /\ UNCHANGED <<graph, shutdownErr, result>>
<1>1. NextToStart(n) \subseteq LcNodes
  BY DEF NextToStart, Dependents
<1>2. Wait(n) \in OtherCalls /\ CloseIfShuttingDown(n) \in OtherCalls
  BY OthersTyped, LcNodes \subseteq LcNodes
<1>3. <<Wait(n), CloseIfShuttingDown(n)>> \o rest \in Seq(OtherCalls)
  BY <1>2, AgendaInSeq
<1>4. agenda' = <<StartDependents(NextToStart(n))>> \o (<<Wait(n), CloseIfShuttingDown(n)>> \o rest)
  <2>1. StartDependents(NextToStart(n)) \in OtherCalls
    BY <1>1, OthersTyped
  <2>2. agenda' = <<StartDependents(NextToStart(n)), Wait(n), CloseIfShuttingDown(n)>> \o rest
    BY DEF HandleNodeStarted
  <2>3. \A a, b, c \in OtherCalls : <<a, b, c>> \o rest = <<a>> \o (<<b, c>> \o rest)
    BY FirstOfAgenda, SMTT(30)
  <2>4. /\ agenda' = <<StartDependents(NextToStart(n)), Wait(n), CloseIfShuttingDown(n)>> \o rest
        /\ <<StartDependents(NextToStart(n)), Wait(n), CloseIfShuttingDown(n)>> \o rest
              = <<StartDependents(NextToStart(n))>> \o (<<Wait(n), CloseIfShuttingDown(n)>> \o rest)
    BY <1>2, <2>1, <2>2, <2>3, Zenon
  <2> QED
    BY <2>4, Zenon
<1>5. OneShutDown' /\ AboutToShutDown' = "nil"
  BY <1>3, <1>4, AgendaBegins DEF StartDependents, Ops
<1> QED
  BY <1>5 DEF HandleNodeStarted, outcome

LEMMA StartErrorAgenda ==
  ASSUME TypeOK, NEW n \in LcNodes, NEW rest \in Seq(OtherCalls), HandleNodeStartError(n, rest)
  PROVE  OneShutDown' /\ AboutToShutDown' = "hook" /\ UNCHANGED <<graph, shutdownErr, result>>
<1>1. Close(dependsOn[n]) \in OtherCalls
  BY OthersTyped, GraphTyped
<1>2. <<Close(dependsOn[n])>> \o rest \in Seq(OtherCalls)
  BY <1>1, AgendaInSeq
<1>3. agenda' = <<ShutDown("hook")>> \o (<<Close(dependsOn[n])>> \o rest)
  BY DEF HandleNodeStartError
<1> QED
  BY <1>2, <1>3, AgendaBegins DEF ShutDown, Ops, HandleNodeStartError, outcome

LEMMA WaitedAgenda ==
  ASSUME TypeOK, NEW n \in LcNodes, NEW failed \in BOOLEAN, NEW phase, NEW rest \in Seq(OtherCalls),
         HandleNodeWaited(n, failed, phase, rest)
  PROVE  /\ OneShutDown' /\ AboutToShutDown' = (IF ~ShuttingDown /\ failed THEN "hook" ELSE "nil")
         /\ UNCHANGED <<graph, shutdownErr, result>>
<1>1. UNCHANGED <<graph, shutdownErr, result>>
  BY DEF HandleNodeWaited, outcome
<1>2. Close({n}) \in OtherCalls
  BY OthersTyped
<1>3. <<Close({n})>> \o rest \in Seq(OtherCalls)
  BY <1>2, AgendaInSeq
<1>4. CASE ShuttingDown /\ agenda' = <<Close({n})>> \o rest
  BY <1>1, <1>4, AgendaBegins DEF Close, Ops
<1>5. CASE ~ShuttingDown /\ failed /\ agenda' = <<ShutDown("hook"), Close({n})>> \o rest
  <2>1. agenda' = <<ShutDown("hook")>> \o (<<Close({n})>> \o rest)
    BY <1>5
  <2> QED
    BY <1>1, <1>3, <1>5, <2>1, AgendaBegins DEF ShutDown, Ops
<1>6. CASE ~ShuttingDown /\ ~failed /\ agenda' = <<ShutDown("nil")>> \o rest
  BY <1>1, <1>6, AgendaBegins DEF ShutDown, Ops
<1>7. CASE ~ShuttingDown /\ ~failed /\ agenda' = <<ReturnIsAllDone>> \o rest
  BY <1>1, <1>7, AgendaBegins DEF ReturnIsAllDone, Close, Ops
<1> QED
  BY <1>4, <1>5, <1>6, <1>7 DEF HandleNodeWaited

LEMMA ClosedAgenda ==
  ASSUME TypeOK, NEW n \in LcNodes, NEW phase, NEW rest \in Seq(OtherCalls), HandleNodeClosed(n, phase, rest)
  PROVE  OneShutDown' /\ AboutToShutDown' = "nil"
<1>1. CASE agenda' = <<Close(dependsOn[n])>> \o rest
  BY <1>1, AgendaBegins DEF Close, Ops
<1> QED
  BY <1>1, AgendaGoesOn DEF HandleNodeClosed

LEMMA CloseAgenda ==
  ASSUME TypeOK, NEW n \in LcNodes, NEW rest \in Seq(OtherCalls), TryCloseNode(n, rest)
  PROVE  OneShutDown' /\ AboutToShutDown' = "nil"
<1>1. CASE agenda' = rest
  BY <1>1, AgendaGoesOn
<1>2. CASE \E ns : agenda' = <<Close(ns)>> \o rest
  BY <1>2, AgendaBegins DEF Close, Ops
<1>3. CASE HandleNodeClosed(n, "skipped", rest) \/ HandleNodeClosed(n, "completed", rest)
  BY <1>3, ClosedAgenda
<1> QED
  BY <1>1, <1>2, <1>3 DEF TryCloseNode, CloseHook
-----------------------------------------------------------------------------
(* The steps *)

\* A step that is not the one that begins a shutdown.
LEMMA CauseKept ==
  ASSUME TypeOK, RInv, UNCHANGED graph, UNCHANGED shutdownErr, OneShutDown', ctxDone => ctxDone',
         \/ AboutToShutDown' = AboutToShutDown
         \/ /\ AboutToShutDown = "nil"
            /\ AboutToShutDown' = "hook" => \E m \in LcNodes : HookFailed(m)'
            /\ AboutToShutDown' = "ctx" => ctxDone',
         \A m \in LcNodes : /\ startCall[m] = "failed" => startCall'[m] = "failed"
                            /\ RunErred(m) => RunErred(m)',
         \A m \in LcNodes : startCall'[m] = "failed" =>
             \/ startCall[m] = "failed" /\ (m \in startResults => m \in startResults')
             \/ m \in startResults' \/ Cause' # "nil",
         \A m \in LcNodes : RunErred(m)' =>
             \/ RunErred(m) /\ (m \in waitResults => m \in waitResults')
             \/ m \in waitResults' \/ Cause' # "nil"
  PROVE  RInv'
<1>1. LcNodes' = LcNodes
  BY GraphFixed
<1>2. Cause # "nil" => Cause' = Cause
  BY DEF Cause, ShuttingDown
<1>3. \A m \in LcNodes : HookFailed(m) => HookFailed(m)'
  BY Failed, (\A m : HookFailed(m)' <=> startCall'[m] = "failed" \/ RunErred(m)')
     DEF HookFailed, RunErred
<1>4. CauseHasReason'
  <2>1. CASE Cause # "nil"
    BY <1>1, <1>2, <1>3, <2>1 DEF RInv, CauseHasReason
  <2>2. CASE Cause = "nil"
    <3>1. ~ShuttingDown /\ AboutToShutDown = "nil" /\ ~ShuttingDown'
      BY <2>2 DEF Cause, ShuttingDown
    <3>2. Cause' = AboutToShutDown'
      BY <3>1 DEF Cause
    <3> QED
      BY <1>1, <3>1, <3>2 DEF CauseHasReason
  <2> QED
    BY <2>1, <2>2
<1>5. FailuresAreNoticed'
  BY <1>1, <1>2 DEF RInv, FailuresAreNoticed
<1> QED
  BY <1>4, <1>5 DEF RInv

\* A step in which no call into a hook begins, fails or is received.
LEMMA AgendaKeepsCause ==
  ASSUME TypeOK, RInv, UNCHANGED graph, UNCHANGED shutdownErr, OneShutDown', ctxDone => ctxDone',
         UNCHANGED <<startCall, waitCall, startResults, waitResults>>,
         \/ AboutToShutDown' = AboutToShutDown
         \/ AboutToShutDown = "nil" /\ AboutToShutDown' = "nil"
         \/ AboutToShutDown = "nil" /\ AboutToShutDown' = "ctx" /\ ctxDone'
  PROVE  RInv'
<1>1. \A m : RunErred(m)' <=> RunErred(m)
  BY DEF RunErred
<1> QED
  BY <1>1, CauseKept

LEMMA TryStartKeepsCause ==
  ASSUME TypeOK, IInv, RInv, NEW n \in LcNodes, NEW rest \in Seq(OtherCalls),
         AboutToShutDown = "nil", TryStartNode(n, rest)
  PROVE  RInv'
<1>1. n \in Node /\ startCall \in [Node -> {"none", "running", "ok", "failed"}] /\ \A m \in LcNodes : m \in Node
  BY GraphTyped DEF TypeOK
<1>2. start[n] = "none" => startCall[n] = "none"
  BY DEF IInv, GoroutinesHavePhases
<1>3. CASE /\ agenda' = (IF start[n] \in Done THEN <<ReturnIsAllDone>> ELSE <<>>) \o rest
           /\ UNCHANGED <<graph, outcome, env>>
  <2>1. OneShutDown' /\ AboutToShutDown' = "nil"
    BY <1>3, AgendaReturns, (start[n] \in Done) \in BOOLEAN
  <2> QED
    BY <1>3, <2>1, AgendaKeepsCause DEF outcome, env, calls, channels
<1>4. ASSUME NEW phase, HandleNodeStarted(n, phase, rest), UNCHANGED env
      PROVE  RInv'
  BY <1>4, StartedAgenda, AgendaKeepsCause DEF env, calls, channels
<1>5. ASSUME start[n] = "none", NEW r \in {"ok", "running"}, startCall' = [startCall EXCEPT ![n] = r],
             UNCHANGED <<waitCall, channels, ctxDone>>, UNCHANGED graph, UNCHANGED shutdownErr,
             OneShutDown', AboutToShutDown' = "nil"
      PROVE  RInv'
  <2>1. \A m : RunErred(m)' <=> RunErred(m)
    BY <1>5 DEF RunErred
  <2>2. \A m \in LcNodes : startCall'[m] = "failed" <=> startCall[m] = "failed"
    BY <1>1, <1>2, <1>5
  <2> QED
    BY <1>5, <2>1, <2>2, CauseKept DEF channels
<1>6. ASSUME start[n] = "none", startCall' = [startCall EXCEPT ![n] = "failed"],
             UNCHANGED <<waitCall, channels, ctxDone>>, HandleNodeStartError(n, rest)
      PROVE  RInv'
  <2>1. \A m : RunErred(m)' <=> RunErred(m)
    BY <1>6 DEF RunErred
  <2>2. UNCHANGED graph /\ UNCHANGED shutdownErr /\ OneShutDown' /\ AboutToShutDown' = "hook"
    BY <1>6, StartErrorAgenda
  <2>3. Cause' # "nil" /\ HookFailed(n)'
    BY <1>1, <1>6, <2>2 DEF Cause, ShuttingDown, HookFailed
  <2>4. \A m \in LcNodes : startCall[m] = "failed" => startCall'[m] = "failed"
    BY <1>1, <1>6
  <2> QED
    BY <1>6, <2>1, <2>2, <2>3, <2>4, CauseKept
<1> QED
  BY <1>3, <1>4, <1>5, <1>6, StartedAgenda, AgendaGoesOn DEF TryStartNode, outcome

LEMMA TryWaitKeepsCause ==
  ASSUME TypeOK, RInv, CallsFitPhases, NEW n \in LcNodes, NEW rest \in Seq(OtherCalls),
         AboutToShutDown = "nil", TryWaitForNode(n, rest)
  PROVE  RInv'
<1>1. n \in Node /\ waitCall \in [Node -> {"none", "running", "nil", "err"}] /\ \A m \in LcNodes : m \in Node
  BY GraphTyped DEF TypeOK
<1>2. CASE /\ agenda' = (IF wait[n] \in Done THEN <<ReturnIsAllDone>> ELSE <<>>) \o rest
           /\ UNCHANGED <<graph, outcome, env>>
  <2>1. OneShutDown' /\ AboutToShutDown' = "nil"
    BY <1>2, AgendaReturns, (wait[n] \in Done) \in BOOLEAN
  <2> QED
    BY <1>2, <2>1, AgendaKeepsCause DEF outcome, env, calls, channels
<1>3. CASE HandleNodeWaited(n, FALSE, "skipped", rest) /\ UNCHANGED env
  BY <1>3, WaitedAgenda, AgendaKeepsCause DEF env, calls, channels
<1>4. CASE /\ wait[n] = "none" /\ waitCall' = [waitCall EXCEPT ![n] = "running"] /\ agenda' = rest
           /\ UNCHANGED <<graph, outcome, startCall, channels, ctxDone>>
  <2>1. waitCall[n] = "none"
    BY <1>4 DEF CallsFitPhases, CallFits
  <2>2. \A m \in LcNodes : RunErred(m)' <=> RunErred(m)
    BY <1>1, <1>4, <2>1 DEF RunErred
  <2> QED
    BY <1>4, <2>2, AgendaGoesOn, CauseKept DEF outcome, channels
<1> QED
  BY <1>2, <1>3, <1>4 DEF TryWaitForNode

LEMMA ReceiveKeepsCause ==
  ASSUME TypeOK, IInv, RInv, NEW n \in LcNodes, CallsFitPhases,
         ReceiveStartResult(n) \/ ReceiveWaitResult(n) \/ ReceiveClosed(n)
  PROVE  RInv'
<1>1. AboutToShutDown = "nil" /\ <<>> \in Seq(OtherCalls)
  BY DEF ReceiveStartResult, ReceiveWaitResult, ReceiveClosed, Receiving, AboutToShutDown, CallIs
<1>2. UNCHANGED <<startCall, waitCall, closeCall>> /\ ctxDone' = ctxDone
  BY DEF ReceiveStartResult, ReceiveWaitResult, ReceiveClosed, calls
<1>3. \A m : RunErred(m)' <=> RunErred(m)
  BY <1>2 DEF RunErred
<1>4. CASE ReceiveStartResult(n) /\ startCall[n] = "ok" /\ HandleNodeStarted(n, "completed", <<>>)
  <2>1. /\ UNCHANGED graph /\ UNCHANGED shutdownErr /\ OneShutDown' /\ AboutToShutDown' = "nil"
    BY <1>1, <1>4, StartedAgenda
  <2>2. waitResults' = waitResults /\ startResults' = startResults \ {n}
    BY <1>4 DEF ReceiveStartResult
  <2> QED
    BY <1>1, <1>2, <1>3, <1>4, <2>1, <2>2, CauseKept
<1>5. CASE ReceiveStartResult(n) /\ startCall[n] = "failed" /\ HandleNodeStartError(n, <<>>)
  <2>1. /\ UNCHANGED graph /\ UNCHANGED shutdownErr /\ OneShutDown' /\ AboutToShutDown' = "hook"
    BY <1>1, <1>5, StartErrorAgenda
  <2>2. Cause' # "nil" /\ HookFailed(n)'
    BY <1>2, <1>5, <2>1 DEF Cause, ShuttingDown, HookFailed
  <2> QED
    BY <1>1, <1>2, <1>3, <2>1, <2>2, CauseKept
<1>6. CASE ReceiveWaitResult(n)
  <2>1. n \in waitResults /\ waitCall[n] \in {"nil", "err"} /\ RunFailed(n) \in BOOLEAN
    BY <1>6 DEF ReceiveWaitResult, IInv, GoroutinesHavePhases, RunFailed
  <2>2. RunFailed(n) <=> RunErred(n)
    BY <2>1 DEF RunFailed, RunErred
  <2>3. /\ UNCHANGED graph /\ UNCHANGED shutdownErr /\ OneShutDown'
        /\ AboutToShutDown' = (IF ~ShuttingDown /\ RunFailed(n) THEN "hook" ELSE "nil")
    BY <1>1, <1>6, <2>1, WaitedAgenda DEF ReceiveWaitResult
  <2>4. waitResults' = waitResults \ {n} /\ startResults' = startResults
    BY <1>6 DEF ReceiveWaitResult
  <2>5. RunErred(n) => Cause' # "nil" /\ HookFailed(n)'
    <3> SUFFICES ASSUME RunErred(n) PROVE Cause' # "nil" /\ HookFailed(n)'
      OBVIOUS
    <3>1. Cause' # "nil"
      BY <2>2, <2>3 DEF Cause, ShuttingDown
    <3>2. HookFailed(n)'
      BY <1>2 DEF RunErred, HookFailed
    <3> QED
      BY <3>1, <3>2
  <2> QED
    BY <1>1, <1>2, <1>3, <2>2, <2>3, <2>4, <2>5, CauseKept
<1>7. CASE ReceiveClosed(n)
  <2>1. UNCHANGED graph /\ UNCHANGED shutdownErr /\ UNCHANGED <<startResults, waitResults>>
    BY <1>7 DEF ReceiveClosed, outcome
  <2>2. OneShutDown' /\ AboutToShutDown' = "nil"
    BY <1>1, <1>7, ClosedAgenda DEF ReceiveClosed
  <2> QED
    BY <1>1, <1>2, <2>1, <2>2, AgendaKeepsCause
<1> QED
  BY <1>4, <1>5, <1>6, <1>7 DEF ReceiveStartResult
LEMMA CallReturnKeepsCause ==
  ASSUME TypeOK, RInv, NEW n \in LcNodes, StartReturns(n) \/ WaitReturns(n) \/ CloseReturns(n)
  PROVE  RInv'
<1>1. n \in Node /\ (\A m \in LcNodes : m \in Node)
      /\ startCall \in [Node -> {"none", "running", "ok", "failed"}]
      /\ waitCall \in [Node -> {"none", "running", "nil", "err"}]
  BY GraphTyped DEF TypeOK
<1>2. UNCHANGED graph /\ UNCHANGED shutdownErr /\ UNCHANGED agenda /\ ctxDone' = ctxDone
  BY DEF StartReturns, WaitReturns, CloseReturns, session, outcome
<1>3. OneShutDown' /\ AboutToShutDown' = AboutToShutDown
  BY <1>2 DEF RInv, OneShutDown, AboutToShutDown, CallIs
<1>4. CASE StartReturns(n)
  <2>1. \A m : RunErred(m)' <=> RunErred(m)
    BY <1>4 DEF RunErred, StartReturns
  <2>2. startResults' = startResults \cup {n} /\ waitResults' = waitResults
    BY <1>4 DEF StartReturns
  <2>3. \A m \in LcNodes : /\ startCall[m] = "failed" => startCall'[m] = "failed"
                           /\ startCall'[m] = "failed" => startCall[m] = "failed" \/ m = n
    BY <1>1, <1>4 DEF StartReturns
  <2> QED
    BY <1>2, <1>3, <2>1, <2>2, <2>3, CauseKept
<1>5. CASE WaitReturns(n)
  <2>1. \A m \in LcNodes : /\ RunErred(m) => RunErred(m)'
                           /\ RunErred(m)' => RunErred(m) \/ m = n
    BY <1>1, <1>5 DEF RunErred, WaitReturns
  <2>2. /\ startResults' = startResults /\ waitResults' = waitResults \cup {n}
        /\ startCall' = startCall
    BY <1>5 DEF WaitReturns
  <2> QED
    BY <1>2, <1>3, <2>1, <2>2, CauseKept
<1>6. CASE CloseReturns(n)
  BY <1>2, <1>3, <1>6, AgendaKeepsCause DEF CloseReturns
<1> QED
  BY <1>4, <1>5, <1>6

LEMMA NextKeepsCause == TypeOK /\ IInv /\ CallsFitPhases /\ RInv /\ [Next]_vars => RInv'
<1> SUFFICES ASSUME TypeOK, IInv, CallsFitPhases, RInv, [Next]_vars PROVE RInv'
  OBVIOUS
<1> DEFINE rest == Tail(agenda)
<1>1. agenda # <<>> => /\ rest \in Seq(OtherCalls)
                       /\ \A c \in OtherCalls : <<c>> \o rest \in Seq(OtherCalls)
                       /\ \A op : CallIs(op) <=> Head(agenda).op = op
                       /\ \A ns \in SUBSET Head(agenda).nodes :
                             /\ StartLeaves(ns) \in OtherCalls /\ StartDependents(ns) \in OtherCalls
                             /\ Close(ns) \in OtherCalls
  <2> SUFFICES ASSUME agenda # <<>>
               PROVE  /\ rest \in Seq(OtherCalls)
                      /\ \A c \in OtherCalls : <<c>> \o rest \in Seq(OtherCalls)
                      /\ \A op : CallIs(op) <=> Head(agenda).op = op
                      /\ \A ns \in SUBSET Head(agenda).nodes :
                            /\ StartLeaves(ns) \in OtherCalls /\ StartDependents(ns) \in OtherCalls
                            /\ Close(ns) \in OtherCalls
    OBVIOUS
  <2>1. rest \in Seq(OtherCalls)
    BY DEF RInv, OneShutDown
  <2>2. \A c \in OtherCalls : <<c>> \o rest \in Seq(OtherCalls)
    BY <2>1, AgendaInSeq
  <2>3. \A ns \in SUBSET Head(agenda).nodes : ns \in SUBSET LcNodes
    BY HeadTyped
  <2> HIDE DEF rest
  <2> QED
    BY <2>1, <2>2, <2>3, OthersTyped DEF CallIs
<1>2. ~CallIs("shutDown") => AboutToShutDown = "nil"
  BY DEF AboutToShutDown
<1>3. CASE RunBegins
  <2>1. agenda = <<>> /\ UNCHANGED graph /\ UNCHANGED shutdownErr /\ ctxDone' = ctxDone
        /\ UNCHANGED <<startCall, waitCall, startResults, waitResults>>
    BY <1>3 DEF RunBegins, IInv, Quiet, env, calls, channels
  <2>2. OneShutDown' /\ AboutToShutDown' = "nil"
    <3>1. CASE agenda' = agenda
      BY <2>1, <3>1 DEF OneShutDown, AboutToShutDown, CallIs
    <3>2. CASE agenda' = <<StartLeaves(Leaves)>>
      BY <3>2, AgendaBegins, <<>> \in Seq(OtherCalls), <<StartLeaves(Leaves)>> = <<StartLeaves(Leaves)>> \o <<>>
         DEF StartLeaves, Ops
    <3> QED
      BY <1>3, <3>1, <3>2 DEF RunBegins
  <2>3. AboutToShutDown = "nil"
    BY <2>1 DEF AboutToShutDown, CallIs
  <2> QED
    BY <2>1, <2>2, <2>3, AgendaKeepsCause
<1>4. CASE StartNextLeaf
  <2>1. PICK n \in Head(agenda).nodes :
           agenda # <<>> /\ TryStartNode(n, <<StartLeaves(Head(agenda).nodes \ {n})>> \o rest)
    BY <1>4 DEF StartNextLeaf, CallIs
  <2>2. AboutToShutDown = "nil"
    BY <1>2, <1>4 DEF StartNextLeaf, CallIs
  <2>3. <<StartLeaves(Head(agenda).nodes \ {n})>> \o rest \in Seq(OtherCalls) /\ n \in LcNodes
    BY <1>1, <2>1, HeadTyped
  <2> QED
    BY <2>1, <2>2, <2>3, TryStartKeepsCause
<1>5. CASE StartNextDependent
  <2>1. PICK n \in Head(agenda).nodes :
           agenda # <<>> /\ TryStartNode(n, <<StartDependents(Head(agenda).nodes \ {n})>> \o rest)
    BY <1>5 DEF StartNextDependent, CallIs
  <2>2. AboutToShutDown = "nil"
    BY <1>2, <1>5 DEF StartNextDependent, CallIs
  <2>3. <<StartDependents(Head(agenda).nodes \ {n})>> \o rest \in Seq(OtherCalls) /\ n \in LcNodes
    BY <1>1, <2>1, HeadTyped
  <2> QED
    BY <2>1, <2>2, <2>3, TryStartKeepsCause
<1>6. CASE WaitForStarted
  <2>1. PICK n \in Head(agenda).nodes : agenda # <<>> /\ TryWaitForNode(n, rest)
    BY <1>6 DEF WaitForStarted, CallIs
  <2>2. AboutToShutDown = "nil"
    BY <1>2, <1>6 DEF WaitForStarted, CallIs
  <2> QED
    BY <1>1, <2>1, <2>2, HeadTyped, TryWaitKeepsCause
<1>7. CASE CloseNext
  <2>1. PICK n \in Head(agenda).nodes :
           agenda # <<>> /\ TryCloseNode(n, <<Close(Head(agenda).nodes \ {n})>> \o rest)
    BY <1>7 DEF CloseNext, CallIs
  <2>2. AboutToShutDown = "nil"
    BY <1>2, <1>7 DEF CloseNext, CallIs
  <2>3. <<Close(Head(agenda).nodes \ {n})>> \o rest \in Seq(OtherCalls) /\ n \in LcNodes
    BY <1>1, <2>1, HeadTyped
  <2>4. OneShutDown' /\ AboutToShutDown' = "nil"
    BY <2>1, <2>3, CloseAgenda
  <2>5. UNCHANGED graph /\ UNCHANGED shutdownErr /\ ctxDone' = ctxDone
        /\ UNCHANGED <<startCall, waitCall, startResults, waitResults>>
    BY <2>1 DEF TryCloseNode, outcome, channels
  <2> QED
    BY <2>2, <2>4, <2>5, AgendaKeepsCause
<1>8. CASE LeavesStarted \/ CloseStarted \/ ReturnFromCall
  <2>1. agenda # <<>> /\ UNCHANGED graph /\ UNCHANGED shutdownErr /\ ctxDone' = ctxDone
        /\ UNCHANGED <<startCall, waitCall, startResults, waitResults>>
    BY <1>8 DEF LeavesStarted, CloseStarted, ReturnFromCall, CallIs, outcome, env, calls, channels
  <2>2. AboutToShutDown = "nil"
    BY <1>2, <1>8 DEF LeavesStarted, CloseStarted, ReturnFromCall, CallIs
  <2>3. \/ agenda' = rest \/ agenda' = <<>>
        \/ agenda' = <<Close(ToCloseAfterStart(Head(agenda).nodes))>> \o rest
    BY <1>8 DEF LeavesStarted, CloseStarted, ReturnFromCall
  <2>4. OneShutDown' /\ AboutToShutDown' = "nil"
    <3>1. CASE agenda' = rest \/ agenda' = <<>>
      BY <1>1, <2>1, <3>1, AgendaGoesOn, <<>> \in Seq(OtherCalls)
    <3>2. CASE agenda' = <<Close(ToCloseAfterStart(Head(agenda).nodes))>> \o rest
      BY <1>1, <2>1, <3>2, AgendaBegins DEF Close, Ops
    <3> QED
      BY <2>3, <3>1, <3>2
  <2> QED
    BY <2>1, <2>2, <2>4, AgendaKeepsCause
<1>9. CASE TryShutDown
  <2>1. agenda # <<>> /\ CallIs("shutDown") /\ UNCHANGED graph /\ ctxDone' = ctxDone
        /\ UNCHANGED <<startCall, waitCall, startResults, waitResults>>
    BY <1>9 DEF TryShutDown, CallIs, env, calls, channels
  <2>2. OneShutDown' /\ AboutToShutDown' = "nil"
    BY <1>1, <1>9, <2>1, AgendaBegins DEF TryShutDown, Close, ReturnIsAllDone, Ops
  <2>3. Cause' = Cause
    BY <1>9, <2>1, <2>2 DEF TryShutDown, Cause, ShuttingDown, AboutToShutDown
  <2>4. LcNodes' = LcNodes /\ \A n : /\ RunErred(n)' <=> RunErred(n)
                                     /\ HookFailed(n)' <=> HookFailed(n)
    BY <2>1, GraphFixed DEF RunErred, HookFailed
  <2> QED
    BY <2>1, <2>2, <2>3, <2>4 DEF RInv, CauseHasReason, FailuresAreNoticed
<1>10. CASE ReceiveCtxDone
  <2>1. UNCHANGED graph /\ UNCHANGED shutdownErr /\ ctxDone' = ctxDone /\ ctxDone
        /\ UNCHANGED <<startCall, waitCall, startResults, waitResults>>
    BY <1>10 DEF ReceiveCtxDone, outcome, env, calls, channels
  <2>2. AboutToShutDown = "nil"
    BY <1>10 DEF ReceiveCtxDone, Receiving, AboutToShutDown, CallIs
  <2>3. OneShutDown' /\ AboutToShutDown' = "ctx"
    BY <1>10, AgendaBegins, <<>> \in Seq(OtherCalls), <<ShutDown("ctx")>> = <<ShutDown("ctx")>> \o <<>>
       DEF ReceiveCtxDone, ShutDown, Ops
  <2> QED
    BY <2>1, <2>2, <2>3, AgendaKeepsCause
<1>11. ASSUME \/ \E n \in LcNodes : StartTimesOut(n)
              \/ CancelRunCtx \/ Finished \/ UNCHANGED vars
       PROVE  RInv'
  <2>1. UNCHANGED graph /\ UNCHANGED shutdownErr /\ UNCHANGED agenda /\ (ctxDone => ctxDone')
        /\ UNCHANGED <<startCall, waitCall, startResults, waitResults>>
    BY <1>11 DEF StartTimesOut, CancelRunCtx, Finished, vars, session, outcome, env, calls, channels
  <2>2. OneShutDown' /\ AboutToShutDown' = AboutToShutDown
    BY <2>1 DEF RInv, OneShutDown, AboutToShutDown, CallIs
  <2> QED
    BY <2>1, <2>2, AgendaKeepsCause
<1> QED
  BY <1>3, <1>4, <1>5, <1>6, <1>7, <1>8, <1>9, <1>10, <1>11, ReceiveKeepsCause, CallReturnKeepsCause
     DEF Next, SessionStep
\* No shutdown is blamed on a failure or a cancellation that did not happen, and
\* no failure that was received goes without a shutdown.
THEOREM CausesHaveReasons == Spec => []RInv
<1>1. Init => RInv
  <2> SUFFICES ASSUME Init PROVE RInv
    OBVIOUS
  <2>1. OneShutDown /\ Cause = "nil"
    BY DEF Init, OneShutDown, Cause, ShuttingDown, AboutToShutDown, CallIs
  <2>2. \A n \in LcNodes : n \in Node
    BY GraphsAssumption DEF Init, LcNodes
  <2>3. \A n \in LcNodes : startCall[n] = "none" /\ waitCall[n] = "none"
    BY <2>2 DEF Init
  <2> QED
    BY <2>1, <2>3 DEF RInv, CauseHasReason, FailuresAreNoticed, RunErred
<1>2. TypeOK /\ IInv /\ CallsFitPhases /\ RInv /\ [Next]_vars => RInv'
  BY NextKeepsCause
<1> QED
  BY <1>1, <1>2, TypeInvariant, Inductive, CallsFollowPhases, PTL DEF Spec

ResultIsFinal == (result # "none" => pc = "returned") /\ ResultTellsTheEnd

\* No result is left to be received once all phases are over or nothing was started.
LEMMA NothingToReceive ==
  ASSUME TypeOK, IInv, NothingStarted \/ AllOver
  PROVE  /\ startResults = {} /\ waitResults = {}
         /\ \A n \in LcNodes : "running" \notin {startCall[n], waitCall[n], closeCall[n]}
<1>1. \A n \in LcNodes : start[n] # "active" /\ wait[n] # "active" /\ close[n] # "active"
  BY DEF NothingStarted, AllOver, IsDone, IInv, StartFirst, Done
<1>2. startResults \subseteq LcNodes /\ waitResults \subseteq LcNodes
  BY DEF TypeOK
<1> QED
  BY <1>1, <1>2 DEF IInv, GoroutinesHavePhases

LEMMA NextKeepsResult ==
  TypeOK /\ IInv /\ CallsFitPhases /\ RInv /\ ResultIsFinal /\ [Next]_vars => ResultIsFinal'
<1> SUFFICES ASSUME TypeOK, IInv, CallsFitPhases, RInv, ResultIsFinal, [Next]_vars PROVE ResultIsFinal'
  OBVIOUS
<1>1. LcNodes' = LcNodes
  BY GraphFixed, NextMoves DEF NodeStep
\* What does not touch the result comes before Run returns, or changes no call.
<1>2. ASSUME result' = result, result = "none" PROVE ResultIsFinal'
  BY <1>2 DEF ResultIsFinal, ResultTellsTheEnd
<1>3. ASSUME result' = result, pc' = pc, UNCHANGED calls, ctxDone => ctxDone' PROVE ResultIsFinal'
  <2>1. \A n : HookFailed(n)' <=> HookFailed(n)
    BY <1>3 DEF HookFailed, calls
  <2> QED
    BY <1>1, <1>3, <2>1 DEF ResultIsFinal, ResultTellsTheEnd
<1>4. result # "none" => pc = "returned" /\ agenda = <<>> /\ (NothingStarted \/ AllOver)
  BY DEF ResultIsFinal, IInv, Quiet
<1>5. CASE RunBegins
  <2>1. NothingStarted /\ UNCHANGED calls /\ ctxDone' = ctxDone /\ result = "none"
    BY <1>4, <1>5 DEF RunBegins, IInv, Quiet, env
  <2>2. CASE pc' = "returned" /\ result' = "ctx" /\ ctxDone
    BY <2>1, <2>2 DEF ResultIsFinal, ResultTellsTheEnd
  <2>3. CASE pc' = "returned" /\ result' = "nil"
    <3>1. \A n \in LcNodes : startCall[n] = "none" /\ waitCall[n] = "none"
      BY <2>1 DEF NothingStarted, IInv, GoroutinesHavePhases, StartFirst, CallsFitPhases, CallFits, Done
    <3>2. \A n \in LcNodes : ~HookFailed(n)'
      BY <2>1, <3>1 DEF HookFailed, calls
    <3> QED
      BY <1>1, <2>3, <3>2 DEF ResultIsFinal, ResultTellsTheEnd
  <2> QED
    BY <1>2, <1>5, <2>1, <2>2, <2>3 DEF RunBegins
<1>6. CASE ReturnFromCall
  <2>1. UNCHANGED calls /\ ctxDone' = ctxDone /\ result = "none" /\ AboutToShutDown = "nil"
    BY <1>4, <1>6 DEF ReturnFromCall, CallIs, AboutToShutDown, env
  <2>2. CASE AllDone /\ pc' = "returned" /\ result' = shutdownErr
    <3>1. \A n : HookFailed(n)' <=> HookFailed(n)
      BY <2>1 DEF HookFailed, calls
    <3>2. Cause = shutdownErr
      BY <2>1 DEF Cause, ShuttingDown
    <3>3. shutdownErr = "nil" => \A n \in LcNodes : ~HookFailed(n)
      <4>1. startResults = {} /\ waitResults = {}
        BY <2>2, AllDoneMeansOver, NothingToReceive DEF IInv
      <4> QED
        BY <3>2, <4>1, Failed DEF RInv, FailuresAreNoticed
    <3>4. /\ shutdownErr = "hook" => \E n \in LcNodes : HookFailed(n)
          /\ shutdownErr = "ctx" => ctxDone
      BY <3>2 DEF RInv, CauseHasReason
    <3> QED
      BY <1>1, <2>1, <2>2, <3>1, <3>3, <3>4 DEF ResultIsFinal, ResultTellsTheEnd
  <2> QED
    BY <1>2, <1>6, <2>1, <2>2 DEF ReturnFromCall
<1>7. CASE StartNextLeaf \/ LeavesStarted \/ StartNextDependent \/ WaitForStarted \/ CloseStarted
           \/ CloseNext \/ TryShutDown
  <2>1. agenda # <<>>
    BY <1>7, SMTT(30) DEF StartNextLeaf, LeavesStarted, StartNextDependent, WaitForStarted, CloseStarted, CloseNext,
       TryShutDown, CallIs
  <2>2. result' = result
    BY <1>7 DEF StartNextLeaf, LeavesStarted, StartNextDependent, WaitForStarted, CloseStarted, CloseNext,
       TryShutDown, TryStartNode, TryWaitForNode, TryCloseNode, HandleNodeStarted, HandleNodeStartError,
       HandleNodeWaited, outcome
  <2> QED
    BY <1>2, <1>4, <2>1, <2>2
<1>8. ASSUME \/ \E n \in LcNodes : ReceiveStartResult(n) \/ ReceiveWaitResult(n) \/ ReceiveClosed(n)
             \/ ReceiveCtxDone
      PROVE  ResultIsFinal'
  <2>1. pc # "returned"
    BY <1>8 DEF ReceiveStartResult, ReceiveWaitResult, ReceiveClosed, ReceiveCtxDone, Receiving
  <2>2. result' = result
    BY <1>8 DEF ReceiveStartResult, ReceiveWaitResult, ReceiveClosed, ReceiveCtxDone, HandleNodeStarted,
       HandleNodeStartError, HandleNodeWaited, outcome
  <2> QED
    BY <1>2, <1>4, <2>1, <2>2
<1>9. ASSUME NEW n \in LcNodes, StartReturns(n) \/ WaitReturns(n) \/ CloseReturns(n)
      PROVE  ResultIsFinal'
  <2>1. result' = result
    BY <1>9 DEF StartReturns, WaitReturns, CloseReturns, session, outcome
  <2>2. result = "none"
    BY <1>4, <1>9, NothingToReceive DEF StartReturns, WaitReturns, CloseReturns
  <2> QED
    BY <1>2, <2>1, <2>2
<1>10. ASSUME \/ \E n \in LcNodes : StartTimesOut(n)
              \/ CancelRunCtx \/ Finished \/ UNCHANGED vars
       PROVE  ResultIsFinal'
  <2>1. result' = result /\ pc' = pc /\ UNCHANGED calls /\ (ctxDone => ctxDone')
    BY <1>10 DEF StartTimesOut, CancelRunCtx, Finished, vars, session, outcome, env
  <2> QED
    BY <1>3, <2>1
<1> QED
  BY <1>5, <1>6, <1>7, <1>8, <1>9, <1>10 DEF Next, SessionStep

\* The result of Run tells how the session ended: nil only if no hook failed, the
\* context's error only if it was cancelled, a hook's error only if one failed.
THEOREM ResultIsTrue == Spec => []ResultTellsTheEnd
<1>1. Init => ResultIsFinal
  BY DEF Init, ResultIsFinal, ResultTellsTheEnd
<1>2. TypeOK /\ IInv /\ CallsFitPhases /\ RInv /\ ResultIsFinal /\ [Next]_vars => ResultIsFinal'
  BY NextKeepsResult
<1>3. ResultIsFinal => ResultTellsTheEnd
  BY DEF ResultIsFinal
<1> QED
  BY <1>1, <1>2, <1>3, TypeInvariant, Inductive, CallsFollowPhases, CausesHaveReasons, PTL DEF Spec
=============================================================================
