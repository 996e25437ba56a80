---------------------------- MODULE PendingNodes ----------------------------
(***************************************************************************)
(* What the registry knows of components that are not registered yet       *)
(* (pending_nodes.go). A component waits for its own frames first, then    *)
(* for the components below it; it is registered, with its dependencies    *)
(* and hooks, when it waits for nothing any more, or when it fails.        *)
(*                                                                         *)
(* remove calls itself for dependents, in the random order of a map.       *)
(* removing is its call stack: sets of calls still to make.                *)
(***************************************************************************)
EXTENDS ComponentNode

VARIABLES
    pending,  \* pendingNodes, a function whose domain changes
    removing

waitsForOwnFrames == -1

Rec(waits) ==
    [dependsOn |-> {}, dependents |-> {}, lcHookBuilders |-> FALSE, lcHooks |-> FALSE,
     waitsForDepsCount |-> waits, hasOwnOrTransitiveRunnables |-> FALSE]

IsPending(n) == n \in DOMAIN pending
\* The record of a component, a zero value if there is none.
RecOf(n) == IF IsPending(n) THEN pending[n] ELSE Rec(0)
With(n, rec) == [m \in DOMAIN pending \cup {n} |-> IF m = n THEN rec ELSE pending[m]]

-----------------------------------------------------------------------------
(* Operations. dependent is a set: empty, or the component that calls. *)

Add(dependent, m) ==
    \/ /\ regState[m] = "none"
       /\ LET known == [n \in DOMAIN pending \cup {m} |->
                            IF IsPending(n) THEN pending[n] ELSE Rec(waitsForOwnFrames)]
              linked == dependent \cap DOMAIN known
          IN  pending' = [n \in DOMAIN known |->
                            [known[n] EXCEPT
                                !.dependsOn = IF n \in linked THEN @ \cup {m} ELSE @,
                                !.dependents = IF n = m THEN @ \cup linked ELSE @]]
    \/ /\ regState[m] = "withLcHooks"
       /\ \E d \in dependent :
             pending' = With(d, [RecOf(d) EXCEPT !.dependsOn = @ \cup {m},
                                                 !.hasOwnOrTransitiveRunnables = TRUE])

AddLifecycleHookBuilder(n) == pending' = With(n, [RecOf(n) EXCEPT !.lcHookBuilders = TRUE])

\* The loop of countDepsTransitivelyWaitingForOwnFrames: what it may have counted, and
\* visited, after the dependencies `todo`, which it takes in any order. It stops when it
\* has counted as many as the component waits for (limit).
Loops == [limit : Nat, todo : SUBSET Comp, visited : SUBSET Comp, count : Nat]
Loop(limit, todo, visited, count) == [limit |-> limit, todo |-> todo, visited |-> visited, count |-> count]
CountLoop[l \in Loops] ==
    LET Visit(m) ==
            LET waits == RecOf(m).waitsForDepsCount
                Counted(k) == {[count |-> k, visited |-> l.visited \cup {m}]}
            IN  IF m \in l.visited \/ waits = 0 THEN Counted(0)
                ELSE IF waits = waitsForOwnFrames THEN Counted(1)
                ELSE CountLoop[Loop(waits, pending[m].dependsOn, l.visited \cup {m}, 0)]
        After(m, v) == CountLoop[Loop(l.limit, l.todo \ {m}, v.visited, l.count + v.count)]
    IN  IF l.todo = {} \/ l.count >= l.limit THEN {[count |-> l.count, visited |-> l.visited]}
        ELSE UNION {UNION {After(m, v) : v \in Visit(m)} : m \in l.todo}

\* From m, which n depends on. Mutant: n, whose own frames are over, is visited too.
CountDepsTransitivelyWaitingForOwnFrames_Mutant(m, n) ==
    {v.count : v \in CountLoop[Loop(Cardinality(Comp), {m}, {}, 0)]}
CountDepsTransitivelyWaitingForOwnFrames(m, n) ==
    {v.count : v \in CountLoop[Loop(Cardinality(Comp), {m}, {n}, 0)]}

RemoveArgs(n, err, isLateInitErr, report) ==
    [node |-> n, err |-> err, isLateInitErr |-> isLateInitErr, report |-> report]
ToRemove(calls, rest) == IF calls = {} THEN rest ELSE <<calls>> \o rest

\* A sum of such counts, as the number of places below them.
Total(count) == Cardinality({p \in (DOMAIN count) \X (1 .. Cardinality(Comp)) : p[2] <= count[p[1]]})

\* The sums of these counts. Mutant: = where the code has +=.
WaitsForDeps_Mutant(n) ==
    IF pending[n].dependsOn = {} THEN {0}
    ELSE UNION {CountDepsTransitivelyWaitingForOwnFrames(m, n) : m \in pending[n].dependsOn}
WaitsForDeps(n) ==
    LET deps == pending[n].dependsOn
        counts == {f \in [deps -> 0 .. Cardinality(Comp)] :
                      \A m \in deps : f[m] \in CountDepsTransitivelyWaitingForOwnFrames(m, n)}
    IN  {Total(f) : f \in counts}

OnLastNodeFramePoppedWithNoErr(n) ==
    \/ /\ ~IsPending(n)
       /\ UNCHANGED <<pending, removing>>
    \/ /\ IsPending(n)
       /\ \E waits \in WaitsForDeps(n) :
             LET hooks == pending[n].lcHooks \/ pending[n].lcHookBuilders
             IN  /\ pending' = [pending EXCEPT
                                   ![n].waitsForDepsCount = waits,
                                   ![n].lcHooks = hooks,
                                   ![n].lcHookBuilders = FALSE,
                                   ![n].hasOwnOrTransitiveRunnables = @ \/ hooks]
                 /\ removing' = ToRemove(IF waits = 0 THEN {RemoveArgs(n, FALSE, FALSE, FALSE)} ELSE {}, removing)

OnDepFrameErr(n, report) ==
    /\ removing' = ToRemove({RemoveArgs(n, TRUE, FALSE, report)}, removing)
    /\ UNCHANGED pending

OnDepLateInitFrameErr_Mutant(n) == OnDepFrameErr(n, TRUE)
OnDepLateInitFrameErr(n) ==
    /\ removing' = ToRemove({RemoveArgs(n, TRUE, TRUE, TRUE)}, removing)
    /\ UNCHANGED pending

\* Components reached from others: the least set that contains these, and next[k] with k.
Reached(from, next) ==
    {k \in Comp : \A S \in SUBSET Comp : from \subseteq S /\ (\A j \in S : next[j] \subseteq S) => k \in S}

\* Through records, to a record or a component that has hooks. Mutant: of its own.
HasDirectOrTransitiveRunnables_Mutant(n) == pending[n].lcHooks
HasDirectOrTransitiveRunnables(n) ==
    \E k \in Reached({n}, [k \in Comp |-> RecOf(k).dependsOn]) :
        IF IsPending(k) THEN pending[k].hasOwnOrTransitiveRunnables \/ pending[k].lcHooks
                        ELSE regState[k] = "withLcHooks"

\* Dependents whose provider and late inits are over: the others go on, and learn of
\* an error from their own frames.
Waiting(n) ==
    {d \in pending[n].dependents \ {n} : IsPending(d) /\ pending[d].waitsForDepsCount # waitsForOwnFrames}

\* Those that do not depend on n any more.
LosesDependency(n, err) == IF err THEN pending[n].dependents ELSE {}

Remove(a) ==
    LET n == a.node
        rest == ToRemove(Head(removing) \ {a}, Tail(removing))
        goesToo == {d \in Waiting(n) : a.isLateInitErr \/ pending[d].waitsForDepsCount = 1}
    IN  \/ /\ ~IsPending(n)
           /\ removing' = rest
           /\ UNCHANGED <<pending, providedErr, regResult>>
        \/ /\ IsPending(n)
           /\ pending' = [m \in DOMAIN pending \ {n} |->
                            [pending[m] EXCEPT
                                !.dependents = IF m \in pending[n].dependsOn THEN @ \ {n} ELSE @,
                                !.dependsOn = IF m \in LosesDependency(n, a.err) THEN @ \ {n} ELSE @,
                                !.waitsForDepsCount = IF m \in Waiting(n) \ goesToo THEN @ - 1 ELSE @]]
           /\ removing' = ToRemove({RemoveArgs(d, a.err, a.isLateInitErr, TRUE) : d \in goesToo}, rest)
           /\ SetRegResult(n, a.err /\ a.report,
                           IF a.err THEN {} ELSE pending[n].dependsOn,
                           pending[n].lcHooks,
                           ~a.err /\ HasDirectOrTransitiveRunnables(n))

RemoveNext == removing # <<>> /\ \E a \in Head(removing) : Remove(a)

PendingInit ==
    /\ pending = [n \in {} |-> Rec(0)]
    /\ removing = <<>>

-----------------------------------------------------------------------------
(* Properties *)

\* Components whose counts have left them behind: they wait for others, though no component
\* that they depend on, directly or not, has a frame left (see EveryNodeIsRegistered).
LeftBehind ==
    UNION {S \in SUBSET {n \in DOMAIN pending : pending[n].waitsForDepsCount # waitsForOwnFrames} :
              \A n \in S : pending[n].dependsOn \cap DOMAIN pending \subseteq S}

PendingTypeOK ==
    /\ DOMAIN pending \subseteq Comp
    /\ \A n \in DOMAIN pending :
          pending[n] \in [dependsOn : SUBSET Comp, dependents : SUBSET Comp, lcHookBuilders : BOOLEAN,
                          lcHooks : BOOLEAN, waitsForDepsCount : Nat \cup {waitsForOwnFrames}, hasOwnOrTransitiveRunnables : BOOLEAN]
    /\ removing \in Seq(SUBSET [node : Comp, err : BOOLEAN, isLateInitErr : BOOLEAN, report : BOOLEAN])

\* From a component that waits for others, no more unfinished ones are counted than it
\* waits for: "If the counter is consistent with dependencies states, there should be no
\* more waiting dependencies" (pending_nodes.go:239).
CountsAreConsistent ==
    \A n \in DOMAIN pending : pending[n].waitsForDepsCount > 0 =>
        \A v \in CountLoop[Loop(Cardinality(Comp), pending[n].dependsOn, {n}, 0)] :
            v.count <= pending[n].waitsForDepsCount
=============================================================================
