---------------------------- MODULE LcNodesGraph ----------------------------
(***************************************************************************)
(* newLcNodesGraph (lc_nodes.go): the graph of components below a Runner's *)
(* root, where components without lifecycle hooks may lie between those    *)
(* with, becomes the graph of lifecycle hooks that a session runs. It is a *)
(* depth-first search, modelled with its call stack; a component's         *)
(* dependencies are visited in any order, because GetDependsOn promises    *)
(* none. Late inits make cycles of components possible.                    *)
(*                                                                         *)
(* The hooks of one component get their lcNodes together, with the same    *)
(* dependencies, so one lcNode stands for all of them here: the component  *)
(* and, because the code may create them more than once, a number.         *)
(***************************************************************************)
EXTENDS Integers, Sequences, FiniteSets

CONSTANTS
    Comp,       \* the components there can be
    DepGraphs   \* the component graphs: root, dependsOn and hooked (those that have hooks)

ASSUME DepGraphsAssumption ==
    /\ IsFiniteSet(Comp)
    /\ \A g \in DepGraphs : /\ g.root \in Comp /\ g.hooked \subseteq Comp
                            /\ g.dependsOn \in [Comp -> SUBSET Comp]

VARIABLES
    root, dependsOn, hooked,  \* the component graph, fixed
    visiting,          \* visitingStack, and the dependencies each visit has still to make
    permMarks,
    created,           \* how often the lcNode of a component was created
    preCreatedLcNodes, \* of each component: none or one
    transitiveLcDeps,
    sorted,
    lcDependsOn,       \* dependsOn of the lcNodes in sorted
    err

graph == <<root, dependsOn, hooked>>
vars == <<graph, visiting, permMarks, created, preCreatedLcNodes, transitiveLcDeps, sorted,
          lcDependsOn, err>>

SameGraph == root' = root /\ dependsOn' = dependsOn /\ hooked' = hooked

LcNode == Comp \X Nat
Owner(lc) == lc[1]
Owners(lcs) == {Owner(lc) : lc \in lcs}

Visit(n) == [node |-> n, todo |-> dependsOn[n]]
Top == visiting[Len(visiting)]
TempMarks == {visiting[i].node : i \in DOMAIN visiting}
Below == SubSeq(visiting, 1, Len(visiting) - 1)
Visited(m) == Append(Below, [Top EXCEPT !.todo = @ \ {m}])

InProgress == visiting # <<>> /\ ~err

Init ==
    /\ \E g \in DepGraphs : root = g.root /\ dependsOn = g.dependsOn /\ hooked = g.hooked
    /\ visiting = <<Visit(root)>>
    /\ permMarks = {} /\ sorted = {} /\ lcDependsOn = [lc \in {} |-> {}]
    /\ created = [n \in Comp |-> 0]
    /\ preCreatedLcNodes = [n \in Comp |-> {}]
    /\ transitiveLcDeps = [n \in Comp |-> {}]
    /\ err = FALSE

VisitMarked(m) ==
    /\ InProgress /\ m \in Top.todo \cap permMarks
    /\ visiting' = Visited(m)
    /\ SameGraph /\ UNCHANGED <<permMarks, created, preCreatedLcNodes, transitiveLcDeps, sorted,
                   lcDependsOn, err>>

VisitNew(m) ==
    /\ InProgress /\ m \in Top.todo \ (permMarks \cup TempMarks)
    /\ visiting' = Append(Visited(m), Visit(m))
    /\ SameGraph /\ UNCHANGED <<permMarks, created, preCreatedLcNodes, transitiveLcDeps, sorted,
                   lcDependsOn, err>>

\* The components from the visit of m on the stack to the top of the stack.
CycleThrough(m) ==
    LET first == CHOOSE i \in DOMAIN visiting : visiting[i].node = m
    IN  {visiting[i].node : i \in first .. Len(visiting)}

SeveralHooked_Mutant(cycle) == cycle \cap hooked # {}
SeveralHooked(cycle) == Cardinality(cycle \cap hooked) > 1

\* createLcNodesForDepNode: what dependents see is replaced, if there was something.
CreateLcNode(n) ==
    /\ created' = [created EXCEPT ![n] = @ + 1]
    /\ transitiveLcDeps' = [transitiveLcDeps EXCEPT ![n] = {<<n, created[n]>>}]

\* A second visit: a cycle, which is allowed if one component of it at most has hooks.
VisitVisiting(m) ==
    /\ InProgress /\ m \in Top.todo \cap TempMarks
    /\ visiting' = Visited(m)
    /\ \/ /\ SeveralHooked(CycleThrough(m))
          /\ err' = TRUE
          /\ UNCHANGED <<created, preCreatedLcNodes, transitiveLcDeps>>
       \/ /\ ~SeveralHooked(CycleThrough(m)) /\ m \in hooked
          /\ CreateLcNode(m)
          /\ preCreatedLcNodes' = [preCreatedLcNodes EXCEPT ![m] = {<<m, created[m]>>}]
          /\ UNCHANGED err
       \/ /\ ~SeveralHooked(CycleThrough(m)) /\ m \notin hooked
          /\ UNCHANGED <<created, preCreatedLcNodes, transitiveLcDeps, err>>
    /\ SameGraph /\ UNCHANGED <<permMarks, sorted, lcDependsOn>>

\* dependsOnSlice: of a component's own lcNodes there are some in a cycle.
Collected_Mutant(n) == UNION {transitiveLcDeps[d] : d \in dependsOn[n] \cap hooked}
Collected(n) == {lc \in UNION {transitiveLcDeps[d] : d \in dependsOn[n]} : Owner(lc) # n}

LeftPreCreated(n) == [preCreatedLcNodes EXCEPT ![n] = {}]

PickedUp_Mutant1(n) == preCreatedLcNodes[n]   \* none is created for want of one
PickedUp_Mutant2(n) == preCreatedLcNodes[n] \cup {<<n, created[n]>>}   \* creates one anyway
PickedUp(n) == IF preCreatedLcNodes[n] # {} THEN preCreatedLcNodes[n] ELSE {<<n, created[n]>>}

\* All dependencies are visited.
FinishVisit ==
    /\ InProgress /\ Top.todo = {}
    /\ visiting' = Below
    /\ permMarks' = permMarks \cup {Top.node}
    /\ LET n == Top.node
       IN  \/ /\ n \in hooked
              /\ sorted' = sorted \cup PickedUp(n)
              /\ lcDependsOn' = [lc \in sorted' |-> IF Owner(lc) = n THEN Collected(n)
                                                                     ELSE lcDependsOn[lc]]
              /\ preCreatedLcNodes' = LeftPreCreated(n)
              /\ IF preCreatedLcNodes[n] = {} THEN CreateLcNode(n)
                                              ELSE UNCHANGED <<created, transitiveLcDeps>>
           \/ /\ n \notin hooked
              /\ transitiveLcDeps' = IF Collected(n) = {} THEN transitiveLcDeps
                                     ELSE [transitiveLcDeps EXCEPT ![n] = Collected(n)]
              /\ UNCHANGED <<created, preCreatedLcNodes, sorted, lcDependsOn>>
    /\ SameGraph /\ UNCHANGED err

Built == visiting = <<>>
Finished == ~InProgress /\ UNCHANGED vars

Next ==
    \/ \E m \in Comp : VisitMarked(m) \/ VisitNew(m) \/ VisitVisiting(m)
    \/ FinishVisit
    \/ Finished

Spec == Init /\ [][Next]_vars

-----------------------------------------------------------------------------
(* What the graph should be, by reachability alone *)

\* The components below n, passing only through components of the set `through`: the
\* least set with the dependencies of n and of its members in `through`.
ClosedBelow(n, through, S) ==
    dependsOn[n] \subseteq S /\ \A m \in S \cap through : dependsOn[m] \subseteq S
Found(n, through) == {m \in Comp : \A S \in SUBSET Comp : ClosedBelow(n, through, S) => m \in S}

Reachable(n) == Found(n, Comp)
FromRoot == {root} \cup Reachable(root)

\* The hooks that the hooks of n depend on: the nearest ones below n.
NearestHooks(n) == (Found(n, Comp \ hooked) \cap hooked) \ {n}

\* The components without hooks on the way there.
Between(n) == Found(n, Comp \ hooked) \ hooked
NoCycleBetween(n) == \A m \in Between(n) : m \notin Reachable(m)

\* The lcNodes in the graph of the nearest hooks below a component.
NearestLcNodes(n) == LET nearest == NearestHooks(n) IN {lc \in sorted : Owner(lc) \in nearest}

-----------------------------------------------------------------------------
(* Properties *)

\* Every variable has its type, and an lcNode is in the sorted list once it has dependencies.
GraphTypeOK ==
    /\ root \in Comp /\ hooked \subseteq Comp /\ dependsOn \in [Comp -> SUBSET Comp]
    /\ visiting \in Seq([node : Comp, todo : SUBSET Comp])
    /\ permMarks \subseteq Comp /\ created \in [Comp -> Nat] /\ err \in BOOLEAN
    /\ sorted \subseteq LcNode /\ DOMAIN lcDependsOn = sorted
    /\ \A n \in Comp : preCreatedLcNodes[n] \subseteq LcNode /\ transitiveLcDeps[n] \subseteq LcNode
    /\ \A lc \in sorted : lcDependsOn[lc] \subseteq LcNode

\* newLcNodesGraph: at no time is a hook made to wait for hooks that its component does not
\* depend on, nor for itself, also when cycles are broken up. Unless a component without
\* hooks between them is in a cycle, it depends on exactly the lcNodes of the nearest hooks
\* below it, whatever cycles there are elsewhere.
ExactDependencies ==
    \A lc \in sorted :
        /\ Owners(lcDependsOn[lc]) \subseteq NearestHooks(Owner(lc))
        /\ NoCycleBetween(Owner(lc)) => lcDependsOn[lc] = NearestLcNodes(Owner(lc))

\* errCyclicDependency is returned only if two components with hooks are in a cycle.
RefusedOnlyIfHooksInCycle ==
    err => \E m, n \in hooked \cap FromRoot : m # n /\ m \in Reachable(n) /\ n \in Reachable(m)

\* Every component from the root down that has hooks gets into the graph, in a cycle or not.
EveryHookIsIn == Built => Owners(sorted) = hooked \cap FromRoot

\* However often a cycle leads to a component, its hooks are in the graph once: a
\* session would start them twice.
NoHookTwice == \A lc, other \in sorted : Owner(lc) = Owner(other) => lc = other

\* "preCreatedLcNodes is not empty after visiting root" (lc_nodes.go:157): the
\* lcNodes created early are picked up by the first visit.
PreCreatedArePickedUp == Built => \A n \in Comp : preCreatedLcNodes[n] = {}

\* "each lcNode corresponds a lifecycleHook" (lc_nodes.go:15): what a hook waits for
\* is an lcNode of the graph.
DependenciesAreInGraph == Built => \A lc \in sorted : lcDependsOn[lc] \subseteq sorted

\* transitiveLcDeps "maps depNode to its transitive runnable dependencies"
\* (lc_nodes.go:24): when its visit is over, none is missing.
TransitiveDepsComplete ==
    Built => \A n \in permMarks \ hooked : Owners(transitiveLcDeps[n]) = NearestHooks(n)

\* "At this point there are no cycles in the graph" (lc_nodes.go:160).
NoCycleOfHooks ==
    Built => \A cycle \in SUBSET sorted \ {{}} : \E lc \in cycle : lcDependsOn[lc] \cap cycle = {}
=============================================================================
