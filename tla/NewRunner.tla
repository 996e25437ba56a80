------------------------------ MODULE NewRunner ------------------------------
(***************************************************************************)
(* newRunnerImpl (runner.go): one goroutine makes a Runner. It provides a  *)
(* root component, whose provider is the function given to NewRunner, like *)
(* any goroutine outside of providers (Registry), and then searches what   *)
(* has been registered for lifecycle hooks (LcNodesGraph). The search      *)
(* takes no lock: the chains of other goroutines go on meanwhile.          *)
(***************************************************************************)
EXTENDS Registry

CONSTANTS
    Root,   \* rootNode
    Maker   \* the goroutine that calls NewRunner

ASSUME NewRunnerAssumption == Root \in Asked /\ Maker \in Caller

VARIABLES
    construction,  \* providing; searching; or what NewRunner returned: failed, cyclic, noHooks, built
    visiting, permMarks, created, preCreatedLcNodes, transitiveLcDeps, sorted, lcDependsOn, cyclic

search == <<visiting, permMarks, created, preCreatedLcNodes, transitiveLcDeps, sorted, lcDependsOn, cyclic>>
newRunnerVars == <<vars, construction, search>>

\* A visit reads the dependencies and the hooks of a component when it comes to it.
Hooked == {n \in Comp : nodeHasHooks[n]}
G == INSTANCE LcNodesGraph
        WITH root <- Root, dependsOn <- nodeDependsOn, hooked <- Hooked, err <- cyclic, DepGraphs <- {}

NewRunnerInit ==
    /\ Init
    /\ \A g \in Caller : asks[g] = Root <=> g = Maker
    /\ construction = "providing"
    /\ visiting = <<>> /\ permMarks = {} /\ sorted = {} /\ lcDependsOn = [lc \in {} |-> {}]
    /\ created = [n \in Comp |-> 0]
    /\ preCreatedLcNodes = [n \in Comp |-> {}] /\ transitiveLcDeps = [n \in Comp |-> {}]
    /\ cyclic = FALSE

\* "if depNode has no runnables, leave lcNodes empty". Mutant: none of its own.
SearchNeeded_Mutant == nodeHasHooks[Root]
SearchNeeded == regState[Root] = "withLcHooks"

\* GetComponent reads the error (node.go:135) without the signal that EndChain gave back.
RootProvided ==
    /\ construction = "providing" /\ caller[Maker] = "returned"
    /\ \/ providedErr[Root] /\ construction' = "failed" /\ UNCHANGED visiting
       \/ ~providedErr[Root] /\ ~SearchNeeded /\ construction' = "noHooks" /\ UNCHANGED visiting
       \/ ~providedErr[Root] /\ SearchNeeded /\ construction' = "searching" /\ visiting' = <<G!Visit(Root)>>
    /\ UNCHANGED <<vars, permMarks, created, preCreatedLcNodes, transitiveLcDeps, sorted, lcDependsOn, cyclic>>

SearchGoesOn ==
    /\ construction = "searching"
    /\ UNCHANGED <<vars, construction>>
    /\ G!FinishVisit \/ \E m \in Comp : G!VisitMarked(m) \/ G!VisitNew(m) \/ G!VisitVisiting(m)

SearchEnds ==
    /\ construction = "searching" /\ ~G!InProgress
    /\ construction' = IF cyclic THEN "cyclic" ELSE "built"
    /\ UNCHANGED <<vars, search>>

OthersGoOn == Next /\ UNCHANGED <<construction, search>>

NewRunnerNext == RootProvided \/ SearchGoesOn \/ SearchEnds \/ OthersGoOn

NewRunnerSpec == NewRunnerInit /\ [][NewRunnerNext]_newRunnerVars

-----------------------------------------------------------------------------
(* Properties *)

\* Where nothing was asked for while it was being provided, and no more than one component
\* has late inits (see RegisteredWithOneLateInit).
Orderly == cycled = {} /\ Cardinality({n \in Comp : lateInitsAdded[n] > 0}) <= 1

\* What user code of n has obtained, directly or further down through these components.
Used(n, through) == Reached(obtained[n], [k \in Comp |-> IF k \in through THEN obtained[k] ELSE {}])
InUse == {Root} \cup Used(Root, Comp)
NearestHooksUsed(n) == (Used(n, Comp \ hookAdded) \cap hookAdded) \ {n}

\* A Runner has the hooks of exactly those components that user code has obtained, from
\* the function given to NewRunner downwards and through late inits; and, unless
\* components use each other in a cycle, each hook waits for exactly the nearest ones
\* that it uses: what "should be successfully started before dependent components can
\* Start" (lifecycle_types.go:7) follows from what providers do.
RunnerFollowsUse ==
    Orderly =>
        /\ construction \in {"noHooks", "built"} => G!Owners(sorted) = hookAdded \cap InUse
        /\ construction = "built" /\ (\A n \in InUse : n \notin Used(n, Comp)) =>
              \A lc \in sorted : G!Owners(lcDependsOn[lc]) = NearestHooksUsed(G!Owner(lc))

\* The search, which takes no lock, comes only to components that are registered, and none
\* of these changes while other goroutines provide components that share them.
SearchReadsSettled ==
    [][construction = "searching" /\ Orderly =>
          \A n \in permMarks \cup G!TempMarks :
              IsRegistered(n) /\ UNCHANGED <<nodeDependsOn[n], nodeHasHooks[n]>>]_newRunnerVars
=============================================================================
