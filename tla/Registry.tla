------------------------------ MODULE Registry ------------------------------
(***************************************************************************)
(* The registry (registry.go): goroutines ask for components; one chain of *)
(* provide calls runs at a time. In a chain, user code (providers, and     *)
(* late inits after the outermost provider has returned) asks for other    *)
(* components, adds lifecycle hooks and late inits, and returns, with or   *)
(* without an error, or panics.                                            *)
(*                                                                         *)
(* What user code may do is given by constants; it does each of these      *)
(* things at most once, in any order or not at all, and may ignore an      *)
(* error that it gets.                                                     *)
(***************************************************************************)
EXTENDS NodeFrames, PendingNodes

CONSTANTS
    Caller,         \* goroutines outside of providers, each asks for one component
    Asked,          \* the components they may ask for
    ProviderCalls,  \* <<d, m>>: the provider of d may ask for m
    LateInitCalls,  \* the same for the late inits of d
    MaxLateInits,   \* bound: how many late inits a component may add
    MayHaveHook,    \* the components that may add a lifecycle hook
    Failures        \* how user code may fail: err, panic, lateInit

ASSUME RegistryAssumption ==
    /\ Asked \subseteq Comp /\ MayHaveHook \subseteq Comp
    /\ ProviderCalls \subseteq Comp \X Comp /\ LateInitCalls \subseteq Comp \X Comp
    /\ MaxLateInits \in [Comp -> Nat]
    /\ Failures \subseteq {"err", "panic", "lateInit"}

VARIABLES
    signal,      \* emptyStackSignal holds a value
    caller,      \* of each goroutine: idle, waiting, inChain, or returned from OnGetComponent
    asks,        \* the component it asks for
    returning,   \* the component whose getter is about to return to the frame on top, if any
    called,      \* the calls that user code has made
    lateInitsAdded, hookAdded,
    cycled,      \* history: the components that a cycle of calls came back to
    revived,     \* history: those that were asked for when they had been left behind
    obtained     \* of each component: those it got without an error

callers == <<caller, asks>>
user == <<called, lateInitsAdded, hookAdded, obtained, cycled, revived>>
vars == <<componentNode, frames, pending, removing, signal, callers, returning, user>>

InChain == \E g \in Caller : caller[g] = "inChain"
Settled == removing = <<>> /\ returning = {}
UserCode == Settled /\ stack # <<>> /\ Top.kind \in {"provider", "lateInit"}

-----------------------------------------------------------------------------
(* Goroutines outside of providers *)

Ask(g, n) ==
    /\ caller[g] = "idle"
    /\ asks' = [asks EXCEPT ![g] = n]
    /\ caller' = [caller EXCEPT ![g] = IF IsRegistered(n) THEN "returned" ELSE "waiting"]
    /\ UNCHANGED <<componentNode, frames, pending, removing, signal, returning, user>>

\* Whether the signal is there after the second check of IsRegistered. Mutant: the
\* goroutine keeps it.
SignalAfterShortcut_Mutant == FALSE
SignalAfterShortcut == TRUE

\* The component may have been registered while the goroutine waited.
EnterChain(g) ==
    /\ caller[g] = "waiting" /\ signal
    /\ \/ /\ IsRegistered(asks[g])
          /\ caller' = [caller EXCEPT ![g] = "returned"]
          /\ signal' = SignalAfterShortcut
          /\ UNCHANGED <<frames, pending>>
       \/ /\ ~IsRegistered(asks[g])
          /\ signal' = FALSE
          /\ caller' = [caller EXCEPT ![g] = "inChain"]
          /\ Add({}, asks[g])
          /\ PushProviderFrame(asks[g])
    /\ UNCHANGED <<componentNode, removing, asks, returning, user>>

-----------------------------------------------------------------------------
(* User code in the frame on top of the stack *)

Allowed(d, m) ==
    /\ <<d, m>> \in IF Top.kind = "provider" THEN ProviderCalls ELSE LateInitCalls
    /\ <<Top.kind, d, m>> \notin called

Obtain(d, m) == obtained' = IF providedErr[m] THEN obtained ELSE [obtained EXCEPT ![d] = @ \cup {m}]

Call(m) ==
    /\ UserCode /\ Allowed(Top.node, m)
    /\ called' = called \cup {<<Top.kind, Top.node, m>>}
    /\ \/ /\ regState[m] = "withNoLcHooks"
          /\ Obtain(Top.node, m)
          /\ UNCHANGED <<frames, pending>>
       \/ /\ regState[m] # "withNoLcHooks"
          /\ Add({Top.node}, m)
          /\ PushProviderFrame(m)
          /\ UNCHANGED obtained
    /\ UNCHANGED <<componentNode, removing, signal, callers, returning, lateInitsAdded, hookAdded, cycled, revived>>

UseLateInit ==
    /\ UserCode /\ lateInitsAdded[Top.node] < MaxLateInits[Top.node]
    /\ lateInitsAdded' = [lateInitsAdded EXCEPT ![Top.node] = @ + 1]
    /\ LateInitQueuePush(Top.node)
    /\ UNCHANGED <<componentNode, pending, removing, signal, callers, returning, called, hookAdded, obtained, cycled, revived>>

UseLifecycle ==
    /\ UserCode /\ Top.node \in MayHaveHook \ hookAdded
    /\ hookAdded' = hookAdded \cup {Top.node}
    /\ AddLifecycleHookBuilder(Top.node)
    /\ UNCHANGED <<componentNode, frames, removing, signal, callers, returning, called, lateInitsAdded, obtained, cycled, revived>>

-----------------------------------------------------------------------------
(* The end of a frame *)

\* The deferred part of OnGetComponent.
ProviderFrameEnds(err, report) ==
    /\ PopTopFrame(err)
    /\ returning' = IF Below = <<>> THEN {} ELSE {Top.node}
    /\ IF err THEN OnDepFrameErr(Top.node, report)
       ELSE IF PopsLastFrame THEN OnLastNodeFramePoppedWithNoErr(Top.node)
       ELSE UNCHANGED <<pending, removing>>
    /\ UNCHANGED <<regResult, signal, callers, called, lateInitsAdded, hookAdded, obtained>>

\* StartProviding: runs the provider, unless it has run or is running.
StartProviding ==
    /\ Settled /\ stack # <<>> /\ Top.kind = "called"
    /\ \/ /\ providingState[Top.node] = "none"
          /\ providingState' = [providingState EXCEPT ![Top.node] = "inProgress"]
          /\ stack' = Append(Below, Frame(Top.node, "provider"))
          /\ UNCHANGED <<providedErr, regResult, lateInitsQueue, stats, pending, removing, signal,
                         callers, returning, user>>
       \/ \* a cycle
          /\ providingState[Top.node] = "inProgress"
          /\ providingState' = [providingState EXCEPT ![Top.node] = "provided"]
          /\ providedErr' = [providedErr EXCEPT ![Top.node] = TRUE]
          /\ cycled' = cycled \cup {Top.node}
          /\ UNCHANGED revived
          /\ ProviderFrameEnds(TRUE, FALSE)
       \/ /\ providingState[Top.node] = "provided"
          /\ revived' = revived \cup ({Top.node} \cap LeftBehind)
          /\ UNCHANGED <<providingState, providedErr, cycled>>
          /\ ProviderFrameEnds(providedErr[Top.node], FALSE)

ProviderReturns ==
    /\ UserCode /\ Top.kind = "provider"
    /\ providingState' = [providingState EXCEPT ![Top.node] = "provided"]
    /\ \/ /\ providedErr' = [providedErr EXCEPT ![Top.node] = FALSE]
          /\ ProviderFrameEnds(FALSE, FALSE)
       \/ /\ "err" \in Failures
          /\ providedErr' = [providedErr EXCEPT ![Top.node] = TRUE]
          /\ ProviderFrameEnds(TRUE, FALSE)
    /\ UNCHANGED <<cycled, revived>>

ProviderPanics ==
    /\ UserCode /\ Top.kind = "provider" /\ "panic" \in Failures
    /\ providingState' = [providingState EXCEPT ![Top.node] = "provided"]
    /\ UNCHANGED <<providedErr, cycled, revived>>
    /\ ProviderFrameEnds(TRUE, TRUE)

\* The deferred part of executeQueuedLateInit.
LateInitReturns ==
    /\ UserCode /\ Top.kind = "lateInit"
    /\ \E err \in {FALSE} \cup {"lateInit" \in Failures} :
          /\ PopTopFrame(err)
          /\ IF ~PopsLastFrame THEN UNCHANGED <<pending, removing>>
             ELSE IF err THEN OnDepLateInitFrameErr(Top.node)
             ELSE OnLastNodeFramePoppedWithNoErr(Top.node)
    /\ UNCHANGED <<componentNode, signal, callers, returning, user>>

GetterReturns ==
    /\ removing = <<>> /\ returning # {}
    /\ \E m \in returning : Obtain(Top.node, m)
    /\ returning' = {}
    /\ UNCHANGED <<componentNode, frames, pending, removing, signal, callers, called, lateInitsAdded, hookAdded, cycled, revived>>

-----------------------------------------------------------------------------
(* The rest of the chain, when the stack is empty *)

RemovePending ==
    /\ RemoveNext
    /\ UNCHANGED <<providingState, frames, signal, callers, returning, user>>

ExecuteQueuedLateInit ==
    /\ InChain /\ stack = <<>> /\ removing = <<>> /\ QueueLen > 0
    /\ PushQueuedLateInitFrameToStack
    /\ UNCHANGED <<componentNode, pending, removing, signal, callers, returning, user>>

\* notifyStackIsEmpty. What the outermost getter then reads of its component is not read
\* under the signal: whoever uses the answer reads it in a later step.
EndChain(g) ==
    /\ caller[g] = "inChain" /\ stack = <<>> /\ removing = <<>> /\ QueueLen = 0
    /\ signal' = TRUE
    /\ caller' = [caller EXCEPT ![g] = "returned"]
    /\ UNCHANGED <<componentNode, frames, pending, removing, asks, returning, user>>

Init ==
    /\ NodeInit /\ FramesInit /\ PendingInit
    /\ signal = TRUE /\ returning = {}
    /\ caller = [g \in Caller |-> "idle"]
    /\ asks \in [Caller -> Asked]
    /\ called = {} /\ hookAdded = {}
    /\ lateInitsAdded = [n \in Comp |-> 0] /\ obtained = [n \in Comp |-> {}] /\ cycled = {} /\ revived = {}

AllAnswered == (\A g \in Caller : caller[g] = "returned") /\ UNCHANGED vars

Next ==
    \/ \E g \in Caller : Ask(g, asks[g]) \/ EnterChain(g) \/ EndChain(g)
    \/ \E m \in Comp : Call(m)
    \/ UseLateInit \/ UseLifecycle
    \/ StartProviding \/ ProviderReturns \/ ProviderPanics \/ LateInitReturns \/ GetterReturns
    \/ RemovePending \/ ExecuteQueuedLateInit
    \/ AllAnswered

Spec == Init /\ [][Next]_vars

-----------------------------------------------------------------------------
(* Properties *)

RegistryTypeOK ==
    /\ NodeTypeOK /\ FramesTypeOK /\ PendingTypeOK
    /\ signal \in BOOLEAN /\ returning \subseteq Comp
    /\ caller \in [Caller -> {"idle", "waiting", "inChain", "returned"}]
    /\ asks \in [Caller -> Comp]

\* The signal is there exactly if no goroutine is in a chain; it is not lost, nor sent
\* before the stack, the late inits and the removals of a chain are over, whichever of
\* them fail ("only after we performed all operations", registry.go:175).
OneChainAtATime ==
    /\ \A g, h \in Caller : caller[g] = "inChain" /\ caller[h] = "inChain" => g = h
    /\ signal <=> ~InChain
    /\ signal => stack = <<>> /\ QueueLen = 0 /\ removing = <<>> /\ returning = {}

\* "node will also receive SetRegResult() call before the stack becomes empty"
\* (registry.go:96): at the end of a chain no component is left in pendingNodes.
EveryNodeIsRegistered == signal => DOMAIN pending = {}

\* The same as far as it holds: where at most one component has used late inits.
RegisteredWithOneLateInit ==
    Cardinality({n \in Comp : lateInitsAdded[n] > 0}) <= 1 => EveryNodeIsRegistered

\* Of components that can be used: at the end of a chain, where nothing has been asked
\* for while it was being provided, or after it had been left behind.
Usable(d) == signal /\ cycled = {} /\ revived = {} /\ IsRegistered(d) /\ ~providedErr[d]

\* "If `lateInitFn` returns an error (or panics) the component and all its dependents
\* will not be registered" (use_late_init.go:40): a component never keeps one that has
\* failed after it was obtained, through any number of dependents and in cycles.
LateInitErrorsReachDependents ==
    \A d \in Comp : Usable(d) => \A m \in obtained[d] : ~providedErr[m]

\* The same as far as it holds: of dependents without late inits of their own.
LateInitErrorsSpread ==
    \A d \in Comp : Usable(d) /\ lateInitsAdded[d] = 0 => \A m \in obtained[d] : ~providedErr[m]

\* What a Runner builds its order of starts from: a component depends on those it has
\* obtained that have hooks, and on none that it asked for in vain ("the connection in
\* the graph will not be established", provide.go:54); it is registered with hooks
\* exactly if it has some, or such a dependency, also in cycles made by late inits.
RegistrationExact ==
    DOMAIN pending = {} => \A d \in Comp : Usable(d) =>
        /\ {m \in obtained[d] : regState[m] = "withLcHooks"} \subseteq nodeDependsOn[d]
        /\ nodeDependsOn[d] \subseteq obtained[d]
        /\ regState[d] = "withLcHooks" <=>
              nodeHasHooks[d] \/ \E m \in nodeDependsOn[d] : regState[m] = "withLcHooks"

\* A getter called outside of providers returns only when all late inits of its component
\* are over ("before `getComponent` returns", use_late_init.go:14).
AnswersAreComplete ==
    \A g \in Caller : caller[g] = "returned" /\ asks[g] \notin cycled =>
        queuedLateInitsCount[asks[g]] = 0 /\ OnStack(asks[g], "lateInit") = {}

\* Nobody gets what is half initialised: neither from the getter, nor by the shortcut of
\* isRegistered (registry.go:115). A component is registered, without an error, only when
\* what it has obtained, directly or through others that did not fail, has no provider or
\* late init left, in cycles too.
NothingHalfInitialised ==
    /\ \A d \in Comp : IsRegistered(d) /\ ~providedErr[d] /\ cycled = {} /\ revived = {} =>
        \A m \in Reached({d}, [k \in Comp |-> IF providedErr[k] THEN {} ELSE obtained[k]]) :
            queuedLateInitsCount[m] = 0 /\ OnStack(m, "provider") = {} /\ OnStack(m, "lateInit") = {}
    /\ AnswersAreComplete

\* A registered component keeps its registration, that is its state, its own hooks and
\* what it depends on, whatever calls, late inits and errors come later ("node is already
\* registered", node.go:195); not so if it was asked for while it was being provided.
RegisteredOnce ==
    [][\A n \in Comp \ cycled :
          IsRegistered(n) => UNCHANGED <<regState[n], nodeDependsOn[n], nodeHasHooks[n]>>]_vars
=============================================================================
