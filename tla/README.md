# Verification of `depo`

`depo` builds a graph of components from `Provide` functions and runs the
lifecycle hooks of these components with a `Runner`: they are started from leaves
to roots of the dependency graph, waited for, and closed from roots to leaves.
This directory holds TLA+ modules of the code, TLC configurations that check them
on small instances, and TLAPS proofs for every instance. Paths are those of the
repository; line numbers refer to the commit the modules were written from.

1. [The system](#1-the-system)
2. [The modules](#2-the-modules)
3. [What the runs check](#3-what-the-runs-check)
4. [Fairness](#4-fairness)
5. [What is proved](#5-what-is-proved)
6. [Where code and documentation disagree](#6-where-code-and-documentation-disagree)
7. [What is not modelled, and the plan](#7-what-is-not-modelled-and-the-plan)
8. [How to run it](#8-how-to-run-it)

## 1. The system

| component | files | state | operations |
|---|---|---|---|
| registry | `registry.go`, `provide.go`, `use_late_init.go`, `use_ptr_late_init.go` | `emptyStackSignal` (one chain of provide calls at a time) | `OnGetComponent` (nested), `executeLateInits` |
| component nodes | `node.go`, `provide_errors.go` | memoised value and error, providing state, registration state, hooks, dependencies | `StartProviding` (once; finds cycles), `SetRegResult` |
| frames and late inits | `node_frames.go`, `node_frames_stack.go`, `late_init_frames_queue.go`, `node_frame.go` | a stack of provider and late init frames, a queue of late inits, statistics of both per node | push a provider frame, push a late init, pop |
| pending nodes | `pending_nodes.go` | what is known of nodes that are not registered yet: dependencies, dependents, how many of them it waits for | `Add`, `OnLastNodeFramePoppedWithNoErr`, `OnDepFrameErr`, `OnDepLateInitFrameErr` |
| graph of hooks | `lc_nodes.go` | marks, the stack of the search, lcNodes | one depth-first search |
| hook builder | `use_lifecycle.go`, `lifecycle_options.go` | a role each for Runnable, ReadinessRunnable, Starter, Closer; options | `Add…` (may panic), `getHook` |
| construction | `runner.go` (`newRunnerImpl`) | none of its own | `NewRunner`: provide the root, search |
| runner | `runner.go` | `isRunning`, the graph | `Run`, with a context or without |
| session | `runner_session.go`, `lc_node.go` | three phases per hook, counters, three channels | `Run` and the handlers of results |
| adapters | `lifecycle_types_adapters.go` | `isRunning`, the result channel, the run context | `Start`, `wait`, `close` made out of `Run` |
| shutdown context | `pkg/contexts/shutdown_context.go` | a signal channel, a context | create, signal, cancel |

How they interact. A chain of `Provide` calls runs in one goroutine under the
root chain lock and leaves component nodes; user code in a provider describes hooks
with hook builders, which are read when the component's last frame is over. `NewRunner`
provides the root component and calls `newLcNodesGraph`, which reduces the component
graph to the graph of those components that have lifecycle hooks, while other goroutines
may go on providing. `Run` makes a *session* for that graph, and a shutdown context if
it is given none, which a signal ends. The session's single goroutine selects on three unbuffered channels
and the run context; it starts, waits for and closes each hook in a goroutine of
its own, which reports through one of the channels. Components that have one
`Run` method rather than `Start` and `Close` go through an adapter, which is
stored in the hook and therefore shared by all Runners whose graph reaches it.

What is hard here, and what correctness means:

- *Session.* Results arrive in any order, and the handlers call each other
  recursively through the graph. Cancellation, a start timeout and a failing hook
  may come at any moment of the start or of the shutdown. The session ends when
  two counters reach zero, which every path that skips a phase must count down
  exactly once. Correct: order of starts and closes, nothing left open, no
  goroutine left, a result that tells the cause, readiness reported only when
  true, and an end.
- *Runner.* Concurrent and repeated calls. Correct: sessions do not overlap, a
  call is refused for a reason, every call is answered.
- *Shutdown context.* A signal, the parent's end and any number of calls of `cancel` race; a
  channel is closed to which the runtime sends. Correct: no panic, a complete cancel
  whoever was first, a true cause, and no subscription or goroutine left when `Run` has
  returned, refused or not.
- *Hook builder.* A long sequence of calls, some of which panic and are recovered from. Correct: the
  hook plays the roles of the calls that took one, and options reach the session.
- *Construction.* The search reads components without the registry's lock. Correct:
  it reads nothing that still changes, and the Runner has the hooks of what user code
  has obtained.
- *Adapters.* Fields that are read when a receive begins and replaced by the next
  `Start`, one result that two places receive. Correct: one `Run` at a time, a
  session waits for its own run and does not outlast it.
- *Graph of hooks.* Late inits make component graphs cyclic. The search decides
  which cycles are harmless, and creates nodes ahead of their turn. Correct: exact
  dependencies, every hook in the graph once, no cycle left.
- *Registry, component nodes, frames, pending nodes.* Goroutines take turns; in
  one chain, user code asks for components in cycles, fails or panics in nested
  providers and in late inits, which ask for further components. A component is
  registered when its own frames and all it depends on are over, which counters
  in records of other components have to tell. Correct: one chain at a time,
  every component registered once and with exactly the dependencies it uses, late
  init errors reach everyone who has obtained the failed component, and no answer
  before the late inits are over.

`PROJECT.json` lists these hazards with their lines and the properties that
cover them.

## 2. The modules

| module | models | extends |
|---|---|---|
| `RunnerSession` | `runner_session.go`, `lc_node.go`: one session | |
| `Lifecycle` | the abstract promise: phases of hooks, and when a Runner may move them | |
| `RunnerSessionLifecycle` | the refinement mapping from the session to `Lifecycle` | `RunnerSession` |
| `Runner` | `runner.go`: several calls of `Run` of one Runner | `RunnerSession` |
| `ShutdownContext` | `pkg/contexts/shutdown_context.go`: contexts, their listeners and users | |
| `RunnerShutdown` | `runner.go`: `Run` as a whole, with the contexts it makes | `Runner`; an instance of `ShutdownContext` |
| `HookBuilder` | `use_lifecycle.go`, `lifecycle_options.go`: one builder, and what a session reads of its hook | |
| `PhasedRunnable` | `lifecycle_types_adapters.go`: one adapter and the sessions that call it | |
| `LcNodesGraph` | `lc_nodes.go`: the depth-first search | |
| `ComponentNode` | `node.go`: the memory of a component | |
| `NodeFrames` | `node_frames.go`, `node_frames_stack.go`, `late_init_frames_queue.go` | `ComponentNode` |
| `PendingNodes` | `pending_nodes.go` | `ComponentNode` |
| `Registry` | `registry.go`, and `StartProviding` of `node.go`: goroutines, user code, chains | `NodeFrames`, `PendingNodes` |
| `NewRunner` | `runner.go`: `newRunnerImpl` | `Registry`; an instance of `LcNodesGraph` |
| `MC…` | values of the constants for TLC | their module |
| `…Proofs` | theorems | their module, `TLAPS` |

An operator named `X_Mutant` is a faulty variant of `X`: replacing `X` by it must
make a property fail. Nothing uses these operators.

### RunnerSession

The variables are the fields of the code: `start`, `wait` and `close` hold the
two booleans per phase of `lcNodeRunState` (`none`, `active`, `skipped`,
`completed`), `closedDependencies`, `doneDependents` and `readyDeps` its counters,
`remainingWaits`, `remainingCloses` and `remainingReadySignals` are
the session's totals. `startCall`, `waitCall` and `closeCall` record the calls
into the user's hooks, and `startResults`, `waitResults`, `closeResults` the
goroutines blocked in a send.

The handlers recurse: closing a node closes its dependencies, a failed start
shuts down, a shutdown closes the roots. The model keeps the call stack in
`agenda`, whose head is the next call. It relies on a convention of the code that
can be checked by reading each `return`: a handler returns `done` as the value of
`isAllDone()`, a caller passes `done = true` on to `Run` at once, and ignores
`done = false`. So a call either lets the rest of the agenda go on or ends the
session, and no return values have to be stored. Loops over sets of nodes pick
the nodes in any order, as the code iterates over slices whose order depends on
map iteration further up.

Every step of `agenda` is one atomic action, though the session's goroutine is the
only one to touch the state; results and the cancellation may arrive between two
of them, which is what the unbuffered channels and `ctx.Done()` permit.

`Kinds` are what `UseLifecycle` can register (`use_lifecycle.go`). A
`Runnable` starts within the call (its adapter begins a goroutine and
returns), a `ReadinessRunnable` in a goroutine. `SharedHook` is the set of
Runnables which another Runner may be running, so that their start is refused.

### Lifecycle

Five phases per hook and four states of the Runner, without channels, counters,
contexts or roles. It says: no hook starts before its dependencies are
ready, nor once the Runner is stopping; a hook with a `Run` is closed only after
everything that depends on it; hooks end by themselves only if their start
failed or their Run returned; the Runner returns only when all hooks are down.
`RunnerSessionLifecycle` maps each node's three phases to one. `Lifecycle` has no
constants: its hooks are the domain of its graph.

### Runner

Adds `isRunning` and the callers. A new call resets what `newRunnerSession`
creates, and leaves the nodes' phases, which belong to the graph, as they are.

### ShutdownContext and RunnerShutdown

`at` is where a thread is in `cancel`: called, after one of the three `Steps` that the first
caller makes within `sync.Once`, or returned. Threads are the users and the listener, which calls `cancel`
itself once it has received something; it may receive nothing of a signal that
came while its channel, of capacity 2, was full. `panicked` records a second close of a
channel, or a send to a closed one. `RunnerShutdown` composes the contexts with the guard and the session:
a call of `Run` without context makes the context named like the caller, the session's `ctxDone` is
set when that context ends, and the deferred `cancel` is a call of that user.

### HookBuilder

`impl` and `cfg` are the builder's fields by role, a call being represented by its number.
`Add`, `AddPanicsHalfway` and `AddPanics` are the outcomes of each method with a value, `AddNilPanics` that
without. Half-way is after the role is taken (`use_lifecycle.go:113`) and while the options are applied (`:114`), one of
which is nil: the role stays taken, without options. User code may recover from a panic and go on, before `getHook` and after it. `StartIsTimed`
and `NilResultIsError` are what `RunnerSession` takes as the constants `TimedStart` and
`NilResultAsError`. The hooks that can be built are its `Kinds`.

### PhasedRunnable

Runs are numbered in the order in which they begin; `current` is the run to which
the adapter's fields refer. A receive from `runResult` is two steps, as in Go:
the channel is evaluated (`source`), then something is received from that very
channel. An interrupted start cancels its run in a step before these (`StartReceivesCtxDone`, then
`AwaitInterrupted`). Sessions are clients that follow the session's discipline: `Start`, then
`wait`, and `close` any time before the wait's result is received.

### LcNodesGraph

`visiting` is the stack of the search, with the dependencies each visit still has
to make. All hooks of one component get lcNodes together and with equal
dependencies; the model keeps one for them. The number in an lcNode tells the
first creation of a component's lcNodes from a later one. `Found` defines by reachability alone
what the result should be, and is used by properties only.

### ComponentNode, NodeFrames, PendingNodes, Registry

The variables are the fields of the code, of all components: `providingState`,
`regState`, `nodeDependsOn`, `nodeHasHooks` of `componentNode` (an error is its
presence, `providedErr`); `stack`, `items` and `frontIndex`, `totalFramesCount` and
`queuedLateInitsCount` of `nodeFrames`; `pending`, a function from the components that
have a record to their records; `signal`, whether the channel of the registry holds its
value. A count that the code deletes from its map is zero.

`Call` and `EnterChain` are `OnGetComponent` up to `StartProviding`, which is an action
of its own on the frame just pushed (`called`). `ProviderReturns`,
`ProviderPanics` and the two other cases of `StartProviding` end in the deferred
function (`ProviderFrameEnds`), `LateInitReturns` in that of `executeQueuedLateInit`.
`remove` calls itself for dependents in the order of a map. `removing` is its call
stack, sets of calls still to make; each `RemovePending` is one call up to its own
recursion. While it is not empty, nothing else in the chain moves. `CountLoop` is the recursive walk
that counts what a component waits for, as the set of its possible outcomes: it takes
dependencies in the order of a map and is cut short. `Reached` stands for walks whose order does
not matter, as the least set of components that is closed under a relation.

User code is given by constants: which components a provider or a late init may ask for,
how many late inits a component may add, whether it may add a hook, and how
it may fail. It does each of these at most once, in any order, or not at all, and may
ignore an error that it gets. A panic that passes through several providers is a
failed getter in each of them, whose user code then panics or not.

`NewRunner` has one goroutine of `Registry` ask for the root, and then takes the steps of
`LcNodesGraph` on what is registered, interleaved with the chains of other goroutines. What the getter of the root
returns is read (`node.go:135`) after the signal was given back (`registry.go:177`): a step of its own.

Three history variables serve properties only. `obtained` are the components that user
code of a component has got without an error. `cycled` are those that were asked for
while they were being provided: their records are removed while their provider still
runs, and most promises fail for them. `revived` are those that were asked for when they had been
*left behind* (`LeftBehind`): their counts make them wait, though nothing that they depend on
is unfinished. That they exist is the finding of section 6; being asked for, they are counted anew, and removed
under dependents that have not counted them.

## 3. What the runs check

Passing runs.

| run | instance | question |
|---|---|---|
| `session_all_graphs` | every acyclic graph of 0–3 hooks (up to renaming), all 5 kinds; hook 2 has a start timeout, hook 3 treats a nil result as error | the safety of one session, and that it implements `Lifecycle` |
| `session_shared_hooks` | the same graphs, kinds StarterCloser, Closer, Runnable; every Runnable may be refused; hook 2 has a start timeout | starts that fail in the middle of a loop: what is left open, the order of starts, the report of readiness |
| `session_terminates` | the same graphs, kinds StarterCloser, Closer, ReadinessRunnable, and the five-hook graph of `TestRunner_RunPartialPhases`; with fairness | the session ends; a longer chain with missing phases |
| `runner_calls` | graphs of 0–1 hooks, 3 callers, one of them without a context; one signal; with fairness | one session at a time, refusals, a signal ends a run, a run ends its context |
| `shutdown_context` | one context with a parent, 2 users that cancel it, 2 signals, each at any time and as often as it likes; with fairness | no panic, complete cancels, true causes, no leak |
| `hook_builder` | up to 3 calls that take a role, panicking half-way or not, and any number that panic at once, with up to 2 options each; timeouts −1, 0 and 1 | what hook sessions get |
| `adapter_sequential` | 3 sessions one after another, a ReadinessRunnable never returns nil; with fairness | waits and interrupted starts end |
| `adapter_overlap` | 2 overlapping sessions, 2 runs, any results | one Run at a time, sessions do not outlast runs, a successful start was ready |
| `lcgraph_all_graphs` | every graph of a root and 3 components, with cycles and self-dependencies; every acyclic graph of a root and 4; every set of hooked ones | how exact dependencies are, with cycles and without; refusals |
| `registry_chains` | 4 components, 2 goroutines; providers that call along a chain, which the third closes to a cycle; late inits that call all earlier components, one late init in three of the four; a hook in one; every failure | chains, frames, registration, late init errors |
| `new_runner` | a root and 3 components below it, two of them with a late init each; 2 goroutines, one of which calls `NewRunner`; hooks anywhere; every failure | a Runner has the hooks of what was used, in that order, and reads what is settled |

The properties of the session, in words:

- `CountersExact`: the counters that end `Run` are the numbers of nodes whose wait
  and close phases are open. `DoneDependentsExact`: a node counts each of
  its ended dependents once.
- `NoGoroutineLeft`, `NothingLeftOpen`: when `Run` has returned, no goroutine is in
  a hook or blocked in a send, every started Closer was closed, and every started
  Run returned.
- `ClosedOnlyIfStarted`: `Close` follows a successful `Start`.
- `ResultTellsTheEnd`: `Run` returns nil, the context's error or a hook's error for
  a corresponding reason.
- `NeverStalls`: the select never waits for a result that nobody is going to send, and
  if no start is under way, readiness was reported or a shutdown has begun.
- `StartsOnOpenDependencies`, `ReadyWhenAllAreUp`: starts are made on dependencies that are
  ready and not told to close; the ready callback runs once, when every hook is up.
- `ImplementsLifecycle`: the abstract order of starts and closes, which covers what
  `RunsEndAfterDependents` and `NothingStartsInShutdown` (section 6) say of them.
- `Terminates`: once the context is cancelled or a shutdown has begun, `Run`
  returns.

Of the Runner and its contexts:

- `OneSessionAtATime`, `RefusedOnlyWhileRunning`: the guard lets one call in, and refuses
  another only meanwhile.
- `SignalEndsRun`, `RunEndsItsContext`: without a context, a signal that was caught ends the first
  session, and a call of `Run`, refused ones too, leaves no subscription and no goroutine.
- `NeverPanics`, `CancelIsOverOnReturn`, `CauseTellsWhy`, `EndsForGood`: of a shutdown
  context, whatever races. No channel is closed twice or sent to when closed; who sees `cancel` return may
  rely on its whole effect; `context.Cause` names something that happened, and
  never nothing; and an end is complete.

Of hooks, adapters and graphs:

- `HookPlaysWhatWasAdded`: no role that a call took is lost or overwritten, and none is refused
  without another that excludes it. `OptionsReachTheSession`: the last option given wins,
  the component's timeout over the Runner's.
- `OneRunAtATime`, `RunEndsWithSession`, `ReadyIfStarted`, `WaitsForAResultToCome`,
  `InterruptedStartEnds`: `Run` is never entered twice at a time, no session is over before its own run is, a
  successful start means a run that was ready or is over without an error, a wait
  waits for a result that will be sent, and an interrupted start returns.
- `ExactDependencies` (exactly the nearest hooks below, unless a component without hooks on the way to
  them is in a cycle; and even then no dependency is invented), `EveryHookIsIn`, `NoHookTwice`, `RefusedOnlyIfHooksInCycle`: the hook graph against
  reachability.
- `RunnerFollowsUse`: a Runner has the hooks of the components that user code has obtained from
  the root on, and without cycles each waits for the nearest ones it uses.
  `SearchReadsSettled`: what the search reads is registered and does not change.

And of the registry:

- `OneChainAtATime`: the signal is there exactly if nobody is in a chain, and then no
  frame, late init or removal is left.
- `StatsExact`: the counts per component are those of the stack and of the queue.
- `RegisteredWithOneLateInit`: no component is left unregistered when a chain ends, if at
  most one component has late inits.
- `NothingHalfInitialised`: none is registered too early, while something it has obtained,
  directly or through others, still has a provider or a late init to run; and who asks from
  outside is answered when the late inits of the component are over.
- `RegistrationExact`: a component is registered with those components that it has
  obtained and that have hooks, and as having hooks exactly if something below it has.
  `RegisteredOnce`: and keeps that registration, its own hooks included.
- `LateInitErrorsSpread`: it never keeps a component that has failed later on, unless it has
  late inits of its own.

The last four, except for `AnswersAreComplete` (the end of `NothingHalfInitialised`), are about what happens as
long as no component was asked for while it was being provided (`cycled`); and all but `RegisteredOnce`, as long as none was asked for after
it had been left behind (`revived`). Section 6 shows what happens otherwise.

Why the bounds suffice. A handler looks at a node, its direct dependencies and its
direct dependents; three nodes have a chain of three, a diamond's two halves (two
dependents of one node, two dependencies of one node), and unconnected nodes,
with every kind at every place. Five nodes add a chain along which every
phase is skipped somewhere. For the adapter, the fields are replaced by the *next*
run: two overlapping runs show the replacement, and three in sequence a third
after a second. `ReadyIfStarted` and the others are proved for any number. `MaxRuns` bounds runs; a session begins at most one, so with
`MaxRuns` = number of sessions it cuts nothing off. For the graph, four
components below a root hold two cycles through one component, a cycle within
a cycle and a diamond in acyclic graphs; with cycles, three components show
every finding of section 6. All inputs there are enumerated, none is chosen by hand.

For the registry, four components make a chain of dependents with cycles inside of it and
components outside of them, and let a component be counted by one that waits and
start to wait itself afterwards (`CountsAreConsistent`, section 6); two
goroutines are enough for one to wait while the other is in a chain and to come after it.
What user code does is chosen step by step, so that the calls given by the constants
bound it from above. A deadlock would be a goroutine that is never answered; there is none,
and every behaviour is finite. The invariants were also checked with three components
whose late inits may call any component, with two late inits per component, and with four
components and a goroutine, `ProviderCalls` a complete acyclic graph and late init errors only; these instances
take long or add no new kind of state and are not kept. The type invariants of `LcNodesGraph`,
`Registry` and `PhasedRunnable` (`GraphTypeOK`, `RegistryTypeOK`, `TypeOK`) hold in the configurations of
their runs, and are not repeated there.

For the shutdown context, the steps of `cancel` concern one context only: contexts share nothing but the
signals, which every subscribed channel gets. Two users and the listener show a first caller, one that
waits for it, and one that comes later; two signals fill the channel. Of the hook builder's calls no more
than two can take a role, a Starter's and a Closer's, so that a bound of three cuts nothing off;
two options show that the last one wins. For `RunnerShutdown`, what matters of the
session is that it starts, sees its context and ends; one hook of each kind does that, and
three callers give one that runs, one that is refused, and one that comes again. For `NewRunner`, the
graph below the root has a diamond and, through late inits, cycles of two and three.

`CHECK_DEADLOCK FALSE` is stated where the system stops: a second session of a
Runner gets stuck (`runner_calls`), and the wait of an adapter may
block for ever (`adapter_overlap`). Elsewhere a state without successor would be
reported; a session that has returned stutters (`Finished`), as does a registry
whose goroutines are all answered (`AllAnswered`).

## 4. Fairness

`RunnerSession!Fairness` is weak fairness of the session's goroutine as a whole, which
the Go scheduler gives any goroutine that can run, and of the hooks no more than
their contracts in `lifecycle_types.go` ask: `Start` and `Run` return once their
context is cancelled, `Close` returns. A `Start` need never return while its context is
active, a Run need never return unless closed, a timeout need never fire and nobody need ever
cancel the context. No fairness is assumed *between* the cases of the select:
a select that prefers results for ever is excluded by their finite number, not by an assumption.

In `PhasedRunnable`, each session's goroutine and each run's goroutine is scheduled
(`StoreNotRunning` follows the send), and the user's `Run` returns once its context
is cancelled. `RunnerFairness` repeats the session's, for a caller's `Run` too.

In `ShutdownContext`, the listener and everybody in `cancel` go on, and the end of a parent reaches
its children, which package `context` sees to; no signal need come, nobody need
call `cancel`. `Due` in `RunnerShutdown` joins these with the session's: some goroutine that can go
on does. Weak fairness of the disjunction suffices, since every goroutine makes finitely many
steps; it never lets the hooks do more than their contracts ask.

## 5. What is proved

The theorems hold for every value of the constants that satisfies the modules'
assumptions: any finite number of hooks, any graph without a hook that depends on itself
(`GraphsAssumption`; cycles of two or more are *not* excluded), any number of
callers, sessions, runs, components, contexts, signals and options. Those of
`RunnerSessionLifecycleProofs` assume that no other Runner runs the hooks, `SharedHook = {}`; `ReadinessIsTrue` assumes, too, that a
graph with hooks has a leaf (`HasALeaf`), without which readiness is reported at once (`NoCycleOfHooks` in
section 6). `SessionNeverStalls` assumes graphs without cycles, which `lc_nodes.go` means to refuse: a session of
hooks that wait for each other does stall. `ResultsAreLeftToWaitFor` assumes what the run that checks its property
does, sessions that do not overlap and a ReadinessRunnable that does not return nil; section 6 shows that both are needed.

| theorem | property | module |
|---|---|---|
| `TypeInvariant` | `TypeOK` | `RunnerSessionProofs` |
| `CountersCorrect` | `CountersExact` | `RunnerSessionProofs` |
| `NoGoroutineLeak` | `NoGoroutineLeft` | `RunnerSessionProofs` |
| `DependentsCounted` | `DoneDependentsExact` | `RunnerSessionProofs` |
| `ClosedWereStarted` | `ClosedOnlyIfStarted` | `RunnerSessionProofs` |
| `NothingIsLeftOpen` | `NothingLeftOpen` | `RunnerSessionProofs` |
| `ResultIsTrue` | `ResultTellsTheEnd` | `RunnerSessionProofs` |
| `SessionImplementsLifecycle` | `ImplementsLifecycle` | `RunnerSessionLifecycleProofs` |
| `StartsAreOnOpenDependencies` | `StartsOnOpenDependencies` | `RunnerSessionLifecycleProofs` |
| `ReadinessIsTrue` | `ReadyWhenAllAreUp` | `RunnerSessionLifecycleProofs` |
| `SessionNeverStalls` | `NeverStalls` | `RunnerSessionLifecycleProofs` |
| `RunsOneAtATime` | `OneRunAtATime` | `PhasedRunnableProofs` |
| `SessionsOutlastRuns` | `RunEndsWithSession` | `PhasedRunnableProofs` |
| `StartReportsReadiness` | `ReadyIfStarted` | `PhasedRunnableProofs` |
| `ResultsAreLeftToWaitFor` | `WaitsForAResultToCome` | `PhasedRunnableProofs` |
| `SessionsDoNotOverlap` | `OneSessionAtATime` | `RunnerProofs` |
| `RefusedOnlyInSession` | `RefusedOnlyWhileRunning` | `RunnerProofs` |
| `NoPanic` | `NeverPanics` | `ShutdownContextProofs` |
| `CancelIsComplete` | `CancelIsOverOnReturn` | `ShutdownContextProofs` |
| `CauseIsTrue` | `CauseTellsWhy` | `ShutdownContextProofs` |
| `AcceptedRolesArePlayed` | `HookPlaysWhatWasAdded` | `HookBuilderProofs` |
| `OptionsAreHonoured` | `OptionsReachTheSession` | `HookBuilderProofs` |
| `HooksAreInOnce` | `NoHookTwice` | `LcNodesGraphProofs` |
| `NonePreCreatedIsLeft` | `PreCreatedArePickedUp` | `LcNodesGraphProofs` |
| `EveryHookIsFound` | `EveryHookIsIn` | `LcNodesGraphProofs` |
| `OnlyHooksInCyclesAreRefused` | `RefusedOnlyIfHooksInCycle` | `LcNodesGraphProofs` |
| `DependenciesAreExact` | `ExactDependencies` | `LcNodesGraphProofs` |
| `ChainsDoNotOverlap` | `OneChainAtATime` | `RegistryProofs` |
| `StatsAreExact` | `StatsExact` | `RegistryProofs` |
| `NothingIsHalfInitialised` | `NothingHalfInitialised` | `RegistryProofs` |
| `ComponentsAreRegisteredExactly` | `RegistrationExact` | `RegistryProofs` |
| `LateInitErrorsReachThoseWithout` | `LateInitErrorsSpread` | `RegistryProofs` |
| `RegistrationIsKept` | `RegisteredOnce` | `RegistryProofs` |
| `OneLateInitLeavesNone` | `RegisteredWithOneLateInit`, where `cycled = {}` | `RegistryProofs` |
| `GettersReturnComplete` | `AnswersAreComplete`, part of `NothingHalfInitialised` | `RegistryProofs` |

**Counters of the session.** `CountersExact` is not inductive: that a handler
subtracts one is right only if the phase it ends was open, and which phases are
open when a call is made depends on who left it on the agenda. The invariant
`IInv` adds to `TypeOK`:

- the agenda is a sequence of `OkCalls`, calls whose targets are hooks of the
  graph in the form a handler writes them;
- `StartFirst`: a node whose start is open has open wait and close phases, which
  makes `HandleNodeStartError` and the skip in `TryCloseNode` subtract once;
- `GoroutinesHavePhases`: a goroutine in a hook, or blocked in a send, belongs to
  an active phase, so a received result ends an open phase;
- `Quiet`: before the session begins, nothing is under way.

Counting is done with two lemmas on cardinalities (a set loses one element; a set
does not change). `NoGoroutineLeak` follows: `Run` returns when both counters are
zero; then all phases are done, and by `GoroutinesHavePhases` nobody is left.

**What a step does to a node.** Every step of the session moves one node at most, in one of nine
ways (`NodeStep`, `Moves`: it starts, gets ready, fails to start, and so on). This is shown once, handler by
handler; what follows about nodes is shown of the moves and not of the handlers. A node that
comes to its end is one element more of the set that each of its dependencies counts, which gives
`DependentsCounted`. `CallsFitPhases` says what the calls into a hook and its three
phases tell of each other; `ClosedWereStarted` is part of it, and `NothingIsLeftOpen`
follows as in `NoGoroutineLeak`, all phases being done.

**The result.** `RInv`: a shutdown has its error from the call on the agenda that begins it,
of which there is one at most and which is at its head (`OneShutDown`); the error has a
reason (`CauseHasReason`); and a hook's failure is followed by a shutdown with an error,
unless the failure is a result still to be received (`FailuresAreNoticed`). The
last of these is why a nil result means that no hook failed, although a shutdown keeps the first error only.

**The refinement.** `Lifecycle` starts hooks before the shutdown and closes them in it, while the
session has starts, waits and closes on one agenda, on which a shutdown may be put at
any time. Three invariants separate them. `SInv`: no start is left on the agenda and no node's wait is still to
begin when a shutdown begins, up to the rest of the loop over dependents that is over by then
(`StartsAreWaitedFor`); before it, nothing is closed; and a shutdown without an error comes only
when all waits are over. `ReadyCounted`: a node counts no ready dependency twice, be it on the agenda or counted
already, so that a node which may start has all of them ready, by a comparison of cardinalities.
`DoneDependentsExact`, finally, orders the closes. `Timely` states what these
say about the moves of a step, and `StepImplements` maps each move to a step of `Lifecycle`, or to none.
Readiness needs one fact more, `SignalsCounted`: no more nodes are left to start than there are signals to
come, so that the last signal finds all of them started; `RInv` says that none of these starts failed,
and `SInv` that nothing has been closed.
With a hook that another Runner runs, `SInv` is false: a refused start shuts down within the
loop that goes on to start others (section 6).

**The session never stalls.** The loop could wait for nothing if a call were missing that it needs. `NInv` says
that none is: the call that returns is ahead when all is done (`ReturnsWhenDone`), the shutdown when the last
wait is over (`LastWaitShutsDown`), the starts of the leaves (`LeavesAhead`), and the report of readiness
comes with the last signal (`SignalsExact`). Before the shutdown, a hook that has not
started lacks a ready dependency, or a loop over dependents is still to reach it (`NoneForgotten`); in the shutdown, the
closes have reached every hook on which nothing depends, and what a hook that is done depends on (`ClosesReach`). In a graph
without cycles, one of the hooks that have not started has all dependencies ready, and one of those that are
not done has no dependent that is not; so one of them goes on.

**Adapter.** `OneAlive` (if `isRunning` is false, no run is between `running` and
`sent`, and otherwise only the current one may be) gives `OneRunAtATime`. `Numbered` says runs begin in
order. For `RunEndsWithSession`, `ResultsAfterReturn` and `SourcesBegun` tie what a
session receives to a run that has returned, and the current run to the only one alive.
`ReadyIfStarted` follows from these: a successful start has received the signal of its
own run, or a result, and results come after the return. `ResultsAreLeftToWaitFor` is about sessions that
follow each other: one session is at work (`Alone`), so the fields belong to its own run, which goes on or has a
result that only this session takes (`ResultToCome`); a start takes one only if it fails
with it, since a ReadinessRunnable does not end with nil.

**Runner.** `FlagTellsSession` (`isRunning` exactly while a caller is in its
session) and `OneSessionAtATime` are inductive together.

**Shutdown context.** At most one thread is within `once.Do`, and the flag of the `sync.Once` tells whether
(`Exclusive`); how far it is tells what has been undone (`Progress`): the subscription ends before
the channel is closed. Reasons are kept per thread: the listener finds the channel closed only when
`once` is done, so that its `context.Canceled` is never the cause (`Reasons`, `CauseHasReason`).

**Hook builder.** Until `getHook`, each role holds the call that took it (`Held`), and
no two roles that exclude each other are taken (`Exclusive`); so the switch of `getHook`
finds one case. The configuration of a role is a fold over the options of its call: it holds what the last option of
each kind gave, which is shown by induction over the fold (`NewCfgFolds`, `LastWins`), and `CfgHeld` keeps it
to the end. A call that panics half-way leaves the zero configuration, because a role that is free has no other
(`FreeHasNoOptions`).

**Graph.** An lcNode created early belongs to a component that is being visited
(`EarlyAreVisiting`), which is on the stack once (`VisitedOnce`) and has no final mark
(`MarkedAreNotVisiting`); every sorted lcNode's owner has one (`SortedAreMarked`). So the visit that
adds a component's lcNode is the first to do so, and when the stack is empty, no
early one is left.

`Search` relates the marks to reachability: the stack is a path from the root (`StackIsAPath`), what a finished component
depends on is finished or on the stack (`MarksAreClosed`), and the marked are below the root. At the end the stack
is empty, so the marked components are closed below and contain the root: every component
below it (`EveryHookIsFound`). Reachability is stated as the least set that is closed below, so that no induction
over paths is needed. A component that is found again on the stack is in a cycle with what is above it, which
gives `OnlyHooksInCyclesAreRefused`. `OnlyBelow`: what a visit has collected are lcNodes of nearest
hooks, in cycles too. `LocallyExact` says when it has collected all of them: no component is finished before those
below it, unless a cycle leads from one of these back to the stack. A component without hooks that is in no cycle
is not led back to; of hooks, two in one cycle are refused, so that the hooks which a hook on the stack depends on are
finished or above it (`HooksAreVisited`). What remains are components without hooks that are in a cycle, and
these `ExactDependencies` excepts: the visit of one may be over when another of its cycle has not collected all
(`TransitiveDepsComplete`, section 6). Elsewhere a cycle does no harm: above the hook,
below the nearest ones, or where a hook depends on itself.

**Registry.** `OneChainAtATime` lacks one fact to be inductive: a getter that is about
to return has a frame below it to return to. With it, every step of user code and of
the end of frames needs a frame, a removal or a queued late init, hence a chain, and
leaves the signal and the goroutines alone (`ChainStep`); only the goroutine that took the signal
can give it back, when all of these are gone. Nothing has to be known of what
frames, records or registrations contain.

The count of frames. The queue of late inits is a slice with the index of its front, and `FInv` counts
where the operations change it: the places after the front, and the frames of the stack (`Counted`).
Pushes and pops add or take one place. That `DeleteNodeFrames` takes out as many frames as the
count of the component says, and no frame of another, is an induction over its loop
(`RestInit`, `RestNext`, `DeletesExactly`).

What is registered. By `StatsExact`, a component whose count is zero has nothing left to run; if
its provider has run, it has *ended* (`Over`). `RInv` says where this must be so: a component that is registered, that
waits for other components, that failed, or whose removal is on the call stack `removing`
has ended; one that has frames has a record; and the frames on the stack fit the state of
the provider (`FramesFit`: one provider frame while it is in progress, late inits only afterwards). A
step concerns one component, except a removal, which reaches dependents that have ended
(`OneComponent`, `RemovePendingOK`); and what has ended stays so (`Kept`). Then `remove` finds no record of a
registered component, which gives `RegistrationIsKept`. For `GettersReturnComplete`, a goroutine in a chain asks for a
component that has a frame or has ended (`AskedEnd`). All of this is for components that are not asked for while they are
being provided (`cycled`); section 6 says what happens to those.

The walk that counts. `CountLoop` is a set of outcomes defined by its own equation. The equation is monotone in
these sets, so it has a solution (`CountLoopUnfolds`), and by induction over what is still to visit, a
walk that has counted nothing has visited finished components only, with all their dependencies, up to the one that it
began from (`WalksFind`). A sum of counts is no less than the number of those that are not zero. So the count of
a component covers those of its dependencies from which something unfinished can be reached
without passing through itself (`WaitsCover`). The count may be too large (section 6), never too small.

Too early, never. `SInv` holds where nothing has been asked for while it was being provided or after it had been left behind
(`Straight`). `Structure` says that dependents and dependencies mirror each other, that each frame was asked for by
the one below it (`StackFits`), that user code has obtained dependencies, or components without hooks (`ObtainedFits`),
and that the calls of `remove` still to make are of one kind (`SchedulesFit`). `Counting`
needs the notion of a *free* set: pending components that are finished, do not fail, and depend on no pending
component outside of the set (`FreeSets`). It says that a component waits for at least as many as the
dependencies it has outside of some set that is free but for itself and holds nobody about to leave
(`CountsCover`: a removal takes away one dependency and one of the count, whoever
leaves and in whatever order); that who is about to be registered is in a free set (`LeavingFits`); and that whatever a
registered component has obtained is registered, or in a free set (`RegisteredFits`). The last two are
`NothingIsHalfInitialised`. A free set stays free, because what has ended does not go on (`Calm`) -- and
here the proof failed at first: a component that has ended *may* be counted anew if it was left behind and is asked for
again, and is then removed under a dependent that has not counted it. TLC found the behaviour in an instance made for
it (section 6), so the three properties say now what they suppose.

Errors. `EInv` adds that who has obtained a failed component has failed, has late inits, or is on the agenda of `remove`
(`ErrorsFit`), and that whoever is unfinished has a frame left or is about to fail (`EndsFit`), so that none is
passed over by `remove` except for its own late inits.

Dependencies and hooks. `HInv` adds that a component that failed has left all records (`ErrorsLeave`), that a dependency is
one that was obtained, or asked for by the frame below (`DepsAreObtained`), and that whatever a registered component has obtained is a
dependency or has no hooks (`ObtainedAreKept`). A component is registered by the hooks it can reach through records
(`HasDirectOrTransitiveRunnables`), some of which are registered later: `HooksFit` says, of one with hooks, that one of its
dependencies has hooks, or is in a free set and leads to hooks (`Hooking`); of one without, that all of them are in
a free set that leads to none (`FreeOfHooks`). Both last until the set is registered.

None left behind. `Counting` bounds the counts from below; where at most one component has used late inits (`Lone`),
`OneInv` bounds them from above. A walk counts that component once, because it remembers whom it has visited, and meets no
other unfinished one (`WalksCountFew`, by an induction over the calls of the walk, `LoopInduction`). So a finished
component waits for no more than the pending dependencies it has besides itself, and whoever has late inits and is
finished is about to be removed at once (`Limits`, with `Begun`: the others are finished as soon as their providers have
returned). Finished components without late inits do not wait for each other in a cycle. Hence a set of records that
wait for each other only is empty (`NoneLeftBehind`): when a chain ends, no record remains. And since nothing is left
behind, nothing is asked for after it was, so `OneInv` needs no such condition, as the other invariants do.

**Induction over data.** The library's induction theorems take an operator as a parameter and cannot be
cited. Where a proof needs induction over numbers, it takes a set of numbers without a least element
and shows it to be empty (`Least`, `SetInduction`, from the well-foundedness of `<`): the fold over
options, the loop of `DeleteNodeFrames`, paths through the hooks of an acyclic graph.

Only model-checked:

- liveness (`Terminates`, `InterruptedStartEnds`, `SignalEndsRun`, `RunEndsItsContext`, `EndsForGood`), because it needs
  reasoning about enabledness, which is out of the prover's reach;
- `RegisteredWithOneLateInit` where something was asked for while it was being provided: it holds there too in all instances
  that were checked, but none of `SInv` does;
- `RunnerFollowsUse` and `SearchReadsSettled`, whose module has its own search over what the registry leaves;
- `StartsOnOpenDependencies` with shared hooks, where `SInv` is false and another invariant is needed.

## 6. Where code and documentation disagree

The run `registry_unregistered` checks `EveryNodeIsRegistered`, that a component is registered
once its frames and those of its dependencies are over, and ends in a counterexample: a
component waits for as many registrations as there are unfinished components
*reached* from it, but only the registration of *direct* dependencies is counted down. `a` asks
for `b` and `c`, both with late inits; that of `b` asks for `a`. Then `a` and `b` wait for
each other for ever: no hooks, and a Runner that does nothing.

There are more. The modules state the following properties too, with the line of
the repository they come from; TLC refutes each of them in the configuration named
here, if its properties are replaced by this one.

| property | configuration | what happens |
|---|---|---|
| `ClosesAfterDependents` | `session_all_graphs` | A Closer is closed as soon as *one* of its dependents is done, since `tryCloseNode` counts dependents only for nodes that are being waited for (`runner_session.go:176`); another dependent may still be closing or running. |
| `RunsEndAfterDependents` | `session_shared_hooks` | A start refused at once shuts down within the loop over dependents, while the wait of the node above which they are has not begun; `tryCloseNode` counts no dependents for it then, and cancels its Run though another dependent is starting. |
| `EveryRunReturns` | `FairRunnerSpec`, in a module that extends `Runner` and `MCRunnerSession`; graphs of 0–2 hooks, 2 callers | The phases of the nodes are never reset; a second `Run` of one Runner starts nothing and never returns. |
| `NoCycleOfHooks` | `lcgraph_all_graphs` | Only components on the stack are examined for hooks when a cycle closes; depending on the order of the visits, two hooks that depend on each other go unnoticed. With such a graph nothing is a leaf if all hooks are in the cycle, so `Run` reports readiness and returns nil at once. |
| `DefaultTimeoutOnlyIfNoneGiven` | `hook_builder` | `OptStartTimeout(0)` on a component is taken for none given: the Runner's timeout applies (`runner_session.go:430`), which `lifecycle_options.go:67` promises only for components without one. |
| `NothingStartsInShutdown` | `session_shared_hooks` | A start refused at once (`errAlreadyRunning`) shuts down within the loop over leaves (`runner_session.go:62`) or dependents (`:373`); the loop goes on to start the others. |
| `Terminates` | `session_shared_hooks` with `SPECIFICATION FairSpec` | Such a late start has a start context (`:416`) that `interruptStarts` can no longer cancel. If it waits for the context, `Run` does not return. |
| `ShutdownReportedOnce` | `session_all_graphs` | The guard of `tryShutDown` is a stored error. A shutdown because all Runs returned nil (`runner_session.go:272`) stores none, and a cancellation during it starts the shutdown again: a second `OnShutdown`, and `Run` returns the context's error. |
| `WaitsForAResultToCome` | `adapter_sequential` with `RunResults <- AnyResult` | A ReadinessRunnable returns nil before it was ready: `Start` takes the only result and returns nil (`lifecycle_types_adapters.go:102`), and `wait` blocks for ever. |
| `WaitsForItsOwnRun` | `adapter_overlap` | `wait` reads the adapter's channel (`lifecycle_types_adapters.go:113`) after another Runner's `Start` has replaced it, and waits for a run that is not its own. |
| `RefusedOnlyIfInUse` | `adapter_sequential` | `isRunning` is reset after the result was sent (`:99`): the next session is refused though the one before is over. |
| `LateInitErrorsReachDependents` | `registry_chains` | A component whose own late init is still queued is passed over when a dependency fails late (`pending_nodes.go:326`) and is registered without an error, holding the failed component; `use_late_init.go:40` promises that all dependents fail. |
| `RegisteredOnce`, `RegistrationExact` without `cycled` | `registry_chains` | A component that is asked for while it is being provided loses its record (`registry.go:167`). If it goes on without an error, which `node.go:174` allows, what it asks for later is not among its dependencies, its hooks get a zero record (`pending_nodes.go:126`), and it is registered a second time. |
| `NothingHalfInitialised`, `LateInitErrorsSpread`, `RegistrationExact` without `revived` | components d, m, x, u1, u2, v; `ProviderCalls` = {⟨d,m⟩, ⟨d,v⟩, ⟨m,x⟩, ⟨x,u1⟩, ⟨x,u2⟩}, `LateInitCalls` = {⟨v,d⟩, ⟨v,m⟩}, a late init each in u1, u2 and v, `MayHaveHook` = {v}, `Failures` = {"lateInit"}, one goroutine that asks for d | x waits for u1 and u2, m for two as well, which x reaches; when both are registered, only x is counted down and registered, and m by one: m is left behind. The late init of v asks for d, which is counted anew: it waits for v, and for nothing below m. Then it asks for m, whose new count is zero: m is removed, and counts down its dependent d (`pending_nodes.go:344`), which did not count m. So d is registered while the late init of v still runs. If that fails, d keeps v, though `use_late_init.go:40` promises that it fails too; if not, and v has a hook, d is registered as having none below it. |
| `CountsAreConsistent` | `registry_chains` | The other side of `registry_unregistered`: `b` waits for `c`, whose late init asks for `a` again; then `c` waits for two components, `b` still for one, and a walk that begins at `b` counts two. The build for tests asserts (`pending_nodes.go:244`) that no walk does. |
| `DependenciesAreInGraph` | `lcgraph_all_graphs` | A component visited a third time through a second cycle gets new lcNodes (`lc_nodes.go:90`), while dependents have taken the old ones, which are in no list and hold them back. |
| `TransitiveDepsComplete` | `lcgraph_all_graphs` | A component without hooks inside a cycle is finished (`lc_nodes.go:113`) before the component that closes the cycle: hooks found later are missing from its dependencies. |

The passing runs state how far the promises do hold. If no other Runner runs the same component,
`RunsEndAfterDependents`, the close order for hooks with a Run, and
`NothingStartsInShutdown` hold in `session_all_graphs`, and `Terminates` does;
`WaitsForAResultToCome` holds if a
ReadinessRunnable never returns nil and sessions do not overlap; the dependencies of a hook are exact
unless a component without hooks between it and the nearest ones is in a cycle, and even then none is invented and every hook is in the graph; `RegisteredWithOneLateInit`
holds if one component uses late inits; and where nothing is asked for while it is being provided, or after it was left
behind, `NothingHalfInitialised` and `RegistrationExact` hold, and `LateInitErrorsSpread` for dependents without late inits of their own. `RunnerFollowsUse` and
`SearchReadsSettled` need that condition too (`Orderly`): with two components that have late inits, a
component may stay unregistered, and the Runner lacks its hooks.

## 7. What is not modelled, and the plan

Left out of the modules: texts, causes and wrapping of errors, tags and component
identifiers (`use_hook.go`), none of which decides what is done next; listener calls other than
`OnShutdown` and the ready callback (they are synchronous and change nothing);
durations (a timeout fires at any time or never); panics in user code within hooks,
which end the process; a signal while nobody is subscribed, which ends it too; inspection of the call
stack, a matter of the Go runtime, and with it the refusal of `NewRunner` inside a provider; that `NewRunner` panics where
`NewRunnerE` returns an error; the build for tests, which asserts invariants. `demo` and
`examples` are programs that use the library: the callers of `demo` are callbacks of a page,
whose order a JavaScript event loop determines and not the code.

Modelled, in the order of the plan:

1. `RunnerSession`, `Lifecycle` and the refinement.
2. `PhasedRunnable`.
3. `Runner`.
4. `LcNodesGraph`.
5. `ComponentNode`, `NodeFrames`, `PendingNodes`, `Registry`.
6. `ShutdownContext` and `RunnerShutdown`.
7. `HookBuilder`.
8. `NewRunner`.

Still to come:

- `RunnerSystem`: sessions of several Runners over shared adapters, so that
  `SharedHook` and the clients of `PhasedRunnable` are derived and not assumed;
  bounds: two Runners, two hooks.
- `LateInitQueue`: a plain sequence as the abstract specification of the slice-backed queue.
- An invariant of the counts that outlives cycles of calls (`cycled`), for `RegisteredWithOneLateInit` in general and then
  `RunnerFollowsUse`.

## 8. How to run it

    tlc -workers 2 -config session_all_graphs.cfg MCRunnerSessionLifecycle
    tlapm RunnerSessionProofs.tla

`PROJECT.json` lists every run with its module and configuration, the map from
definitions to lines of the source, and for each property a fault in the code
that breaks it. The longest runs take about two minutes, the
proofs of the registry about seven.
