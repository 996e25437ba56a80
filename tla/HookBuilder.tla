----------------------------- MODULE HookBuilder -----------------------------
(***************************************************************************)
(* The builder that UseLifecycle returns to user code (use_lifecycle.go)   *)
(* and the options of its calls (lifecycle_options.go). User code adds     *)
(* roles, in any order, until the component's last frame is over; then     *)
(* getHook makes the lifecycle hook that sessions use. A call that         *)
(* contradicts earlier ones panics, and one with a nil option panics too,  *)
(* with its role taken already; user code may recover, and go on.          *)
(* Nothing keeps it from using the builder after getHook.                  *)
(*                                                                         *)
(* Of what is added, and of texts and tags, nothing matters but which call *)
(* added it: calls are numbered, 0 is nil. AddRunFn, AddStartFn and so on  *)
(* wrap a function and do the same.                                        *)
(***************************************************************************)
EXTENDS Integers, Sequences, SequencesExt

CONSTANTS
    Timeouts,    \* durations given to OptStartTimeout: zero and negative ones too
    MaxOptions,  \* bound: options per call
    MaxAdds      \* bound: calls that take a role

ASSUME HookBuilderAssumption ==
    /\ Timeouts \subseteq Int
    /\ MaxOptions \in Nat /\ MaxAdds \in Nat

Runnables == {"runnable", "readinessRunnable"}
Role == Runnables \cup {"starter", "closer"}
Nil == 0

VARIABLES
    impl,       \* by role: the call that added it
    cfg,        \* by role: what its options say
    built,      \* getHook has been called
    hook,       \* what it has returned
    runnerCfg,  \* the options of the Runner
    added,      \* history: the calls that took a role before getHook
    refused     \* history: the roles a call with a value panicked for before getHook

vars == <<impl, cfg, built, hook, runnerCfg, added, refused>>

-----------------------------------------------------------------------------
(* Options *)

StartTimeoutOption == [opt : {"startTimeout"}, value : Timeouts]
NilRunResultAsErrorOption == [opt : {"nilResultAsError"}, value : {TRUE}]

\* Which options a call takes.
Option(role) ==
    (IF role \in {"starter", "readinessRunnable"} THEN StartTimeoutOption ELSE {})
        \cup (IF role \in Runnables THEN NilRunResultAsErrorOption ELSE {})
RunnerOption == StartTimeoutOption \cup NilRunResultAsErrorOption
OptionsUpTo(k, options) == UNION {[1 .. i -> options] : i \in 0 .. k}

ZeroCfg == [startTimeout |-> 0, nilResultAsError |-> FALSE]
Apply(c, option) == [c EXCEPT ![option.opt] = option.value]

\* Options are applied one after another: the last one wins.
NewCfg(options) == FoldLeft(Apply, ZeroCfg, options)

-----------------------------------------------------------------------------
(* The builder *)

\* The roles that exclude this one. Mutant: a Runnable may join a Starter.
Excludes_Mutant(role) == Runnables \cup (IF role \in Runnables THEN {"closer"} ELSE {role})
Excludes(role) == Runnables \cup (IF role \in Runnables THEN {"starter", "closer"} ELSE {role})
CanAdd(role) == \A r \in Excludes(role) : impl[r] = Nil

Take(role, options) ==
    /\ CanAdd(role)
    /\ Len(added) < MaxAdds
    /\ impl' = [impl EXCEPT ![role] = Len(added) + 1]
    /\ added' = IF built THEN added ELSE Append(added, [role |-> role, options |-> options])
    /\ UNCHANGED <<built, hook, runnerCfg, refused>>

Add(role, options) == Take(role, options) /\ cfg' = [cfg EXCEPT ![role] = NewCfg(options)]

\* A nil option panics when the role is taken already: it stays taken, without options.
AddPanicsHalfway(role) == role # "closer" /\ Take(role, <<>>) /\ UNCHANGED cfg

\* "already added"
AddPanics(role) ==
    /\ ~CanAdd(role)
    /\ refused' = IF built THEN refused ELSE refused \cup {role}
    /\ UNCHANGED <<impl, cfg, built, hook, runnerCfg, added>>

\* A nil value panics whatever the builder has, and changes nothing.
AddNilPanics == UNCHANGED vars

NoHook ==
    [starter |-> Nil, waiter |-> Nil, closer |-> Nil, causeCloser |-> Nil, adapter |-> "none",
     startTimeout |-> 0, nilResultAsError |-> FALSE]

\* One adapter plays all roles of a Runnable; a Runnable that is ready at once has no start timeout.
Adapted(role) ==
    [starter |-> impl[role], waiter |-> impl[role], closer |-> Nil, causeCloser |-> impl[role],
     adapter |-> role,
     startTimeout |-> IF role = "runnable" THEN 0 ELSE cfg[role].startTimeout,
     nilResultAsError |-> cfg[role].nilResultAsError]

StarterAndCloser ==
    [starter |-> impl["starter"], waiter |-> Nil, closer |-> impl["closer"], causeCloser |-> Nil, adapter |-> "none",
     startTimeout |-> cfg["starter"].startTimeout, nilResultAsError |-> FALSE]

\* The switch of getHook; a builder without roles has no hook.
GetHook ==
    /\ ~built
    /\ built' = TRUE
    /\ hook' = IF impl["readinessRunnable"] # Nil THEN Adapted("readinessRunnable")
               ELSE IF impl["runnable"] # Nil THEN Adapted("runnable")
               ELSE StarterAndCloser
    /\ UNCHANGED <<impl, cfg, runnerCfg, added, refused>>

-----------------------------------------------------------------------------
(* What a session makes of the hook *)

\* getStartCtx. Mutant: the Runner's timeout comes first.
StartTimeout_Mutant == IF runnerCfg.startTimeout # 0 THEN runnerCfg.startTimeout ELSE hook.startTimeout
StartTimeout == IF hook.startTimeout # 0 THEN hook.startTimeout ELSE runnerCfg.startTimeout

\* Only a start in a goroutine gets a start context.
StartIsTimed == hook.starter # Nil /\ hook.adapter # "runnable" /\ StartTimeout > 0
NilResultIsError == runnerCfg.nilResultAsError \/ hook.nilResultAsError
HasCloser == hook.closer # Nil \/ hook.causeCloser # Nil

-----------------------------------------------------------------------------

Init ==
    /\ impl = [r \in Role |-> Nil] /\ cfg = [r \in Role |-> ZeroCfg]
    /\ built = FALSE /\ hook = NoHook
    /\ \E options \in OptionsUpTo(MaxOptions, RunnerOption) : runnerCfg = NewCfg(options)
    /\ added = <<>> /\ refused = {}

Next ==
    \/ \E role \in Role : \/ AddPanics(role) \/ AddPanicsHalfway(role)
                         \/ \E options \in OptionsUpTo(MaxOptions, Option(role)) : Add(role, options)
    \/ AddNilPanics \/ GetHook

Spec == Init /\ [][Next]_vars

-----------------------------------------------------------------------------
(* Properties *)

\* The hook plays exactly the roles of those calls that took one, whether they returned or
\* panicked half-way, in whatever order they came: none was overwritten, dropped by the
\* switch of getHook, or mixed with another that excludes it, and who was refused had been
\* excluded. These hooks are the kinds of RunnerSession.
Adds(i, role) == i \in DOMAIN added /\ added[i].role = role
Plays(i) ==
    LET role == added[i].role
    IN  /\ role = "closer" <=> hook.closer = i
        /\ role # "closer" <=> hook.starter = i
        /\ role \in Runnables <=> hook.waiter = i
        /\ role \in Runnables <=> hook.causeCloser = i
        /\ hook.adapter = role <=> role \in Runnables
HookPlaysWhatWasAdded ==
    built => /\ \A i \in DOMAIN added : Plays(i)
             /\ {hook.starter, hook.waiter, hook.closer, hook.causeCloser} \subseteq DOMAIN added \cup {Nil}
             /\ \A role \in refused : \E i \in DOMAIN added : added[i].role \in Excludes(role)

\* How a session starts the hook and judges its result follows from the options as they
\* were given: the component's own last timeout, if it is not zero, else the Runner's
\* last ("by default to all ReadinessRunnable and Starter components",
\* lifecycle_options.go:66); a nil result is an error if either says so (:101).
LastGiven(options, opt) ==
    LET given == {i \in DOMAIN options : options[i].opt = opt}
    IN  IF given = {} THEN ZeroCfg[opt] ELSE options[Max(given)].value
OptionsReachTheSession ==
    built => \A i \in DOMAIN added :
        LET own == LastGiven(added[i].options, "startTimeout")
        IN  /\ added[i].role \in {"starter", "readinessRunnable"} =>
                  StartIsTimed <=> own > 0 \/ (own = 0 /\ runnerCfg.startTimeout > 0)
            /\ added[i].role = "runnable" => ~StartIsTimed
            /\ added[i].role \in Runnables =>
                  NilResultIsError <=> \/ runnerCfg.nilResultAsError
                                       \/ LastGiven(added[i].options, "nilResultAsError")

\* "if they don't have their own timeout configured" (lifecycle_options.go:67): the
\* Runner's timeout is for components that were given none.
DefaultTimeoutOnlyIfNoneGiven ==
    built => \A i \in DOMAIN added :
        (\E o \in ToSet(added[i].options) : o.opt = "startTimeout") /\ StartIsTimed =>
            LastGiven(added[i].options, "startTimeout") > 0
=============================================================================
