---------------------------- MODULE ComponentNode ----------------------------
(***************************************************************************)
(* What a component remembers (node.go): how far its provider is, and what *)
(* registration told it. Values are left out; of an error, that there is   *)
(* one.                                                                    *)
(***************************************************************************)
EXTENDS Integers, Sequences, FiniteSets

CONSTANT Comp  \* the components

ASSUME CompAssumption == IsFiniteSet(Comp)

VARIABLES
    providingState,  \* none, inProgress or provided
    providedErr,     \* the component's getter reports an error
    regState,        \* none, withLcHooks or withNoLcHooks
    nodeDependsOn,   \* dependsOn
    nodeHasHooks     \* lcHooks is not empty

regResult == <<regState, nodeDependsOn, nodeHasHooks>>
componentNode == <<providingState, providedErr, regResult>>

IsRegistered(n) == regState[n] # "none"

NodeInit ==
    /\ providingState = [n \in Comp |-> "none"]
    /\ providedErr = [n \in Comp |-> FALSE]
    /\ regState = [n \in Comp |-> "none"]
    /\ nodeDependsOn = [n \in Comp |-> {}]
    /\ nodeHasHooks = [n \in Comp |-> FALSE]

SetRegResult(n, err, deps, hooks, hasOwnOrTransitiveRunnables) ==
    /\ providedErr' = [providedErr EXCEPT ![n] = @ \/ err]
    /\ nodeDependsOn' = [nodeDependsOn EXCEPT ![n] = deps]
    /\ nodeHasHooks' = [nodeHasHooks EXCEPT ![n] = hooks]
    /\ regState' = [regState EXCEPT ![n] =
                      IF hasOwnOrTransitiveRunnables THEN "withLcHooks" ELSE "withNoLcHooks"]

NodeTypeOK ==
    /\ providingState \in [Comp -> {"none", "inProgress", "provided"}]
    /\ providedErr \in [Comp -> BOOLEAN]
    /\ regState \in [Comp -> {"none", "withLcHooks", "withNoLcHooks"}]
    /\ nodeDependsOn \in [Comp -> SUBSET Comp] /\ nodeHasHooks \in [Comp -> BOOLEAN]
=============================================================================
