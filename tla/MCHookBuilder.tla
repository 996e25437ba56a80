---------------------------- MODULE MCHookBuilder ----------------------------
(* Instances of HookBuilder for TLC. *)
EXTENDS HookBuilder

\* A negative timeout and zero are durations like others to a caller.
SomeTimeouts == {-1, 0, 1}
=============================================================================
