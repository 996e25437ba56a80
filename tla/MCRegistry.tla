----------------------------- MODULE MCRegistry -----------------------------
(* Instances of Registry for TLC: components a, b, c, d4.*)
EXTENDS Registry

CONSTANTS a, b, c, d4

Three == {a, b, c}
Four == {a, b, c, d4}

\* Providers ask for later components.
Diamond == {<<a, b>>, <<a, c>>, <<b, c>>}

\* A chain, which c closes to a cycle.
ChainWithCycle == {<<a, b>>, <<b, c>>, <<c, d4>>, <<c, a>>}

\* Late inits ask for earlier components, which makes cycles that are allowed.
Backward3 == {<<b, a>>, <<c, a>>, <<c, b>>}
Backward4 == Backward3 \cup {<<d4, a>>, <<d4, b>>, <<d4, c>>}

OneLateInitEach == [n \in Three |-> 1]
OneLateInitEachButB == [n \in Four |-> IF n = b THEN 0 ELSE 1]
=============================================================================
