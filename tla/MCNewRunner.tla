----------------------------- MODULE MCNewRunner -----------------------------
(* Instances of NewRunner for TLC: r is the root; its provider asks for a and b. *)
EXTENDS NewRunner

CONSTANTS r, a, b, c

Components == {r, a, b, c}

\* a and b may ask for c, and a for b.
Providers == {<<r, a>>, <<r, b>>, <<a, b>>, <<a, c>>, <<b, c>>}
LateInits == {<<b, a>>, <<c, a>>, <<c, b>>}
OneEach == [n \in Components |-> IF n \in {b, c} THEN 1 ELSE 0]
=============================================================================
