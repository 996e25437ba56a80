--------------------------- MODULE MCLcNodesGraph ---------------------------
(* Instances of LcNodesGraph for TLC: component 0 is a Runner's root. *)
EXTENDS LcNodesGraph

CompsUpTo4 == 0 .. 4

\* Graphs of the root and the components cs: nothing depends on the root, which
\* depends on something, and there is a hook. Other components are not reached.
GraphsOf(cs, deps) ==
    [root : {0},
     dependsOn : {[n \in CompsUpTo4 |-> IF n \in DOMAIN g THEN g[n] ELSE {}] : g \in {d \in deps : d[0] # {}}},
     hooked : SUBSET cs \ {{}}]

\* Of three components, every graph, with cycles and self-dependencies.
AllGraphs3 == GraphsOf(0 .. 3, [0 .. 3 -> SUBSET (1 .. 3)])

\* Of four components, every acyclic graph up to renaming: a component depends on
\* greater ones only.
AcyclicGraphs4 ==
    GraphsOf(CompsUpTo4,
             {g \in [CompsUpTo4 -> SUBSET (1 .. 4)] : \A n \in CompsUpTo4 : g[n] \subseteq n + 1 .. 4})

AllGraphs == AllGraphs3 \cup AcyclicGraphs4
=============================================================================
