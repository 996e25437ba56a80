------------------------- MODULE LcNodesGraphProofs -------------------------
(***************************************************************************)
(* Whatever cycles a component graph has, the search leaves no lcNode that *)
(* was created early behind, and puts none of a component's lcNodes into   *)
(* the graph twice. Both rest on where a component can be: on the stack    *)
(* once at most, and never again once its visit is over.                   *)
(*                                                                         *)
(* Search says that the marks are closed below up to the stack, which is a *)
(* path from the root: so every hook below the root is found, and what is  *)
(* found again on the stack is in a cycle. OnlyBelow bounds the            *)
(* dependencies from above. LocallyExact says when none is missing: while  *)
(* no component between a hook and the nearest ones below it is in a cycle *)
(* their visits are over before its own is, whatever cycles there are      *)
(* elsewhere.                                                              *)
(***************************************************************************)
EXTENDS LcNodesGraph, FiniteSetTheorems, TLAPS

StackTyped == visiting \in Seq([node : Comp, todo : SUBSET Comp])

VisitedOnce == \A i, j \in DOMAIN visiting : visiting[i].node = visiting[j].node => i = j

MarkedAreNotVisiting == permMarks \cap TempMarks = {}

EarlyAreVisiting == \A n \in Comp : preCreatedLcNodes[n] # {} => n \in TempMarks \cap hooked

SortedAreMarked == Owners(sorted) \subseteq permMarks

OneEach ==
    /\ \A n \in Comp : \A lc \in preCreatedLcNodes[n] : Owner(lc) = n
    /\ \A n \in Comp : \A lc, other \in preCreatedLcNodes[n] : lc = other

IInv ==
    /\ root \in Comp /\ dependsOn \in [Comp -> SUBSET Comp]
    /\ preCreatedLcNodes \in [Comp -> SUBSET LcNode] /\ created \in [Comp -> Nat]
    /\ StackTyped /\ VisitedOnce /\ MarkedAreNotVisiting /\ EarlyAreVisiting
    /\ SortedAreMarked /\ OneEach /\ NoHookTwice

-----------------------------------------------------------------------------
(* The stack *)

Visits == [node : Comp, todo : SUBSET Comp]

\* A position is the last one or before it.
LEMMA LastOrBefore ==
    ASSUME NEW last \in Nat \ {0}
    PROVE  /\ \A i \in 1 .. last : i = last \/ i \in 1 .. last - 1
           /\ \A i \in 1 .. last - 1 : i \in 1 .. last /\ i # last
           /\ last \in 1 .. last
OBVIOUS

\* The visits below the top one stay where they are.
LEMMA BelowMovesNone ==
    ASSUME visiting \in Seq(Visits), visiting # <<>>
    PROVE  /\ Below \in Seq(Visits)
           /\ DOMAIN Below = 1 .. Len(visiting) - 1
           /\ \A i \in DOMAIN Below : Below[i] = visiting[i]
           /\ Len(visiting) \in DOMAIN visiting /\ DOMAIN visiting = 1 .. Len(visiting)
           /\ Len(visiting) \in Nat \ {0} /\ Top \in Visits
BY DEF Below, Top

\* A dependency crossed off on top of the stack moves no component.
LEMMA VisitedMovesNone ==
    ASSUME visiting \in Seq(Visits), visiting # <<>>, NEW m
    PROVE  /\ Visited(m) \in Seq(Visits)
           /\ DOMAIN Visited(m) = DOMAIN visiting /\ Len(Visited(m)) = Len(visiting)
           /\ \A i \in DOMAIN visiting : Visited(m)[i].node = visiting[i].node
           /\ \A i \in 1 .. Len(visiting) - 1 : Visited(m)[i] = visiting[i]
           /\ Visited(m)[Len(visiting)].todo = Top.todo \ {m}
<1>1. Len(visiting) \in Nat \ {0}
  OBVIOUS
<1>2. Top \in Visits
  BY <1>1 DEF Top
<1>3. /\ Below \in Seq(Visits) /\ Len(Below) = Len(visiting) - 1 /\ Len(Below) \in Nat
      /\ \A i \in 1 .. Len(visiting) - 1 : Below[i] = visiting[i]
  <2>1. DOMAIN Below = 1 .. Len(visiting) - 1 /\ Below \in Seq(Visits)
    BY BelowMovesNone
  <2>2. Len(Below) = Len(visiting) - 1
    BY <1>1, <2>1
  <2> QED
    BY <1>1, <2>1, <2>2, BelowMovesNone
<1> DEFINE top == [Top EXCEPT !.todo = @ \ {m}]
<1>4. top \in Visits /\ top.node = Top.node /\ top.todo = Top.todo \ {m}
  BY <1>2 DEF Visits
<1> HIDE DEF top
<1>5. Visited(m) = Append(Below, top)
  BY DEF Visited, top
<1>6. /\ Append(Below, top) \in Seq(Visits) /\ Len(Append(Below, top)) = Len(Below) + 1
      /\ \A i \in 1 .. Len(Below) : Append(Below, top)[i] = Below[i]
      /\ Append(Below, top)[Len(Below) + 1] = top
  BY <1>3, <1>4
<1>7. \A i \in 1 .. Len(visiting) : Append(Below, top)[i].node = visiting[i].node
  <2> TAKE i \in 1 .. Len(visiting)
  <2>1. CASE i = Len(visiting)
    BY <1>1, <1>3, <1>4, <1>6, <2>1 DEF Top
  <2>2. CASE i \in 1 .. Len(visiting) - 1
    BY <1>1, <1>3, <1>6, <2>2
  <2> QED
    BY <1>1, <2>1, <2>2, LastOrBefore
<1>8. /\ Append(Below, top)[Len(visiting)] = top
      /\ \A i \in 1 .. Len(visiting) - 1 : Append(Below, top)[i] = visiting[i]
  BY <1>1, <1>3, <1>6
<1> QED
  BY <1>1, <1>3, <1>4, <1>5, <1>6, <1>7, <1>8

-----------------------------------------------------------------------------
(* The inductive invariant *)

LEMMA IInvInit == Init => IInv
<1> SUFFICES ASSUME Init PROVE IInv
  OBVIOUS
<1>1. PICK g \in DepGraphs : root = g.root /\ dependsOn = g.dependsOn /\ hooked = g.hooked
  BY DEF Init
<1>2. root \in Comp /\ dependsOn \in [Comp -> SUBSET Comp]
  BY <1>1, DepGraphsAssumption
<1>3. Visit(root) \in Visits
  BY <1>2 DEF Visit, Visits
<1>4. visiting = <<Visit(root)>> /\ StackTyped /\ VisitedOnce
  BY <1>3 DEF Init, StackTyped, VisitedOnce, Visits
<1>5. preCreatedLcNodes \in [Comp -> SUBSET LcNode] /\ created \in [Comp -> Nat]
  BY DEF Init
<1>6. MarkedAreNotVisiting /\ EarlyAreVisiting /\ SortedAreMarked /\ OneEach /\ NoHookTwice
  BY DEF Init, MarkedAreNotVisiting, EarlyAreVisiting, SortedAreMarked, OneEach, NoHookTwice, Owners
<1> QED
  BY <1>2, <1>4, <1>5, <1>6 DEF IInv

\* What a step does to the stack, where a dependency is crossed off on its top.
LEMMA CrossedOff ==
    ASSUME IInv, visiting # <<>>, NEW m, visiting' = Visited(m)
    PROVE  /\ Len(visiting) \in Nat \ {0} /\ DOMAIN visiting = 1 .. Len(visiting)
           /\ DOMAIN visiting' = DOMAIN visiting /\ TempMarks' = TempMarks
           /\ \A i \in DOMAIN visiting :
                 /\ visiting'[i].node = visiting[i].node
                 /\ i # Len(visiting) => visiting'[i].todo = visiting[i].todo
                 /\ i = Len(visiting) => visiting'[i].todo = visiting[i].todo \ {m}
<1>1. visiting \in Seq(Visits)
  BY DEF IInv, StackTyped, Visits
<1>2. DOMAIN visiting = 1 .. Len(visiting) /\ Len(visiting) \in Nat \ {0}
  BY <1>1, BelowMovesNone
<1>3. /\ DOMAIN Visited(m) = DOMAIN visiting
      /\ \A i \in DOMAIN visiting : Visited(m)[i].node = visiting[i].node
      /\ \A i \in 1 .. Len(visiting) - 1 : Visited(m)[i] = visiting[i]
      /\ Visited(m)[Len(visiting)].todo = visiting[Len(visiting)].todo \ {m}
  BY <1>1, VisitedMovesNone DEF Top
<1>4. \A i \in DOMAIN visiting : i # Len(visiting) => i \in 1 .. Len(visiting) - 1
  BY <1>2, LastOrBefore
<1>5. TempMarks' = TempMarks
  BY <1>3 DEF TempMarks
<1> QED
  BY <1>2, <1>3, <1>4, <1>5

\* Where a visit is pushed too.
LEMMA Pushed ==
    ASSUME IInv, visiting # <<>>, NEW m \in Comp, visiting' = Append(Visited(m), Visit(m))
    PROVE  /\ Len(visiting) \in Nat \ {0} /\ DOMAIN visiting = 1 .. Len(visiting)
           /\ DOMAIN visiting' = 1 .. Len(visiting) + 1 /\ TempMarks' = TempMarks \cup {m}
           /\ visiting'[Len(visiting) + 1] = Visit(m)
           /\ \A i \in DOMAIN visiting :
                 /\ visiting'[i].node = visiting[i].node
                 /\ i # Len(visiting) => visiting'[i].todo = visiting[i].todo
                 /\ i = Len(visiting) => visiting'[i].todo = visiting[i].todo \ {m}
<1>1. visiting \in Seq(Visits)
  BY DEF IInv, StackTyped, Visits
<1>2. DOMAIN visiting = 1 .. Len(visiting) /\ Len(visiting) \in Nat \ {0}
  BY <1>1, BelowMovesNone
<1>3. /\ Visited(m) \in Seq(Visits) /\ Len(Visited(m)) = Len(visiting)
      /\ \A i \in DOMAIN visiting : Visited(m)[i].node = visiting[i].node
      /\ \A i \in 1 .. Len(visiting) - 1 : Visited(m)[i] = visiting[i]
      /\ Visited(m)[Len(visiting)].todo = visiting[Len(visiting)].todo \ {m}
  BY <1>1, VisitedMovesNone DEF Top
<1>4. Visit(m) \in Visits /\ Visit(m).node = m
  BY DEF IInv, Visit, Visits
<1>5. /\ DOMAIN visiting' = 1 .. Len(visiting) + 1
      /\ visiting'[Len(visiting) + 1] = Visit(m)
      /\ \A i \in 1 .. Len(visiting) : visiting'[i] = Visited(m)[i]
  BY <1>2, <1>3, <1>4
<1>6. \A i \in DOMAIN visiting : i # Len(visiting) => i \in 1 .. Len(visiting) - 1
  BY <1>2, LastOrBefore
<1>7. TempMarks' = TempMarks \cup {m}
  <2>1. TempMarks = {visiting[i].node : i \in 1 .. Len(visiting)}
    BY <1>2 DEF TempMarks
  <2>2. TempMarks' = {visiting'[i].node : i \in 1 .. Len(visiting) + 1}
    BY <1>5 DEF TempMarks
  <2>3. 1 .. Len(visiting) + 1 = (1 .. Len(visiting)) \cup {Len(visiting) + 1}
    BY <1>2
  <2>4. \A i \in 1 .. Len(visiting) : visiting'[i].node = visiting[i].node
    BY <1>2, <1>3, <1>5, SMTT(30)
  <2> QED
    BY <1>4, <1>5, <2>1, <2>2, <2>3, <2>4
<1> QED
  BY <1>2, <1>3, <1>5, <1>6, <1>7

\* Where a visit is popped.
LEMMA Popped ==
    ASSUME IInv, visiting # <<>>, visiting' = Below
    PROVE  /\ Len(visiting) \in Nat \ {0} /\ DOMAIN visiting = 1 .. Len(visiting)
           /\ DOMAIN visiting' = 1 .. Len(visiting) - 1
           /\ \A i \in DOMAIN visiting' : i \in DOMAIN visiting /\ visiting'[i] = visiting[i]
           /\ Len(visiting) \in DOMAIN visiting /\ Top = visiting[Len(visiting)]
           /\ Top.node \in Comp /\ Top.node \in TempMarks /\ Top.node \notin permMarks
           /\ TempMarks' = TempMarks \ {Top.node}
<1>1. visiting \in Seq(Visits)
  BY DEF IInv, StackTyped, Visits
<1>2. /\ Below \in Seq(Visits) /\ DOMAIN Below = 1 .. Len(visiting) - 1
      /\ \A i \in DOMAIN Below : Below[i] = visiting[i]
      /\ DOMAIN visiting = 1 .. Len(visiting) /\ Len(visiting) \in Nat \ {0} /\ Top \in Visits
      /\ Len(visiting) \in DOMAIN visiting
  BY <1>1, BelowMovesNone
<1>3. Top = visiting[Len(visiting)] /\ Top.node \in Comp
  BY <1>2 DEF Top, Visits
<1>4. Top.node \in TempMarks
  BY <1>2, <1>3 DEF TempMarks
<1>5. Top.node \notin permMarks
  BY <1>4, SMTT(30) DEF IInv, MarkedAreNotVisiting
<1>6. \A i \in 1 .. Len(visiting) - 1 : i \in DOMAIN visiting /\ i # Len(visiting)
  BY <1>2, LastOrBefore
<1>7. TempMarks' = TempMarks \ {Top.node}
  <2>1. ASSUME NEW x \in TempMarks' PROVE x \in TempMarks \ {Top.node}
    <3>1. PICK i \in 1 .. Len(visiting) - 1 : x = visiting[i].node
      BY <1>2, SMTT(30) DEF TempMarks
    <3>2. visiting[i].node # Top.node
      BY <1>2, <1>3, <1>6 DEF IInv, VisitedOnce
    <3> QED
      BY <1>6, <3>1, <3>2 DEF TempMarks
  <2>2. ASSUME NEW x \in TempMarks \ {Top.node} PROVE x \in TempMarks'
    <3>1. PICK i \in DOMAIN visiting : x = visiting[i].node
      BY DEF TempMarks
    <3>2. i \in DOMAIN Below
      BY <1>2, <1>3, <2>2, <3>1, LastOrBefore
    <3> QED
      BY <1>2, <3>1, <3>2 DEF TempMarks
  <2> QED
    BY <2>1, <2>2
<1> QED
  BY <1>2, <1>3, <1>4, <1>5, <1>6, <1>7

\* Steps that leave every component where it is on the stack, and no marks.
LEMMA StackKept ==
    ASSUME IInv, visiting # <<>>, NEW m, visiting' = Visited(m), UNCHANGED permMarks
    PROVE  StackTyped' /\ VisitedOnce' /\ MarkedAreNotVisiting' /\ TempMarks' = TempMarks
<1>1. /\ Visited(m) \in Seq(Visits) /\ DOMAIN Visited(m) = DOMAIN visiting
      /\ \A i \in DOMAIN visiting : Visited(m)[i].node = visiting[i].node
  BY VisitedMovesNone DEF IInv, StackTyped, Visits
<1>2. StackTyped' /\ VisitedOnce'
  BY <1>1 DEF IInv, StackTyped, VisitedOnce, Visits
<1>3. TempMarks' = TempMarks
  BY <1>1 DEF TempMarks
<1> QED
  BY <1>2, <1>3 DEF IInv, MarkedAreNotVisiting

LEMMA VisitMarkedKeeps == ASSUME IInv, NEW m \in Comp, VisitMarked(m) PROVE IInv'
<1>1. /\ visiting # <<>> /\ visiting' = Visited(m)
      /\ UNCHANGED <<graph, permMarks, created, preCreatedLcNodes, sorted>>
  BY DEF VisitMarked, SameGraph, graph, InProgress
<1>2. StackTyped' /\ VisitedOnce' /\ MarkedAreNotVisiting' /\ TempMarks' = TempMarks
  BY <1>1, StackKept
<1> QED
  BY <1>1, <1>2 DEF IInv, EarlyAreVisiting, SortedAreMarked, OneEach, NoHookTwice, graph

LEMMA VisitNewKeeps == ASSUME IInv, NEW m \in Comp, VisitNew(m) PROVE IInv'
<1>1. /\ visiting # <<>> /\ m \notin permMarks /\ m \notin TempMarks
      /\ visiting' = Append(Visited(m), Visit(m))
      /\ UNCHANGED <<graph, permMarks, created, preCreatedLcNodes, sorted>>
  BY DEF VisitNew, SameGraph, graph, InProgress
<1>2. /\ Visited(m) \in Seq(Visits) /\ DOMAIN Visited(m) = DOMAIN visiting
      /\ \A i \in DOMAIN visiting : Visited(m)[i].node = visiting[i].node
  BY <1>1, VisitedMovesNone DEF IInv, StackTyped, Visits
<1>3. Visit(m) \in Visits /\ Visit(m).node = m
  BY DEF IInv, Visit, Visits
<1>4. StackTyped'
  BY <1>1, <1>2, <1>3 DEF StackTyped, Visits
<1> DEFINE n == Len(visiting)
<1>5. /\ n \in Nat \ {0} /\ DOMAIN visiting = 1 .. n /\ DOMAIN visiting' = 1 .. n + 1
      /\ \A i \in 1 .. n : visiting'[i].node = visiting[i].node
      /\ visiting'[n + 1].node = m /\ TempMarks' = TempMarks \cup {m}
  BY <1>1, <1>3, Pushed
<1>6. \A i \in 1 .. n : visiting[i].node # m
  BY <1>1, <1>5 DEF TempMarks
<1> HIDE DEF n
<1>7. VisitedOnce'
  <2>1. ASSUME NEW i \in 1 .. n + 1, NEW j \in 1 .. n + 1, visiting'[i].node = visiting'[j].node
        PROVE  i = j
    <3>1. n + 1 \in Nat \ {0} /\ (n + 1) - 1 = n
      BY <1>5
    <3>2. (i = n + 1 \/ i \in 1 .. n) /\ (j = n + 1 \/ j \in 1 .. n)
      BY <3>1, LastOrBefore
    <3> QED
      BY <1>5, <1>6, <2>1, <3>2 DEF IInv, VisitedOnce
  <2> QED
    BY <1>5, <2>1 DEF VisitedOnce
<1>8. MarkedAreNotVisiting' /\ EarlyAreVisiting'
  BY <1>1, <1>5 DEF IInv, MarkedAreNotVisiting, EarlyAreVisiting, graph
<1> QED
  BY <1>1, <1>4, <1>7, <1>8 DEF IInv, SortedAreMarked, OneEach, NoHookTwice, graph

LEMMA VisitVisitingKeeps == ASSUME IInv, NEW m \in Comp, VisitVisiting(m) PROVE IInv'
<1>1. /\ visiting # <<>> /\ m \in TempMarks /\ visiting' = Visited(m)
      /\ UNCHANGED <<graph, permMarks, sorted>>
  BY DEF VisitVisiting, SameGraph, graph, InProgress
<1>2. StackTyped' /\ VisitedOnce' /\ MarkedAreNotVisiting' /\ TempMarks' = TempMarks
  BY <1>1, StackKept
<1>3. /\ preCreatedLcNodes' \in [Comp -> SUBSET LcNode] /\ created' \in [Comp -> Nat]
      /\ EarlyAreVisiting' /\ OneEach'
  <2>1. CASE UNCHANGED <<created, preCreatedLcNodes>>
    BY <1>1, <1>2, <2>1 DEF IInv, EarlyAreVisiting, OneEach, graph
  <2>2. CASE /\ m \in hooked
             /\ created' = [created EXCEPT ![m] = @ + 1]
             /\ preCreatedLcNodes' = [preCreatedLcNodes EXCEPT ![m] = {<<m, created[m]>>}]
    <3>1. <<m, created[m]>> \in LcNode /\ Owner(<<m, created[m]>>) = m
      BY DEF IInv, LcNode, Owner
    <3>2. preCreatedLcNodes' \in [Comp -> SUBSET LcNode] /\ created' \in [Comp -> Nat]
      BY <2>2, <3>1 DEF IInv
    <3>3. /\ preCreatedLcNodes'[m] = {<<m, created[m]>>}
          /\ \A k \in Comp \ {m} : preCreatedLcNodes'[k] = preCreatedLcNodes[k]
      BY <2>2 DEF IInv
    <3>4. EarlyAreVisiting'
      BY <1>1, <1>2, <2>2, <3>3 DEF IInv, EarlyAreVisiting, graph
    <3>5. OneEach'
      BY <3>1, <3>3 DEF IInv, OneEach
    <3> QED
      BY <3>2, <3>4, <3>5
  <2> QED
    BY <2>1, <2>2 DEF VisitVisiting, CreateLcNode
<1> QED
  BY <1>1, <1>2, <1>3 DEF IInv, SortedAreMarked, NoHookTwice, graph

LEMMA FinishVisitKeeps == ASSUME IInv, FinishVisit PROVE IInv'
<1> DEFINE n == Top.node
<1>1. /\ visiting # <<>> /\ visiting' = Below /\ permMarks' = permMarks \cup {n}
      /\ UNCHANGED graph
  BY DEF FinishVisit, SameGraph, graph, InProgress
<1>2. Below \in Seq(Visits)
  BY <1>1, BelowMovesNone DEF IInv, StackTyped, Visits
<1>3. /\ n \in Comp /\ n \in TempMarks /\ n \notin permMarks /\ TempMarks' = TempMarks \ {n}
      /\ \A i \in DOMAIN visiting' : i \in DOMAIN visiting /\ visiting'[i] = visiting[i]
  BY <1>1, Popped
<1>4. StackTyped' /\ VisitedOnce'
  <2>1. StackTyped'
    BY <1>1, <1>2 DEF StackTyped, Visits
  <2>2. VisitedOnce'
    BY <1>3 DEF IInv, VisitedOnce
  <2> QED
    BY <2>1, <2>2
<1>5. MarkedAreNotVisiting'
  BY <1>1, <1>3 DEF IInv, MarkedAreNotVisiting
<1>6. /\ preCreatedLcNodes' \in [Comp -> SUBSET LcNode] /\ created' \in [Comp -> Nat]
      /\ EarlyAreVisiting' /\ SortedAreMarked' /\ OneEach' /\ NoHookTwice'
  <2> HIDE DEF n
  <2>1. CASE n \in hooked
    <3>1. sorted' = sorted \cup PickedUp(n) /\ preCreatedLcNodes' = LeftPreCreated(n)
      BY <2>1 DEF FinishVisit, n
    <3>2. created' \in [Comp -> Nat]
      BY <1>3, <2>1 DEF FinishVisit, n, CreateLcNode, IInv
    <3>3. preCreatedLcNodes' \in [Comp -> SUBSET LcNode] /\ EarlyAreVisiting' /\ OneEach'
      BY <1>1, <1>3, <3>1 DEF IInv, LeftPreCreated, EarlyAreVisiting, OneEach, graph
    <3>4. /\ \A lc \in PickedUp(n) : Owner(lc) = n
          /\ \A lc, other \in PickedUp(n) : lc = other
      BY <1>3 DEF IInv, OneEach, PickedUp, Owner
    <3>5. \A lc \in sorted : Owner(lc) # n
      BY <1>3 DEF IInv, SortedAreMarked, Owners
    <3>6. SortedAreMarked'
      BY <1>1, <3>1, <3>4 DEF IInv, SortedAreMarked, Owners
    <3>7. NoHookTwice'
      BY <3>1, <3>4, <3>5 DEF IInv, NoHookTwice
    <3> QED
      BY <3>2, <3>3, <3>6, <3>7
  <2>2. CASE n \notin hooked
    <3>1. UNCHANGED <<created, preCreatedLcNodes, sorted>>
      BY <2>2 DEF FinishVisit, n
    <3>2. preCreatedLcNodes[n] = {}
      BY <1>3, <2>2 DEF IInv, EarlyAreVisiting
    <3> QED
      BY <1>1, <1>3, <3>1, <3>2 DEF IInv, EarlyAreVisiting, SortedAreMarked, OneEach, NoHookTwice,
                                    Owners, graph
  <2> QED
    BY <2>1, <2>2
<1> QED
  BY <1>1, <1>4, <1>5, <1>6 DEF IInv, graph

LEMMA IInvNext == IInv /\ [Next]_vars => IInv'
<1> SUFFICES ASSUME IInv, [Next]_vars PROVE IInv'
  OBVIOUS
<1>1. ASSUME NEW m \in Comp, VisitMarked(m) PROVE IInv'
  BY <1>1, VisitMarkedKeeps
<1>2. ASSUME NEW m \in Comp, VisitNew(m) PROVE IInv'
  BY <1>2, VisitNewKeeps
<1>3. ASSUME NEW m \in Comp, VisitVisiting(m) PROVE IInv'
  BY <1>3, VisitVisitingKeeps
<1>4. CASE FinishVisit
  BY <1>4, FinishVisitKeeps
<1>5. CASE UNCHANGED vars
  BY <1>5 DEF vars, graph, IInv, StackTyped, VisitedOnce, MarkedAreNotVisiting, TempMarks,
              EarlyAreVisiting, SortedAreMarked, OneEach, NoHookTwice, Owners
<1> QED
  BY <1>1, <1>2, <1>3, <1>4, <1>5 DEF Next, Finished

THEOREM Inductive == Spec => []IInv
BY IInvInit, IInvNext, PTL DEF Spec

-----------------------------------------------------------------------------
(* Reachability: the set of components below another is the least closed one *)

LEMMA FoundIsClosed ==
    ASSUME dependsOn \in [Comp -> SUBSET Comp], NEW n \in Comp, NEW T
    PROVE  ClosedBelow(n, T, Found(n, T)) /\ Found(n, T) \in SUBSET Comp
<1>1. Found(n, T) \in SUBSET Comp
  BY DEF Found
<1>2. dependsOn[n] \subseteq Found(n, T)
  BY DEF Found, ClosedBelow
<1>3. ASSUME NEW m \in Found(n, T) \cap T, NEW d \in dependsOn[m] PROVE d \in Found(n, T)
  <2>1. m \in Comp /\ d \in Comp
    BY <1>1
  <2>2. ASSUME NEW S \in SUBSET Comp, ClosedBelow(n, T, S) PROVE d \in S
    <3>1. m \in S
      BY <2>2 DEF Found
    <3> QED
      BY <2>2, <3>1 DEF ClosedBelow
  <2> QED
    BY <2>1, <2>2 DEF Found
<1> QED
  BY <1>1, <1>2, <1>3 DEF ClosedBelow

LEMMA FoundIsLeast ==
    ASSUME NEW n, NEW T, NEW S \in SUBSET Comp, ClosedBelow(n, T, S)
    PROVE  Found(n, T) \subseteq S
BY DEF Found

\* What is reached through fewer components is reached.
LEMMA FoundIsReachable ==
    ASSUME dependsOn \in [Comp -> SUBSET Comp], NEW n \in Comp, NEW T
    PROVE  Found(n, T) \subseteq Reachable(n)
<1>1. ClosedBelow(n, Comp, Reachable(n)) /\ Reachable(n) \in SUBSET Comp
  BY FoundIsClosed DEF Reachable
<1>2. ClosedBelow(n, T, Reachable(n))
  BY <1>1 DEF ClosedBelow
<1> QED
  BY <1>1, <1>2, FoundIsLeast

\* From a component that is reached, all is reached that is below it.
LEMMA FoundThrough ==
    ASSUME dependsOn \in [Comp -> SUBSET Comp], NEW n \in Comp, NEW T, NEW m \in Found(n, T) \cap T
    PROVE  Found(m, T) \subseteq Found(n, T)
<1>1. ClosedBelow(n, T, Found(n, T)) /\ Found(n, T) \in SUBSET Comp
  BY FoundIsClosed
<1>2. ClosedBelow(m, T, Found(n, T))
  BY <1>1 DEF ClosedBelow
<1> QED
  BY <1>1, <1>2, FoundIsLeast

LEMMA ReachableThrough ==
    ASSUME dependsOn \in [Comp -> SUBSET Comp], NEW n \in Comp
    PROVE  /\ dependsOn[n] \subseteq Reachable(n) /\ Reachable(n) \in SUBSET Comp
           /\ \A m \in Reachable(n) : Reachable(m) \subseteq Reachable(n)
           /\ \A m \in Reachable(n) : dependsOn[m] \subseteq Reachable(n)
<1>1. ClosedBelow(n, Comp, Reachable(n)) /\ Reachable(n) \in SUBSET Comp
  BY FoundIsClosed DEF Reachable
<1>2. ASSUME NEW m \in Reachable(n) PROVE Reachable(m) \subseteq Reachable(n)
  <2>1. m \in Found(n, Comp) \cap Comp
    BY <1>1 DEF Reachable
  <2> QED
    BY <2>1, FoundThrough DEF Reachable
<1> QED
  BY <1>1, <1>2 DEF ClosedBelow

\* What is below n: its dependencies, and what is below those that may be passed.
LEMMA FoundByFirstStep ==
    ASSUME dependsOn \in [Comp -> SUBSET Comp], NEW n \in Comp, NEW T
    PROVE  Found(n, T) = dependsOn[n] \cup UNION {Found(d, T) : d \in dependsOn[n] \cap T}
<1> DEFINE S == dependsOn[n] \cup UNION {Found(d, T) : d \in dependsOn[n] \cap T}
<1>1. ClosedBelow(n, T, Found(n, T)) /\ Found(n, T) \in SUBSET Comp
  BY FoundIsClosed
<1>2. \A d \in dependsOn[n] : ClosedBelow(d, T, Found(d, T)) /\ Found(d, T) \in SUBSET Comp
  BY FoundIsClosed
<1>3. S \subseteq Found(n, T)
  <2>1. dependsOn[n] \subseteq Found(n, T)
    BY <1>1 DEF ClosedBelow
  <2>2. \A d \in dependsOn[n] \cap T : Found(d, T) \subseteq Found(n, T)
    BY <2>1, FoundThrough
  <2> QED
    BY <2>1, <2>2
<1>4. S \in SUBSET Comp
  BY <1>2
<1>5. ClosedBelow(n, T, S)
  <2>1. ASSUME NEW m \in S \cap T, NEW k \in dependsOn[m] PROVE k \in S
    <3>1. CASE m \in dependsOn[n]
      <4>1. k \in Found(m, T)
        BY <1>2, <3>1 DEF ClosedBelow
      <4> QED
        BY <2>1, <3>1, <4>1
    <3>2. ASSUME NEW d \in dependsOn[n] \cap T, m \in Found(d, T) PROVE k \in S
      <4>1. k \in Found(d, T)
        BY <1>2, <2>1, <3>2 DEF ClosedBelow
      <4> QED
        BY <4>1
    <3> QED
      BY <3>1, <3>2
  <2> QED
    BY <2>1 DEF ClosedBelow
<1> HIDE DEF S
<1>6. Found(n, T) \subseteq S
  BY <1>4, <1>5, FoundIsLeast
<1> QED
  BY <1>3, <1>6 DEF S

\* The component graph never changes, and nor does what is reached in it.
LEMMA ReachableIsFixed ==
    ASSUME UNCHANGED graph
    PROVE  /\ \A n : Reachable(n)' = Reachable(n) /\ NearestHooks(n)' = NearestHooks(n)
           /\ \A n : NoCycleBetween(n)' = NoCycleBetween(n)
           /\ FromRoot' = FromRoot
<1>1. root' = root /\ dependsOn' = dependsOn /\ hooked' = hooked
  BY DEF graph
<1>2. \A n, T : Found(n, T)' = Found(n, T)
  BY <1>1 DEF Found, ClosedBelow
<1>3. \A n : Reachable(n)' = Reachable(n)
  BY <1>2 DEF Reachable
<1>4. \A n : NearestHooks(n)' = NearestHooks(n) /\ Between(n)' = Between(n)
  <2> TAKE n
  <2>1. Found(n, Comp \ hooked)' = Found(n, Comp \ hooked)
    BY <1>1 DEF Found, ClosedBelow
  <2> QED
    BY <1>1, <2>1 DEF NearestHooks, Between
<1>5. FromRoot' = FromRoot
  BY <1>1, <1>3 DEF FromRoot, Reachable
<1>6. \A n : NoCycleBetween(n)' = NoCycleBetween(n)
  <2> TAKE n
  <2>1. NoCycleBetween(n)' = \A m \in Between(n)' : m \notin Reachable(m)'
    BY DEF NoCycleBetween, Reachable, Found, ClosedBelow
  <2> QED
    BY <1>3, <1>4, <2>1 DEF NoCycleBetween
<1> QED
  BY <1>3, <1>4, <1>5, <1>6

-----------------------------------------------------------------------------
(* How far the search is: what is marked, and what the stack has still to visit *)

\* The stack is a path in the component graph.
StackIsAPath ==
    \A i, j \in DOMAIN visiting : i < j => visiting[j].node \in Reachable(visiting[i].node)

\* A visit has only dependencies of its component to make, and has made the others.
VisitsGoOn ==
    \A i \in DOMAIN visiting :
        /\ visiting[i].todo \subseteq dependsOn[visiting[i].node]
        /\ dependsOn[visiting[i].node] \ visiting[i].todo \subseteq permMarks \cup TempMarks

\* What a component whose visit is over depends on has been visited too, or is being visited.
MarksAreClosed ==
    /\ root \in permMarks \cup TempMarks
    /\ \A n \in permMarks : dependsOn[n] \subseteq permMarks \cup TempMarks

MarksAreFromRoot == permMarks \in SUBSET Comp /\ permMarks \cup TempMarks \subseteq FromRoot

SortedAreMarkedHooks == Owners(sorted) = hooked \cap permMarks

Search ==
    /\ StackIsAPath /\ VisitsGoOn /\ MarksAreClosed /\ MarksAreFromRoot /\ SortedAreMarkedHooks

LEMMA SearchInit == Init => Search
<1> SUFFICES ASSUME Init PROVE Search
  OBVIOUS
<1>1. root \in Comp /\ dependsOn \in [Comp -> SUBSET Comp]
  BY IInvInit DEF IInv
<1>2. visiting = <<Visit(root)>> /\ permMarks = {} /\ sorted = {}
  BY DEF Init
<1>3. DOMAIN visiting = {1} /\ visiting[1] = [node |-> root, todo |-> dependsOn[root]]
  BY <1>2 DEF Visit
<1>4. TempMarks = {root}
  BY <1>3 DEF TempMarks
<1>5. StackIsAPath /\ VisitsGoOn
  BY <1>3 DEF StackIsAPath, VisitsGoOn
<1> QED
  BY <1>1, <1>2, <1>4, <1>5 DEF Search, MarksAreClosed, MarksAreFromRoot, SortedAreMarkedHooks,
                                Owners, FromRoot

\* The dependency crossed off is marked.
LEMMA CrossingOffKeepsSearch ==
    ASSUME IInv, Search, visiting # <<>>, NEW m \in permMarks \cup TempMarks,
           visiting' = Visited(m), UNCHANGED <<graph, permMarks, sorted>>
    PROVE  Search'
<1>1. /\ Len(visiting) \in Nat \ {0} /\ DOMAIN visiting = 1 .. Len(visiting)
      /\ DOMAIN visiting' = DOMAIN visiting /\ TempMarks' = TempMarks
      /\ \A i \in DOMAIN visiting :
            /\ visiting'[i].node = visiting[i].node
            /\ i # Len(visiting) => visiting'[i].todo = visiting[i].todo
            /\ i = Len(visiting) => visiting'[i].todo = visiting[i].todo \ {m}
  BY CrossedOff
<1>2. FromRoot' = FromRoot /\ \A n : Reachable(n)' = Reachable(n)
  BY ReachableIsFixed
<1>3. root' = root /\ dependsOn' = dependsOn /\ hooked' = hooked
  BY DEF graph
<1>4. StackIsAPath'
  <2> SUFFICES ASSUME NEW i \in DOMAIN visiting, NEW j \in DOMAIN visiting, i < j
               PROVE  visiting'[j].node \in Reachable(visiting[i].node)
    BY <1>1, <1>2 DEF StackIsAPath, Reachable
  <2> QED
    BY <1>1 DEF Search, StackIsAPath
<1>5. VisitsGoOn'
  <2> SUFFICES ASSUME NEW i \in DOMAIN visiting
               PROVE  /\ visiting'[i].todo \subseteq dependsOn[visiting[i].node]
                      /\ dependsOn[visiting[i].node] \ visiting'[i].todo \subseteq permMarks \cup TempMarks
    BY <1>1, <1>3 DEF VisitsGoOn
  <2> QED
    BY <1>1 DEF Search, VisitsGoOn
<1>6. MarksAreClosed' /\ MarksAreFromRoot' /\ SortedAreMarkedHooks'
  BY <1>1, <1>2, <1>3 DEF Search, MarksAreClosed, MarksAreFromRoot, SortedAreMarkedHooks, Owners
<1> QED
  BY <1>4, <1>5, <1>6 DEF Search

\* What the top of the stack depends on is reached from all below it, and from the root.
LEMMA ReachedFromStack ==
    ASSUME IInv, Search, visiting # <<>>, NEW m \in Top.todo
    PROVE  /\ m \in dependsOn[Top.node] /\ m \in Comp /\ m \in FromRoot
           /\ \A i \in DOMAIN visiting : m \in Reachable(visiting[i].node)
<1>1. visiting \in Seq(Visits)
  BY DEF IInv, StackTyped, Visits
<1>2. /\ DOMAIN visiting = 1 .. Len(visiting) /\ Len(visiting) \in Nat \ {0}
      /\ Len(visiting) \in DOMAIN visiting /\ Top = visiting[Len(visiting)]
      /\ Top \in Visits
  BY <1>1, BelowMovesNone DEF Top
<1>3. m \in dependsOn[Top.node] /\ Top.node \in Comp /\ m \in Comp
  BY <1>2 DEF Search, VisitsGoOn, Visits
<1>4. dependsOn \in [Comp -> SUBSET Comp] /\ root \in Comp
  BY DEF IInv
<1>5. ASSUME NEW i \in DOMAIN visiting PROVE m \in Reachable(visiting[i].node)
  <2>1. visiting[i].node \in Comp
    <3>1. visiting[i] \in Visits
      BY <1>1
    <3> QED
      BY <3>1 DEF Visits
  <2>2. CASE i = Len(visiting)
    BY <1>2, <1>3, <1>4, <2>2, ReachableThrough
  <2>3. CASE i # Len(visiting)
    <3>1. i < Len(visiting)
      BY <1>2, <2>3
    <3>2. Top.node \in Reachable(visiting[i].node)
      BY <1>2, <3>1 DEF Search, StackIsAPath
    <3> QED
      BY <1>3, <1>4, <2>1, <3>2, ReachableThrough
  <2> QED
    BY <2>2, <2>3
<1>6. m \in FromRoot
  <2>1. Top.node \in FromRoot
    BY <1>2 DEF Search, MarksAreFromRoot, TempMarks
  <2> QED
    BY <1>3, <1>4, <2>1, ReachableThrough DEF FromRoot
<1> QED
  BY <1>3, <1>5, <1>6

LEMMA VisitNewKeepsSearch ==
    ASSUME IInv, Search, NEW m \in Comp, VisitNew(m)
    PROVE  Search'
<1>1. /\ visiting # <<>> /\ m \in Top.todo
      /\ visiting' = Append(Visited(m), Visit(m)) /\ UNCHANGED <<graph, permMarks, sorted>>
  BY DEF VisitNew, SameGraph, graph, InProgress
<1> DEFINE n == Len(visiting)
<1>2. /\ n \in Nat \ {0} /\ DOMAIN visiting = 1 .. n
      /\ DOMAIN visiting' = 1 .. n + 1 /\ TempMarks' = TempMarks \cup {m}
      /\ visiting'[n + 1] = Visit(m)
      /\ \A i \in DOMAIN visiting :
            /\ visiting'[i].node = visiting[i].node
            /\ i # n => visiting'[i].todo = visiting[i].todo
            /\ i = n => visiting'[i].todo = visiting[i].todo \ {m}
  BY <1>1, Pushed
<1>3. FromRoot' = FromRoot /\ \A k : Reachable(k)' = Reachable(k)
  BY <1>1, ReachableIsFixed
<1>4. root' = root /\ dependsOn' = dependsOn /\ hooked' = hooked
  BY <1>1 DEF graph
<1>5. m \in FromRoot /\ \A i \in DOMAIN visiting : m \in Reachable(visiting[i].node)
  BY <1>1, ReachedFromStack
<1> HIDE DEF n
<1>6. \A i \in DOMAIN visiting' : i = n + 1 \/ (i \in DOMAIN visiting /\ i < n + 1)
  BY <1>2
<1>7. visiting'[n + 1].node = m /\ visiting'[n + 1].todo = dependsOn[m]
  BY <1>2 DEF Visit
<1>8. StackIsAPath'
  <2> SUFFICES ASSUME NEW i \in DOMAIN visiting', NEW j \in DOMAIN visiting', i < j
               PROVE  visiting'[j].node \in Reachable(visiting'[i].node)
    BY <1>4 DEF StackIsAPath, Reachable, Found, ClosedBelow
  <2>1. i \in DOMAIN visiting
    BY <1>2, <1>6
  <2>2. CASE j = n + 1
    BY <1>2, <1>5, <1>7, <2>1, <2>2
  <2>3. CASE j \in DOMAIN visiting
    BY <1>2, <2>1, <2>3 DEF Search, StackIsAPath
  <2> QED
    BY <1>6, <2>2, <2>3
<1>9. VisitsGoOn'
  <2> SUFFICES ASSUME NEW i \in DOMAIN visiting'
               PROVE  /\ visiting'[i].todo \subseteq dependsOn[visiting'[i].node]
                      /\ dependsOn[visiting'[i].node] \ visiting'[i].todo
                            \subseteq permMarks \cup TempMarks \cup {m}
    BY <1>1, <1>2, <1>4 DEF VisitsGoOn
  <2>1. CASE i = n + 1
    BY <1>7, <2>1
  <2>2. CASE i \in DOMAIN visiting
    BY <1>2, <2>2 DEF Search, VisitsGoOn
  <2> QED
    BY <1>6, <2>1, <2>2
<1>10. MarksAreClosed' /\ MarksAreFromRoot' /\ SortedAreMarkedHooks'
  BY <1>1, <1>2, <1>3, <1>4, <1>5 DEF Search, MarksAreClosed, MarksAreFromRoot, SortedAreMarkedHooks,
                                      Owners
<1> QED
  BY <1>8, <1>9, <1>10 DEF Search

\* The lcNodes that a visit puts into the list are of its component, and there are some.
LEMMA PickedUpAreOwn ==
    ASSUME IInv, NEW n \in Comp
    PROVE  Owners(PickedUp(n)) = {n}
<1>1. preCreatedLcNodes[n] = {} => PickedUp(n) = {<<n, created[n]>>}
  BY DEF PickedUp
<1>2. preCreatedLcNodes[n] # {} => PickedUp(n) = preCreatedLcNodes[n]
  BY DEF PickedUp
<1>3. \A lc \in PickedUp(n) : Owner(lc) = n
  BY <1>1, <1>2 DEF IInv, OneEach, Owner
<1>4. PickedUp(n) # {}
  BY <1>1, <1>2
<1> QED
  BY <1>3, <1>4 DEF Owners

LEMMA FinishVisitKeepsSearch ==
    ASSUME IInv, Search, FinishVisit
    PROVE  Search'
<1> DEFINE n == Top.node
<1>1. /\ visiting # <<>> /\ Top.todo = {} /\ visiting' = Below /\ permMarks' = permMarks \cup {n}
      /\ UNCHANGED graph
      /\ n \in hooked => sorted' = sorted \cup PickedUp(n)
      /\ n \notin hooked => sorted' = sorted
  BY DEF FinishVisit, SameGraph, graph, InProgress
<1>2. /\ Len(visiting) \in DOMAIN visiting /\ Top = visiting[Len(visiting)]
      /\ n \in Comp /\ n \in TempMarks /\ TempMarks' = TempMarks \ {n}
      /\ \A i \in DOMAIN visiting' : i \in DOMAIN visiting /\ visiting'[i] = visiting[i]
  BY <1>1, Popped
<1>3. FromRoot' = FromRoot /\ \A k : Reachable(k)' = Reachable(k)
  BY <1>1, ReachableIsFixed
<1>4. root' = root /\ dependsOn' = dependsOn /\ hooked' = hooked
  BY <1>1 DEF graph
<1>5. dependsOn[n] \subseteq permMarks \cup TempMarks
  BY <1>1, <1>2 DEF Search, VisitsGoOn
<1>6. permMarks' \cup TempMarks' = permMarks \cup TempMarks
  BY <1>1, <1>2
<1>7. Owners(sorted') = hooked \cap permMarks'
  <2>1. CASE n \in hooked
    <3>1. Owners(sorted') = Owners(sorted) \cup Owners(PickedUp(n))
      BY <1>1, <2>1 DEF Owners
    <3> QED
      BY <1>1, <1>2, <2>1, <3>1, PickedUpAreOwn DEF Search, SortedAreMarkedHooks
  <2>2. CASE n \notin hooked
    BY <1>1, <2>2 DEF Search, SortedAreMarkedHooks
  <2> QED
    BY <2>1, <2>2
<1> HIDE DEF n
<1>8. StackIsAPath'
  <2> SUFFICES ASSUME NEW i \in DOMAIN visiting', NEW j \in DOMAIN visiting', i < j
               PROVE  visiting'[j].node \in Reachable(visiting'[i].node)
    BY <1>4 DEF StackIsAPath, Reachable, Found, ClosedBelow
  <2> QED
    BY <1>2 DEF Search, StackIsAPath
<1>9. VisitsGoOn'
  BY <1>2, <1>4, <1>6 DEF Search, VisitsGoOn
<1>10. MarksAreClosed' /\ MarksAreFromRoot' /\ SortedAreMarkedHooks'
  BY <1>1, <1>2, <1>3, <1>4, <1>5, <1>6, <1>7
     DEF Search, MarksAreClosed, MarksAreFromRoot, SortedAreMarkedHooks, Owners
<1> QED
  BY <1>8, <1>9, <1>10 DEF Search

LEMMA SearchNext == IInv /\ Search /\ [Next]_vars => Search'
<1> SUFFICES ASSUME IInv, Search, [Next]_vars PROVE Search'
  OBVIOUS
<1>1. ASSUME NEW m \in Comp, VisitMarked(m) \/ VisitVisiting(m) PROVE Search'
  <2>1. /\ visiting # <<>> /\ m \in permMarks \cup TempMarks /\ visiting' = Visited(m)
        /\ UNCHANGED <<graph, permMarks, sorted>>
    BY <1>1 DEF VisitMarked, VisitVisiting, SameGraph, graph, InProgress
  <2> QED
    BY <2>1, CrossingOffKeepsSearch
<1>2. ASSUME NEW m \in Comp, VisitNew(m) PROVE Search'
  BY <1>2, VisitNewKeepsSearch
<1>3. CASE FinishVisit
  BY <1>3, FinishVisitKeepsSearch
<1>4. CASE UNCHANGED vars
  <2>1. UNCHANGED <<graph, visiting, permMarks, sorted>>
    BY <1>4 DEF vars
  <2>2. FromRoot' = FromRoot /\ TempMarks' = TempMarks
    BY <2>1, ReachableIsFixed DEF TempMarks
  <2> QED
    BY <2>1, <2>2 DEF Search, StackIsAPath, VisitsGoOn, MarksAreClosed, MarksAreFromRoot,
                      SortedAreMarkedHooks, Owners, graph, Reachable, Found, ClosedBelow
<1> QED
  BY <1>1, <1>2, <1>3, <1>4 DEF Next, Finished

\* lc_nodes.go:45-158: whatever cycles the component graph has, the search reaches every
\* component from the root down and no other, and those with hooks are in the list.
THEOREM EveryHookIsFound == Spec => []EveryHookIsIn
<1>1. IInv /\ Search => EveryHookIsIn
  <2> SUFFICES ASSUME IInv, Search, Built PROVE Owners(sorted) = hooked \cap FromRoot
    BY DEF EveryHookIsIn
  <2>1. TempMarks = {}
    BY DEF Built, TempMarks
  <2>2. root \in Comp /\ permMarks \in SUBSET Comp /\ ClosedBelow(root, Comp, permMarks)
    BY <2>1 DEF IInv, Search, MarksAreClosed, MarksAreFromRoot, ClosedBelow
  <2>3. Reachable(root) \subseteq permMarks
    BY <2>2, FoundIsLeast DEF Reachable
  <2>4. permMarks = FromRoot
    BY <2>1, <2>3 DEF Search, MarksAreClosed, MarksAreFromRoot, FromRoot
  <2> QED
    BY <2>4 DEF Search, SortedAreMarkedHooks
<1> QED
  BY <1>1, Inductive, SearchInit, SearchNext, PTL DEF Spec

-----------------------------------------------------------------------------
(* Refusals *)

LEMMA TwoOfSeveral ==
    ASSUME NEW S, IsFiniteSet(S), Cardinality(S) > 1
    PROVE  \E x, y \in S : x # y
<1> SUFFICES ASSUME \A x, y \in S : x = y PROVE FALSE
  OBVIOUS
<1>1. S # {}
  BY FS_EmptySet
<1>2. PICK x \in S : S = {x}
  BY <1>1
<1> QED
  BY <1>2, FS_Singleton

\* What is on the stack from a second visit's component up is a cycle.
LEMMA CycleIsACycle ==
    ASSUME IInv, Search, visiting # <<>>, NEW m \in Top.todo \cap TempMarks
    PROVE  /\ CycleThrough(m) \in SUBSET Comp /\ CycleThrough(m) \subseteq TempMarks
           /\ m \in CycleThrough(m) /\ Top.node \in CycleThrough(m)
           /\ \A x, y \in CycleThrough(m) : x # y => y \in Reachable(x)
<1> DEFINE first == CHOOSE i \in DOMAIN visiting : visiting[i].node = m
<1>1. /\ DOMAIN visiting = 1 .. Len(visiting) /\ Len(visiting) \in Nat
      /\ \A i \in DOMAIN visiting : visiting[i].node \in Comp
  <2>1. visiting \in Seq(Visits)
    BY DEF IInv, StackTyped, Visits
  <2>2. \A i \in DOMAIN visiting : visiting[i] \in Visits
    BY <2>1
  <2> QED
    BY <2>1, <2>2 DEF Visits
<1>2. first \in DOMAIN visiting /\ visiting[first].node = m
  BY DEF TempMarks
<1>3. CycleThrough(m) = {visiting[i].node : i \in first .. Len(visiting)}
  BY DEF CycleThrough
<1> HIDE DEF first
<1>4. first .. Len(visiting) \subseteq DOMAIN visiting
  BY <1>1, <1>2
<1>5. CycleThrough(m) \in SUBSET Comp /\ CycleThrough(m) \subseteq TempMarks
  BY <1>1, <1>3, <1>4 DEF TempMarks
<1>6. ASSUME NEW x \in CycleThrough(m), NEW y \in CycleThrough(m), x # y
      PROVE  y \in Reachable(x)
  <2>1. PICK i \in first .. Len(visiting) : x = visiting[i].node
    BY <1>3
  <2>2. PICK j \in first .. Len(visiting) : y = visiting[j].node
    BY <1>3
  <2>3. i \in DOMAIN visiting /\ j \in DOMAIN visiting /\ i # j
    BY <1>4, <1>6, <2>1, <2>2
  <2>4. CASE i < j
    BY <2>1, <2>2, <2>3, <2>4 DEF Search, StackIsAPath
  <2>5. CASE j < i
    <3>1. m \in Reachable(x) /\ x \in Comp
      BY <1>1, <2>1, <2>3, ReachedFromStack
    <3>2. CASE j = first
      BY <1>2, <2>2, <3>1, <3>2
    <3>3. CASE j # first
      <4>1. first < j
        BY <1>1, <1>2, <2>3, <3>3
      <4>2. y \in Reachable(m)
        BY <1>2, <2>2, <2>3, <4>1 DEF Search, StackIsAPath
      <4> QED
        BY <3>1, <4>2, ReachableThrough DEF IInv
    <3> QED
      BY <3>2, <3>3
  <2> QED
    BY <1>1, <2>3, <2>4, <2>5
<1>7. m \in CycleThrough(m) /\ Top.node \in CycleThrough(m)
  <2>1. first \in first .. Len(visiting) /\ Len(visiting) \in first .. Len(visiting)
    BY <1>1, <1>2
  <2> QED
    BY <1>2, <1>3, <2>1 DEF Top
<1> QED
  BY <1>5, <1>6, <1>7

\* lc_nodes.go:55-83: only two components with hooks that depend on each other make the
\* search give up.
THEOREM OnlyHooksInCyclesAreRefused == Spec => []RefusedOnlyIfHooksInCycle
<1>1. Init => RefusedOnlyIfHooksInCycle
  BY DEF Init, RefusedOnlyIfHooksInCycle
<1>2. IInv /\ Search /\ RefusedOnlyIfHooksInCycle /\ [Next]_vars => RefusedOnlyIfHooksInCycle'
  <2> SUFFICES ASSUME IInv, Search, RefusedOnlyIfHooksInCycle, [Next]_vars
               PROVE  RefusedOnlyIfHooksInCycle'
    OBVIOUS
  <2>1. UNCHANGED graph
    BY DEF Next, VisitMarked, VisitNew, VisitVisiting, FinishVisit, Finished, SameGraph, graph, vars
  <2>2. hooked' = hooked /\ FromRoot' = FromRoot /\ \A n : Reachable(n)' = Reachable(n)
    BY <2>1, ReachableIsFixed DEF graph
  <2>3. CASE err' = err
    BY <2>2, <2>3 DEF RefusedOnlyIfHooksInCycle
  <2>4. ASSUME NEW m \in Comp, VisitVisiting(m), err' # err PROVE RefusedOnlyIfHooksInCycle'
    <3>1. /\ visiting # <<>> /\ m \in Top.todo \cap TempMarks
          /\ Cardinality(CycleThrough(m) \cap hooked) > 1
      BY <2>4 DEF VisitVisiting, InProgress, SeveralHooked
    <3>2. CycleThrough(m) \cap hooked \in SUBSET Comp
      BY <3>1, CycleIsACycle
    <3>3. IsFiniteSet(CycleThrough(m) \cap hooked)
      BY <3>2, DepGraphsAssumption, FS_Subset
    <3>4. PICK x \in CycleThrough(m) \cap hooked, y \in CycleThrough(m) \cap hooked : x # y
      BY <3>1, <3>3, TwoOfSeveral
    <3>5. y \in Reachable(x) /\ x \in Reachable(y)
      BY <3>1, <3>4, CycleIsACycle
    <3>6. x \in FromRoot /\ y \in FromRoot
      BY <3>1, <3>4, CycleIsACycle DEF Search, MarksAreFromRoot
    <3> QED
      BY <2>2, <3>4, <3>5, <3>6 DEF RefusedOnlyIfHooksInCycle
  <2> QED
    BY <2>3, <2>4 DEF Next, VisitMarked, VisitNew, FinishVisit, Finished, vars
<1> QED
  BY <1>1, <1>2, Inductive, SearchInit, SearchNext, PTL DEF Spec

-----------------------------------------------------------------------------
(* What a hook waits for *)

DepsTyped == hooked \in SUBSET Comp /\ transitiveLcDeps \in [Comp -> SUBSET LcNode]

\* What dependents of a component see is its own lcNodes, or the nearest ones below it.
SeenAreNearest ==
    /\ \A n \in hooked : Owners(transitiveLcDeps[n]) \subseteq {n}
    /\ \A n \in Comp \ hooked : Owners(transitiveLcDeps[n]) \subseteq NearestHooks(n)

NoneWaitsForOthers == \A lc \in sorted : Owners(lcDependsOn[lc]) \subseteq NearestHooks(Owner(lc))

OnlyBelow == DepsTyped /\ SeenAreNearest /\ NoneWaitsForOthers

LEMMA CollectedAreNearest ==
    ASSUME IInv, OnlyBelow, NEW n \in Comp
    PROVE  Owners(Collected(n)) \subseteq NearestHooks(n) /\ Collected(n) \in SUBSET LcNode
<1> DEFINE through == Comp \ hooked
<1>1. dependsOn \in [Comp -> SUBSET Comp]
  BY DEF IInv
<1>2. ASSUME NEW lc \in Collected(n) PROVE Owner(lc) \in NearestHooks(n) /\ lc \in LcNode
  <2>1. PICK d \in dependsOn[n] : lc \in transitiveLcDeps[d] /\ Owner(lc) # n
    BY <1>2 DEF Collected
  <2>2. d \in Comp /\ Owner(lc) \in Owners(transitiveLcDeps[d])
    BY <1>1, <2>1 DEF Owners
  <2>3. lc \in LcNode
    BY <2>1, <2>2 DEF OnlyBelow, DepsTyped
  <2>4. Found(n, through) = dependsOn[n] \cup UNION {Found(k, through) : k \in dependsOn[n] \cap through}
    BY <1>1, FoundByFirstStep
  <2>5. CASE d \in hooked
    <3>1. Owner(lc) = d
      BY <2>2, <2>5 DEF OnlyBelow, SeenAreNearest
    <3> QED
      BY <2>1, <2>3, <2>4, <2>5, <3>1 DEF NearestHooks
  <2>6. CASE d \notin hooked
    <3>1. Owner(lc) \in Found(d, through) \cap hooked
      BY <2>2, <2>6 DEF OnlyBelow, SeenAreNearest, NearestHooks
    <3>2. Owner(lc) \in Found(n, through)
      BY <2>1, <2>2, <2>4, <2>6, <3>1
    <3> QED
      BY <2>1, <2>3, <3>1, <3>2 DEF NearestHooks
  <2> QED
    BY <2>5, <2>6
<1> QED
  BY <1>2 DEF Owners

LEMMA OnlyBelowInit == Init => OnlyBelow
<1> SUFFICES ASSUME Init PROVE OnlyBelow
  OBVIOUS
<1>1. PICK g \in DepGraphs : root = g.root /\ dependsOn = g.dependsOn /\ hooked = g.hooked
  BY DEF Init
<1>2. hooked \in SUBSET Comp /\ transitiveLcDeps = [n \in Comp |-> {}] /\ sorted = {}
  BY <1>1, DepGraphsAssumption DEF Init
<1> QED
  BY <1>2 DEF OnlyBelow, DepsTyped, SeenAreNearest, NoneWaitsForOthers, Owners

\* An lcNode created for a component is seen by its dependents, in place of those before.
LEMMA CreationKeepsBelow ==
    ASSUME IInv, OnlyBelow, NEW n \in hooked, UNCHANGED hooked,
           transitiveLcDeps' = [transitiveLcDeps EXCEPT ![n] = {<<n, created[n]>>}],
           \A k : NearestHooks(k)' = NearestHooks(k)
    PROVE  DepsTyped' /\ SeenAreNearest'
<1>1. n \in Comp /\ <<n, created[n]>> \in LcNode
  BY DEF OnlyBelow, DepsTyped, IInv, LcNode
<1>2. DepsTyped'
  BY <1>1 DEF OnlyBelow, DepsTyped
<1>3. /\ transitiveLcDeps'[n] = {<<n, created[n]>>}
      /\ \A k \in Comp \ {n} : transitiveLcDeps'[k] = transitiveLcDeps[k]
  BY <1>1 DEF OnlyBelow, DepsTyped
<1>4. Owners(transitiveLcDeps'[n]) = {n}
  <2>1. Owner(<<n, created[n]>>) = n
    BY DEF Owner
  <2> QED
    BY <1>3, <2>1 DEF Owners
<1>5. \A k \in Comp \ {n} : Owners(transitiveLcDeps'[k]) = Owners(transitiveLcDeps[k])
  BY <1>3
<1>6. ASSUME NEW k \in hooked PROVE Owners(transitiveLcDeps'[k]) \subseteq {k}
  BY <1>4, <1>5 DEF OnlyBelow, DepsTyped, SeenAreNearest
<1>7. ASSUME NEW k \in Comp \ hooked PROVE Owners(transitiveLcDeps'[k]) \subseteq NearestHooks(k)'
  BY <1>5 DEF OnlyBelow, SeenAreNearest
<1>8. SeenAreNearest'
  BY <1>6, <1>7 DEF SeenAreNearest, Owners
<1> QED
  BY <1>2, <1>8

LEMMA VisitVisitingKeepsBelow ==
    ASSUME IInv, OnlyBelow, NEW m \in Comp, VisitVisiting(m)
    PROVE  OnlyBelow'
<1>1. UNCHANGED <<graph, sorted, lcDependsOn>>
  BY DEF VisitVisiting, SameGraph, graph
<1>2. hooked' = hooked /\ \A n : NearestHooks(n)' = NearestHooks(n)
  BY <1>1, ReachableIsFixed DEF graph
<1>3. NoneWaitsForOthers'
  BY <1>1, <1>2 DEF OnlyBelow, NoneWaitsForOthers, Owners
<1>4. DepsTyped' /\ SeenAreNearest'
  <2>1. CASE UNCHANGED transitiveLcDeps
    BY <1>2, <2>1 DEF OnlyBelow, DepsTyped, SeenAreNearest, Owners
  <2>2. CASE /\ m \in hooked
             /\ transitiveLcDeps' = [transitiveLcDeps EXCEPT ![m] = {<<m, created[m]>>}]
    BY <1>2, <2>2, CreationKeepsBelow
  <2> QED
    BY <2>1, <2>2 DEF VisitVisiting, CreateLcNode
<1> QED
  BY <1>3, <1>4 DEF OnlyBelow

LEMMA FinishVisitKeepsBelow ==
    ASSUME IInv, OnlyBelow, FinishVisit
    PROVE  OnlyBelow'
<1> DEFINE n == Top.node
<1>1. visiting # <<>> /\ visiting' = Below /\ UNCHANGED graph
  BY DEF FinishVisit, SameGraph, graph, InProgress
<1>2. hooked' = hooked /\ \A k : NearestHooks(k)' = NearestHooks(k)
  BY <1>1, ReachableIsFixed DEF graph
<1>3. n \in Comp
  BY <1>1, Popped
<1>4. Owners(Collected(n)) \subseteq NearestHooks(n) /\ Collected(n) \in SUBSET LcNode
  BY <1>3, CollectedAreNearest
<1>5. CASE n \in hooked
  <2>1. /\ sorted' = sorted \cup PickedUp(n)
        /\ lcDependsOn' = [lc \in sorted' |-> IF Owner(lc) = n THEN Collected(n) ELSE lcDependsOn[lc]]
        /\ \/ transitiveLcDeps' = [transitiveLcDeps EXCEPT ![n] = {<<n, created[n]>>}]
           \/ transitiveLcDeps' = transitiveLcDeps
    BY <1>5 DEF FinishVisit, CreateLcNode
  <2> HIDE DEF n
  <2>2. DepsTyped' /\ SeenAreNearest'
    <3>1. CASE transitiveLcDeps' = transitiveLcDeps
      BY <1>2, <3>1 DEF OnlyBelow, DepsTyped, SeenAreNearest, Owners
    <3>2. CASE transitiveLcDeps' = [transitiveLcDeps EXCEPT ![n] = {<<n, created[n]>>}]
      BY <1>2, <1>5, <3>2, CreationKeepsBelow
    <3> QED
      BY <2>1, <3>1, <3>2
  <2>3. ASSUME NEW lc \in sorted' PROVE Owners(lcDependsOn'[lc]) \subseteq NearestHooks(Owner(lc))
    <3>1. CASE Owner(lc) = n
      BY <1>4, <2>1, <3>1
    <3>2. CASE Owner(lc) # n
      <4>1. lc \in sorted
        BY <1>3, <2>1, <3>2, PickedUpAreOwn DEF Owners
      <4> QED
        BY <2>1, <3>2, <4>1 DEF OnlyBelow, NoneWaitsForOthers
    <3> QED
      BY <3>1, <3>2
  <2>4. NoneWaitsForOthers'
    BY <1>2, <2>3 DEF NoneWaitsForOthers, Owners, Owner
  <2> QED
    BY <2>2, <2>4 DEF OnlyBelow
<1>6. CASE n \notin hooked
  <2>1. /\ UNCHANGED <<sorted, lcDependsOn>>
        /\ \/ transitiveLcDeps' = transitiveLcDeps
           \/ transitiveLcDeps' = [transitiveLcDeps EXCEPT ![n] = Collected(n)]
    BY <1>6 DEF FinishVisit
  <2> HIDE DEF n
  <2>2. NoneWaitsForOthers'
    BY <1>2, <2>1 DEF OnlyBelow, NoneWaitsForOthers, Owners
  <2>3. DepsTyped' /\ SeenAreNearest'
    <3>1. CASE transitiveLcDeps' = transitiveLcDeps
      BY <1>2, <3>1 DEF OnlyBelow, DepsTyped, SeenAreNearest, Owners
    <3>2. CASE transitiveLcDeps' = [transitiveLcDeps EXCEPT ![n] = Collected(n)]
      <4>1. DepsTyped'
        BY <1>2, <1>4, <3>2 DEF OnlyBelow, DepsTyped
      <4>2. /\ transitiveLcDeps'[n] = Collected(n)
            /\ \A k \in Comp \ {n} : transitiveLcDeps'[k] = transitiveLcDeps[k]
        BY <1>3, <3>2 DEF OnlyBelow, DepsTyped
      <4>3. ASSUME NEW k \in hooked PROVE Owners(transitiveLcDeps'[k]) \subseteq {k}
        BY <1>6, <4>2 DEF OnlyBelow, DepsTyped, SeenAreNearest
      <4>4. ASSUME NEW k \in Comp \ hooked PROVE Owners(transitiveLcDeps'[k]) \subseteq NearestHooks(k)
        BY <1>4, <4>2 DEF OnlyBelow, SeenAreNearest
      <4>5. SeenAreNearest'
        BY <1>2, <4>3, <4>4 DEF SeenAreNearest, Owners
      <4> QED
        BY <4>1, <4>5
    <3> QED
      BY <2>1, <3>1, <3>2
  <2> QED
    BY <2>2, <2>3 DEF OnlyBelow
<1> QED
  BY <1>5, <1>6

LEMMA OnlyBelowNext == IInv /\ OnlyBelow /\ [Next]_vars => OnlyBelow'
<1> SUFFICES ASSUME IInv, OnlyBelow, [Next]_vars PROVE OnlyBelow'
  OBVIOUS
<1>1. ASSUME UNCHANGED <<graph, transitiveLcDeps, sorted, lcDependsOn>> PROVE OnlyBelow'
  <2>1. hooked' = hooked /\ \A n : NearestHooks(n)' = NearestHooks(n)
    BY <1>1, ReachableIsFixed DEF graph
  <2> QED
    BY <1>1, <2>1 DEF OnlyBelow, DepsTyped, SeenAreNearest, NoneWaitsForOthers, Owners
<1>2. ASSUME NEW m \in Comp, VisitVisiting(m) PROVE OnlyBelow'
  BY <1>2, VisitVisitingKeepsBelow
<1>3. CASE FinishVisit
  BY <1>3, FinishVisitKeepsBelow
<1> QED
  BY <1>1, <1>2, <1>3 DEF Next, VisitMarked, VisitNew, Finished, SameGraph, graph, vars

-----------------------------------------------------------------------------
(* Where no component in between is in a cycle, nothing is missing either *)

\* As long as there is no error: of the hooks that a hook being visited depends on, those
\* crossed off are visited, or are being visited further up the stack.
HooksAreVisited ==
    ~err => \A i \in DOMAIN visiting :
        visiting[i].node \in hooked =>
            \A d \in (dependsOn[visiting[i].node] \ visiting[i].todo) \cap hooked :
                \/ d = visiting[i].node \/ d \in permMarks
                \/ \E j \in DOMAIN visiting : i < j /\ visiting[j].node = d

LEMMA HooksAreVisitedInit == Init => HooksAreVisited
<1> SUFFICES ASSUME Init PROVE HooksAreVisited
  OBVIOUS
<1>1. DOMAIN visiting = {1} /\ visiting[1].todo = dependsOn[visiting[1].node]
  BY DEF Init, Visit
<1> QED
  BY <1>1 DEF HooksAreVisited

\* Two hooks of a cycle are an error.
LEMMA SecondHookIsRefused ==
    ASSUME IInv, Search, NEW m \in hooked, VisitVisiting(m), Top.node \in hooked, Top.node # m
    PROVE  err'
<1>1. visiting # <<>> /\ m \in Top.todo \cap TempMarks
  BY DEF VisitVisiting, InProgress
<1>2. /\ CycleThrough(m) \in SUBSET Comp
      /\ m \in CycleThrough(m) /\ Top.node \in CycleThrough(m)
  BY <1>1, CycleIsACycle
<1> DEFINE S == CycleThrough(m) \cap hooked
<1>3. IsFiniteSet(S)
  BY <1>2, DepGraphsAssumption, FS_Subset
<1>4. m \in S /\ Top.node \in S
  BY <1>2
<1>5. SeveralHooked(CycleThrough(m))
  <2> SUFFICES Cardinality(S) > 1
    BY DEF SeveralHooked
  <2> HIDE DEF S
  <2>1. Cardinality(S) \in Nat
    BY <1>3, FS_CardinalityType
  <2>2. Cardinality(S) # 0
    BY <1>3, <1>4, FS_EmptySet
  <2>3. Cardinality(S) # 1
    BY <1>3, <1>4, FS_Singleton
  <2> QED
    BY <2>1, <2>2, <2>3
<1> QED
  BY <1>5 DEF VisitVisiting

LEMMA HooksAreVisitedNext == IInv /\ Search /\ HooksAreVisited /\ [Next]_vars => HooksAreVisited'
<1> SUFFICES ASSUME IInv, Search, HooksAreVisited, [Next]_vars, ~err' PROVE HooksAreVisited'
  BY DEF HooksAreVisited
<1>1. UNCHANGED graph
  BY DEF Next, VisitMarked, VisitNew, VisitVisiting, FinishVisit, Finished, SameGraph, graph, vars
<1>2. dependsOn' = dependsOn /\ hooked' = hooked
  BY <1>1 DEF graph
<1>3. ASSUME NEW m \in Comp, VisitMarked(m) \/ VisitVisiting(m) PROVE HooksAreVisited'
  <2>1. /\ visiting # <<>> /\ visiting' = Visited(m) /\ ~err /\ UNCHANGED permMarks
    BY <1>3 DEF VisitMarked, VisitVisiting, InProgress
  <2>2. /\ Len(visiting) \in DOMAIN visiting /\ DOMAIN visiting' = DOMAIN visiting
        /\ \A i \in DOMAIN visiting :
              /\ visiting'[i].node = visiting[i].node
              /\ i # Len(visiting) => visiting'[i].todo = visiting[i].todo
              /\ i = Len(visiting) => visiting'[i].todo = visiting[i].todo \ {m}
    BY <2>1, CrossedOff
  <2>3. m \in hooked /\ Top.node \in hooked => m = Top.node \/ m \in permMarks
    BY <1>3, SecondHookIsRefused DEF VisitMarked
  <2> SUFFICES ASSUME NEW i \in DOMAIN visiting, visiting[i].node \in hooked,
                      NEW d \in (dependsOn[visiting[i].node] \ visiting'[i].todo) \cap hooked
               PROVE  \/ d = visiting[i].node \/ d \in permMarks
                      \/ \E j \in DOMAIN visiting : i < j /\ visiting[j].node = d
    BY <1>2, <2>1, <2>2 DEF HooksAreVisited
  <2>4. CASE d \notin visiting[i].todo
    BY <2>1, <2>4 DEF HooksAreVisited
  <2>5. CASE d \in visiting[i].todo
    <3>1. i = Len(visiting) /\ d = m
      BY <2>2, <2>5
    <3> QED
      BY <2>3, <3>1 DEF Top
  <2> QED
    BY <2>4, <2>5
<1>4. ASSUME NEW m \in Comp, VisitNew(m) PROVE HooksAreVisited'
  <2>1. /\ visiting # <<>> /\ visiting' = Append(Visited(m), Visit(m)) /\ ~err
        /\ UNCHANGED permMarks
    BY <1>4 DEF VisitNew, InProgress
  <2> DEFINE n == Len(visiting)
  <2>2. /\ n \in Nat \ {0} /\ DOMAIN visiting = 1 .. n /\ DOMAIN visiting' = 1 .. n + 1
        /\ visiting'[n + 1] = Visit(m)
        /\ \A i \in DOMAIN visiting :
              /\ visiting'[i].node = visiting[i].node
              /\ i # n => visiting'[i].todo = visiting[i].todo
              /\ i = n => visiting'[i].todo = visiting[i].todo \ {m}
    BY <2>1, Pushed
  <2>3. visiting'[n + 1].node = m /\ visiting'[n + 1].todo = dependsOn[m]
    BY <2>2 DEF Visit
  <2> HIDE DEF n
  <2> SUFFICES ASSUME NEW i \in DOMAIN visiting', visiting'[i].node \in hooked,
                      NEW d \in (dependsOn[visiting'[i].node] \ visiting'[i].todo) \cap hooked
               PROVE  \/ d = visiting'[i].node \/ d \in permMarks
                      \/ \E j \in DOMAIN visiting' : i < j /\ visiting'[j].node = d
    BY <1>2, <2>1 DEF HooksAreVisited
  <2>4. i \in DOMAIN visiting /\ i < n + 1
    BY <2>2, <2>3
  <2>5. CASE d \notin visiting[i].todo
    <3>1. \/ d = visiting[i].node \/ d \in permMarks
          \/ \E j \in DOMAIN visiting : i < j /\ visiting[j].node = d
      BY <2>1, <2>2, <2>4, <2>5 DEF HooksAreVisited
    <3>2. \A j \in DOMAIN visiting : j \in DOMAIN visiting'
      BY <2>2
    <3> QED
      BY <2>2, <2>4, <3>1, <3>2
  <2>6. CASE d \in visiting[i].todo
    <3>1. d = m
      BY <2>2, <2>4, <2>6
    <3>2. n + 1 \in DOMAIN visiting'
      BY <2>2
    <3> QED
      BY <2>3, <2>4, <3>1, <3>2
  <2> QED
    BY <2>5, <2>6
<1>5. CASE FinishVisit
  <2> DEFINE n == Top.node
  <2>1. visiting # <<>> /\ visiting' = Below /\ permMarks' = permMarks \cup {n} /\ ~err
    BY <1>5 DEF FinishVisit, InProgress
  <2>2. /\ Len(visiting) \in Nat \ {0} /\ DOMAIN visiting = 1 .. Len(visiting)
        /\ DOMAIN visiting' = 1 .. Len(visiting) - 1
        /\ \A i \in DOMAIN visiting' : i \in DOMAIN visiting /\ visiting'[i] = visiting[i]
        /\ Top = visiting[Len(visiting)]
    BY <2>1, Popped
  <2> HIDE DEF n
  <2> SUFFICES ASSUME NEW i \in DOMAIN visiting', visiting[i].node \in hooked,
                      NEW d \in (dependsOn[visiting[i].node] \ visiting[i].todo) \cap hooked
               PROVE  \/ d = visiting[i].node \/ d \in permMarks'
                      \/ \E j \in DOMAIN visiting' : i < j /\ visiting[j].node = d
    BY <1>2, <2>2 DEF HooksAreVisited
  <2>3. \/ d = visiting[i].node \/ d \in permMarks
        \/ \E j \in DOMAIN visiting : i < j /\ visiting[j].node = d
    BY <2>1, <2>2 DEF HooksAreVisited
  <2>4. ASSUME NEW j \in DOMAIN visiting, i < j, visiting[j].node = d
        PROVE  d \in permMarks' \/ \E k \in DOMAIN visiting' : i < k /\ visiting[k].node = d
    <3>1. CASE j = Len(visiting)
      BY <2>1, <2>2, <2>4, <3>1 DEF n
    <3>2. CASE j # Len(visiting)
      <4>1. j \in DOMAIN visiting'
        BY <2>2, <3>2
      <4> QED
        BY <2>4, <4>1
    <3> QED
      BY <3>1, <3>2
  <2> QED
    BY <2>1, <2>3, <2>4
<1>6. CASE UNCHANGED vars
  BY <1>6 DEF vars, graph, HooksAreVisited
<1> QED
  BY <1>3, <1>4, <1>5, <1>6 DEF Next, Finished

\* A component is complete when the nearest hooks below it are visited, and `lcs` stands for them.
Complete(n, lcs) == lcs = NearestLcNodes(n) /\ NearestHooks(n) \subseteq permMarks

EarlyAreSeen == \A n \in Comp : preCreatedLcNodes[n] # {} => transitiveLcDeps[n] = preCreatedLcNodes[n]

OwnAreSeen ==
    /\ \A n \in permMarks \cap hooked : transitiveLcDeps[n] = {lc \in sorted : Owner(lc) = n}
    /\ \A n \in Comp \ (permMarks \cup hooked) : transitiveLcDeps[n] = {}

LocallyExact ==
    /\ EarlyAreSeen /\ OwnAreSeen
    /\ \A n \in permMarks \ hooked :
          n \notin Reachable(n) /\ NoCycleBetween(n) => Complete(n, transitiveLcDeps[n])
    /\ \A lc \in sorted : NoCycleBetween(Owner(lc)) => Complete(Owner(lc), lcDependsOn[lc])

LEMMA LocallyExactInit == Init => LocallyExact
BY DEF Init, LocallyExact, EarlyAreSeen, OwnAreSeen

\* A visit that is over, of a component that is in no cycle or has hooks, has its
\* dependencies visited: those without hooks because they are in no cycle, those with
\* because two of them in a cycle are an error.
LEMMA DependenciesAreVisited ==
    ASSUME IInv, Search, HooksAreVisited, FinishVisit, NoCycleBetween(Top.node),
           Top.node \in hooked \/ Top.node \notin Reachable(Top.node),
           NEW d \in dependsOn[Top.node], d # Top.node
    PROVE  d \in permMarks
<1> DEFINE n == Top.node
<1>1. visiting # <<>> /\ ~err /\ Top.todo = {}
  BY DEF FinishVisit, InProgress
<1>2. /\ DOMAIN visiting = 1 .. Len(visiting) /\ Len(visiting) \in Nat \ {0}
      /\ Len(visiting) \in DOMAIN visiting /\ Top = visiting[Len(visiting)] /\ n \in Comp
  <2>1. visiting \in Seq(Visits)
    BY DEF IInv, StackTyped, Visits
  <2> QED
    BY <1>1, <2>1, BelowMovesNone DEF Top, Visits
<1>3. dependsOn \in [Comp -> SUBSET Comp] /\ d \in Comp
  BY <1>2 DEF IInv
<1>4. d \in permMarks \cup TempMarks
  BY <1>1, <1>2 DEF Search, VisitsGoOn
<1> SUFFICES ASSUME d \in TempMarks, d \notin permMarks PROVE FALSE
  BY <1>4
<1>5. PICK i \in DOMAIN visiting : d = visiting[i].node
  BY DEF TempMarks
<1>6. i < Len(visiting)
  BY <1>2, <1>5
<1>7. n \in Reachable(d)
  BY <1>2, <1>5, <1>6 DEF Search, StackIsAPath
<1>8. n \in Reachable(n) /\ d \in Reachable(d)
  BY <1>2, <1>3, <1>7, ReachableThrough
<1>9. d \in hooked
  <2>1. d \in Found(n, Comp \ hooked)
    BY <1>2, <1>3, FoundByFirstStep
  <2> QED
    BY <1>8, <2>1 DEF NoCycleBetween, Between
<1>10. n \in hooked
  BY <1>8
<1>11. \E j \in DOMAIN visiting : Len(visiting) < j
  BY <1>1, <1>2, <1>9, <1>10 DEF HooksAreVisited
<1> QED
  BY <1>2, <1>11

\* What is between a dependency without hooks and the nearest hooks below it is between
\* its dependents and theirs.
LEMMA NoCycleBelowBetween ==
    ASSUME dependsOn \in [Comp -> SUBSET Comp], NEW n \in Comp, NoCycleBetween(n),
           NEW d \in dependsOn[n] \ hooked
    PROVE  d \notin Reachable(d) /\ NoCycleBetween(d)
<1>1. Found(n, Comp \ hooked) = dependsOn[n] \cup UNION {Found(k, Comp \ hooked) : k \in dependsOn[n] \cap (Comp \ hooked)}
  BY FoundByFirstStep
<1>2. d \in Between(n) /\ Between(d) \subseteq Between(n)
  BY <1>1 DEF Between
<1> QED
  BY <1>2 DEF NoCycleBetween

LEMMA FinishedIsComplete ==
    ASSUME IInv, Search, OnlyBelow, HooksAreVisited, LocallyExact, FinishVisit,
           NoCycleBetween(Top.node), Top.node \in hooked \/ Top.node \notin Reachable(Top.node)
    PROVE  Complete(Top.node, Collected(Top.node))
<1>1. Top.node \in Comp /\ visiting # <<>>
  BY Popped DEF FinishVisit, InProgress
<1>2. \A d \in dependsOn[Top.node] : d # Top.node => d \in permMarks
  BY DependenciesAreVisited
<1>3. PICK n \in Comp : n = Top.node
  BY <1>1
<1> DEFINE through == Comp \ hooked
<1>4. dependsOn \in [Comp -> SUBSET Comp]
  BY DEF IInv
<1>5. Found(n, through) = dependsOn[n] \cup UNION {Found(k, through) : k \in dependsOn[n] \cap through}
  BY <1>4, FoundByFirstStep
<1>6. ASSUME NEW d \in dependsOn[n] \cap through
      PROVE  Complete(d, transitiveLcDeps[d])
  <2>1. d \notin Reachable(d) /\ NoCycleBetween(d)
    BY <1>3, <1>4, <1>6, NoCycleBelowBetween
  <2>2. d # n
    BY <1>3, <1>4, <1>6, <2>1, ReachableThrough
  <2>3. d \in permMarks \ hooked
    BY <1>2, <1>3, <1>6, <2>2
  <2> QED
    BY <2>1, <2>3 DEF LocallyExact
<1>7. ASSUME NEW d \in dependsOn[n] \cap hooked, d # n
      PROVE  d \in permMarks /\ transitiveLcDeps[d] = {lc \in sorted : Owner(lc) = d}
  BY <1>2, <1>3, <1>7 DEF LocallyExact, OwnAreSeen
<1>8. NearestHooks(n) \subseteq permMarks
  <2> SUFFICES ASSUME NEW x \in Found(n, through) \cap hooked, x # n PROVE x \in permMarks
    BY DEF NearestHooks
  <2>1. CASE x \in dependsOn[n]
    BY <1>7, <2>1
  <2>2. ASSUME NEW d \in dependsOn[n] \cap through, x \in Found(d, through) PROVE x \in permMarks
    BY <1>6, <2>2 DEF Complete, NearestHooks
  <2> QED
    BY <1>5, <2>1, <2>2
<1>9. ASSUME NEW lc \in Collected(n) PROVE lc \in NearestLcNodes(n)
  <2>1. PICK d \in dependsOn[n] : lc \in transitiveLcDeps[d] /\ Owner(lc) # n
    BY <1>9 DEF Collected
  <2>2. d \in Comp
    BY <1>4, <2>1
  <2>3. lc \in sorted
    <3>1. CASE d \notin hooked
      BY <1>6, <2>1, <2>2, <3>1 DEF Complete, NearestLcNodes
    <3>2. CASE d \in hooked
      <4>1. Owner(lc) = d
        BY <2>1, <3>2 DEF OnlyBelow, SeenAreNearest, Owners
      <4> QED
        BY <1>7, <2>1, <3>2, <4>1
    <3> QED
      BY <3>1, <3>2
  <2>4. Owner(lc) \in NearestHooks(n)
    BY <1>9, CollectedAreNearest DEF Owners
  <2> QED
    BY <2>3, <2>4 DEF NearestLcNodes
<1>10. ASSUME NEW lc \in NearestLcNodes(n) PROVE lc \in Collected(n)
  <2>1. lc \in sorted /\ Owner(lc) \in Found(n, through) /\ Owner(lc) \in hooked /\ Owner(lc) # n
    BY <1>10 DEF NearestLcNodes, NearestHooks
  <2>2. CASE Owner(lc) \in dependsOn[n]
    BY <1>7, <2>1, <2>2 DEF Collected
  <2>3. ASSUME NEW d \in dependsOn[n] \cap through, Owner(lc) \in Found(d, through)
        PROVE  lc \in Collected(n)
    <3>1. Owner(lc) \in NearestHooks(d)
      BY <2>1, <2>3 DEF NearestHooks
    <3>2. lc \in transitiveLcDeps[d]
      BY <1>6, <2>1, <2>3, <3>1 DEF Complete, NearestLcNodes
    <3> QED
      BY <2>1, <2>3, <3>2 DEF Collected
  <2> QED
    BY <1>5, <2>1, <2>2, <2>3
<1>11. Collected(n) = NearestLcNodes(n)
  BY <1>9, <1>10
<1> QED
  BY <1>3, <1>8, <1>11 DEF Complete

\* What is complete stays so: the hooks put into the list later are of other components.
LEMMA CompleteStays ==
    ASSUME UNCHANGED graph, permMarks \subseteq permMarks', NEW new, sorted' = sorted \cup new,
           Owners(new) \cap permMarks = {}, NEW k, NEW lcs, Complete(k, lcs)
    PROVE  lcs = NearestLcNodes(k)' /\ NearestHooks(k)' \subseteq permMarks'
<1>1. NearestHooks(k)' = NearestHooks(k)
  BY ReachableIsFixed
<1>2. NearestLcNodes(k)' = {lc \in sorted' : Owner(lc) \in NearestHooks(k)'}
  BY DEF NearestLcNodes, Owner
<1>3. \A lc \in new : Owner(lc) \notin NearestHooks(k)
  BY DEF Complete, Owners
<1> QED
  BY <1>1, <1>2, <1>3 DEF Complete, NearestLcNodes

\* Steps that put nothing into the list and end no visit.
LEMMA SearchingKeepsLocallyExact ==
    ASSUME IInv, OnlyBelow, LocallyExact, UNCHANGED <<graph, permMarks, sorted, lcDependsOn>>,
           EarlyAreSeen', OwnAreSeen', \A n \in permMarks \ hooked : transitiveLcDeps'[n] = transitiveLcDeps[n]
    PROVE  LocallyExact'
<1>1. hooked' = hooked /\ \A n : Reachable(n)' = Reachable(n) /\ NoCycleBetween(n)' = NoCycleBetween(n)
  BY ReachableIsFixed DEF graph
<1>2. \A k, lcs : Complete(k, lcs) => lcs = NearestLcNodes(k)' /\ NearestHooks(k)' \subseteq permMarks'
  <2> TAKE k, lcs
  <2>1. sorted' = sorted \cup {} /\ Owners({}) \cap permMarks = {} /\ permMarks \subseteq permMarks'
    BY DEF Owners
  <2> QED
    BY <2>1, CompleteStays
<1>3. ASSUME NEW n \in permMarks \ hooked, n \notin Reachable(n), NoCycleBetween(n)
      PROVE  Complete(n, transitiveLcDeps[n])'
  <2>1. Complete(n, transitiveLcDeps[n])
    BY <1>3 DEF LocallyExact
  <2> QED
    BY <1>2, <1>3, <2>1 DEF Complete
<1>4. ASSUME NEW lc \in sorted, NoCycleBetween(Owner(lc)) PROVE Complete(Owner(lc), lcDependsOn[lc])'
  <2>1. Complete(Owner(lc), lcDependsOn[lc])
    BY <1>4 DEF LocallyExact
  <2>2. lcDependsOn'[lc] = lcDependsOn[lc]
    OBVIOUS
  <2> QED
    BY <1>2, <2>1, <2>2 DEF Complete, Owner
<1>5. ASSUME NEW n \in permMarks' \ hooked', (n \notin Reachable(n))', NoCycleBetween(n)'
      PROVE  Complete(n, transitiveLcDeps[n])'
  BY <1>1, <1>3, <1>5
<1>6. ASSUME NEW lc \in sorted', NoCycleBetween(Owner(lc))' PROVE Complete(Owner(lc), lcDependsOn[lc])'
  <2>1. NoCycleBetween(Owner(lc))
    BY <1>1, <1>6 DEF Owner
  <2> QED
    BY <1>4, <2>1
<1> QED
  BY <1>5, <1>6 DEF LocallyExact

LEMMA VisitVisitingKeepsLocallyExact ==
    ASSUME IInv, Search, OnlyBelow, LocallyExact, NEW m \in Comp, VisitVisiting(m)
    PROVE  LocallyExact'
<1>1. /\ UNCHANGED <<graph, permMarks, sorted, lcDependsOn>> /\ hooked' = hooked
      /\ m \in TempMarks
  BY DEF VisitVisiting, SameGraph, graph
<1>2. m \notin permMarks
  BY <1>1, SMTT(30) DEF IInv, MarkedAreNotVisiting
<1>3. CASE UNCHANGED <<preCreatedLcNodes, transitiveLcDeps>>
  <2>1. EarlyAreSeen' /\ OwnAreSeen'
    BY <1>1, <1>3 DEF LocallyExact, EarlyAreSeen, OwnAreSeen, Owner
  <2> QED
    BY <1>1, <1>3, <2>1, SearchingKeepsLocallyExact
<1>4. CASE /\ m \in hooked
           /\ transitiveLcDeps' = [transitiveLcDeps EXCEPT ![m] = {<<m, created[m]>>}]
           /\ preCreatedLcNodes' = [preCreatedLcNodes EXCEPT ![m] = {<<m, created[m]>>}]
  <2>1. /\ transitiveLcDeps'[m] = preCreatedLcNodes'[m]
        /\ \A k \in Comp \ {m} : /\ transitiveLcDeps'[k] = transitiveLcDeps[k]
                                 /\ preCreatedLcNodes'[k] = preCreatedLcNodes[k]
    BY <1>4 DEF OnlyBelow, DepsTyped, IInv
  <2>2. permMarks \in SUBSET Comp
    BY DEF Search, MarksAreFromRoot
  <2>3. EarlyAreSeen'
    BY <2>1 DEF LocallyExact, EarlyAreSeen
  <2>4. OwnAreSeen'
    <3>1. \A n \in permMarks \cap hooked : transitiveLcDeps'[n] = {lc \in sorted : Owner(lc) = n}
      BY <1>2, <2>1, <2>2 DEF LocallyExact, OwnAreSeen
    <3>2. \A n \in Comp \ (permMarks \cup hooked) : transitiveLcDeps'[n] = {}
      BY <1>4, <2>1 DEF LocallyExact, OwnAreSeen
    <3> QED
      BY <1>1, <3>1, <3>2 DEF OwnAreSeen, Owner
  <2>5. \A n \in permMarks \ hooked : transitiveLcDeps'[n] = transitiveLcDeps[n]
    BY <1>2, <2>1, <2>2
  <2> QED
    BY <1>1, <2>3, <2>4, <2>5, SearchingKeepsLocallyExact
<1> QED
  BY <1>3, <1>4 DEF VisitVisiting, CreateLcNode

\* The lcNodes of a component with hooks get into the list with what was collected.
LEMMA FinishHookedKeepsLocallyExact ==
    ASSUME IInv, Search, OnlyBelow, HooksAreVisited, LocallyExact, FinishVisit, Top.node \in hooked
    PROVE  LocallyExact'
<1>1. PICK n \in Comp : n = Top.node
  BY Popped DEF FinishVisit, InProgress
<1> DEFINE new == <<n, created[n]>>
<1>2. /\ visiting # <<>> /\ permMarks' = permMarks \cup {n} /\ UNCHANGED graph
      /\ preCreatedLcNodes' = LeftPreCreated(n) /\ sorted' = sorted \cup PickedUp(n)
      /\ lcDependsOn' = [lc \in sorted' |-> IF Owner(lc) = n THEN Collected(n) ELSE lcDependsOn[lc]]
      /\ preCreatedLcNodes[n] = {} => transitiveLcDeps' = [transitiveLcDeps EXCEPT ![n] = {new}]
      /\ preCreatedLcNodes[n] # {} => transitiveLcDeps' = transitiveLcDeps
      /\ visiting' = Below
  BY <1>1 DEF FinishVisit, SameGraph, graph, InProgress, CreateLcNode
<1>3. n \notin permMarks /\ n \in hooked /\ permMarks \in SUBSET Comp
  BY <1>1, <1>2, Popped DEF Search, MarksAreFromRoot
<1>4. hooked' = hooked /\ \A k : Reachable(k)' = Reachable(k) /\ NoCycleBetween(k)' = NoCycleBetween(k)
  BY <1>2, ReachableIsFixed DEF graph
<1>5. Owners(PickedUp(n)) = {n}
  BY PickedUpAreOwn
<1>6. /\ transitiveLcDeps'[n] = PickedUp(n)
      /\ \A k \in Comp \ {n} : transitiveLcDeps'[k] = transitiveLcDeps[k]
  <2>1. CASE preCreatedLcNodes[n] = {}
    BY <1>2, <2>1 DEF PickedUp, OnlyBelow, DepsTyped
  <2>2. CASE preCreatedLcNodes[n] # {}
    BY <1>2, <2>2 DEF PickedUp, LocallyExact, EarlyAreSeen
  <2> QED
    BY <2>1, <2>2
<1>7. NoCycleBetween(n) => Complete(n, Collected(n))
  BY <1>1, FinishedIsComplete
<1> HIDE DEF new
<1>8. \A k, lcs : Complete(k, lcs) => lcs = NearestLcNodes(k)' /\ NearestHooks(k)' \subseteq permMarks'
  <2> TAKE k, lcs
  <2>1. permMarks \subseteq permMarks' /\ Owners(PickedUp(n)) \cap permMarks = {}
    BY <1>2, <1>3, <1>5
  <2> QED
    BY <1>2, <2>1, CompleteStays
<1>9. \A lc \in sorted : Owner(lc) # n
  BY <1>3 DEF IInv, SortedAreMarked, Owners
<1>10. EarlyAreSeen'
  <2>1. preCreatedLcNodes'[n] = {} /\ \A k \in Comp \ {n} : preCreatedLcNodes'[k] = preCreatedLcNodes[k]
    BY <1>2 DEF LeftPreCreated, IInv
  <2> QED
    BY <1>6, <2>1 DEF LocallyExact, EarlyAreSeen
<1>11. OwnAreSeen'
  <2>1. \A lc \in PickedUp(n) : Owner(lc) = n
    BY <1>5 DEF Owners
  <2>2. PickedUp(n) = {lc \in sorted' : Owner(lc) = n}
    BY <1>2, <1>9, <2>1
  <2>3. ASSUME NEW k \in permMarks \cap hooked PROVE transitiveLcDeps'[k] = {lc \in sorted' : Owner(lc) = k}
    <3>1. {lc \in sorted' : Owner(lc) = k} = {lc \in sorted : Owner(lc) = k}
      BY <1>2, <1>3, <2>1
    <3>2. k \in Comp \ {n}
      BY <1>3
    <3> QED
      BY <1>6, <3>1, <3>2 DEF LocallyExact, OwnAreSeen
  <2>4. \A k \in Comp \ (permMarks' \cup hooked) : transitiveLcDeps'[k] = {}
    BY <1>2, <1>6 DEF LocallyExact, OwnAreSeen
  <2>5. \A k \in permMarks' \cap hooked : transitiveLcDeps'[k] = {lc \in sorted' : Owner(lc) = k}
    BY <1>2, <1>6, <2>2, <2>3
  <2> QED
    BY <1>4, <2>4, <2>5 DEF OwnAreSeen, Owner
<1>12. ASSUME NEW k \in permMarks' \ hooked', (k \notin Reachable(k))', NoCycleBetween(k)'
       PROVE  Complete(k, transitiveLcDeps[k])'
  <2>1. k \in permMarks \ hooked /\ k \notin Reachable(k) /\ NoCycleBetween(k)
    BY <1>2, <1>3, <1>4, <1>12
  <2>2. Complete(k, transitiveLcDeps[k])
    BY <2>1 DEF LocallyExact
  <2>3. transitiveLcDeps'[k] = transitiveLcDeps[k]
    BY <1>3, <1>6, <2>1
  <2> QED
    BY <1>8, <2>2, <2>3 DEF Complete
<1>13. ASSUME NEW lc \in sorted', NoCycleBetween(Owner(lc))' PROVE Complete(Owner(lc), lcDependsOn[lc])'
  <2>1. NoCycleBetween(Owner(lc))
    BY <1>4, <1>13 DEF Owner
  <2>2. Complete(Owner(lc), lcDependsOn'[lc])
    <3>1. CASE Owner(lc) = n
      BY <1>2, <1>7, <2>1, <3>1
    <3>2. CASE Owner(lc) # n
      <4>1. lc \in sorted
        BY <1>2, <1>5, <3>2 DEF Owners
      <4>2. lcDependsOn'[lc] = lcDependsOn[lc]
        BY <1>2, <3>2
      <4> QED
        BY <2>1, <4>1, <4>2 DEF LocallyExact
    <3> QED
      BY <3>1, <3>2
  <2> QED
    BY <1>8, <2>2 DEF Complete, Owner
<1> QED
  BY <1>10, <1>11, <1>12, <1>13 DEF LocallyExact

\* A component without hooks passes on what was collected.
LEMMA FinishOtherKeepsLocallyExact ==
    ASSUME IInv, Search, OnlyBelow, HooksAreVisited, LocallyExact, FinishVisit, Top.node \notin hooked
    PROVE  LocallyExact'
<1>1. PICK n \in Comp : n = Top.node
  BY Popped DEF FinishVisit, InProgress
<1>2. /\ visiting # <<>> /\ permMarks' = permMarks \cup {n} /\ UNCHANGED graph
      /\ UNCHANGED <<preCreatedLcNodes, sorted, lcDependsOn>> /\ visiting' = Below
      /\ transitiveLcDeps' = IF Collected(n) = {} THEN transitiveLcDeps
                             ELSE [transitiveLcDeps EXCEPT ![n] = Collected(n)]
  BY <1>1 DEF FinishVisit, SameGraph, graph, InProgress
<1>3. n \notin permMarks /\ n \notin hooked /\ permMarks \in SUBSET Comp
  BY <1>1, <1>2, Popped DEF Search, MarksAreFromRoot
<1>4. hooked' = hooked /\ \A k : Reachable(k)' = Reachable(k) /\ NoCycleBetween(k)' = NoCycleBetween(k)
  BY <1>2, ReachableIsFixed DEF graph
<1>5. transitiveLcDeps[n] = {}
  BY <1>3 DEF LocallyExact, OwnAreSeen
<1>6. /\ transitiveLcDeps'[n] = Collected(n)
      /\ \A k \in Comp \ {n} : transitiveLcDeps'[k] = transitiveLcDeps[k]
  BY <1>2, <1>5 DEF OnlyBelow, DepsTyped
<1>7. n \notin Reachable(n) /\ NoCycleBetween(n) => Complete(n, Collected(n))
  BY <1>1, FinishedIsComplete
<1>8. \A k, lcs : Complete(k, lcs) => lcs = NearestLcNodes(k)' /\ NearestHooks(k)' \subseteq permMarks'
  <2> TAKE k, lcs
  <2>1. sorted' = sorted \cup {} /\ Owners({}) \cap permMarks = {} /\ permMarks \subseteq permMarks'
    BY <1>2 DEF Owners
  <2> QED
    BY <1>2, <2>1, CompleteStays
<1>9. EarlyAreSeen'
  <2>1. preCreatedLcNodes[n] = {}
    BY <1>3 DEF IInv, EarlyAreVisiting
  <2> QED
    BY <1>2, <1>6, <2>1 DEF LocallyExact, EarlyAreSeen
<1>10. OwnAreSeen'
  <2>1. \A k \in permMarks' \cap hooked : transitiveLcDeps'[k] = {lc \in sorted : Owner(lc) = k}
    BY <1>2, <1>3, <1>6 DEF LocallyExact, OwnAreSeen
  <2>2. \A k \in Comp \ (permMarks' \cup hooked) : transitiveLcDeps'[k] = {}
    BY <1>2, <1>6 DEF LocallyExact, OwnAreSeen
  <2> QED
    BY <1>2, <1>4, <2>1, <2>2 DEF OwnAreSeen, Owner
<1>11. ASSUME NEW k \in permMarks' \ hooked', (k \notin Reachable(k))', NoCycleBetween(k)'
       PROVE  Complete(k, transitiveLcDeps[k])'
  <2>1. k \notin hooked /\ k \notin Reachable(k) /\ NoCycleBetween(k)
    BY <1>4, <1>11
  <2>2. Complete(k, transitiveLcDeps'[k])
    <3>1. CASE k = n
      BY <1>6, <1>7, <2>1, <3>1
    <3>2. CASE k # n
      <4>1. k \in permMarks \ hooked
        BY <1>2, <1>11, <2>1, <3>2
      <4>2. transitiveLcDeps'[k] = transitiveLcDeps[k]
        BY <1>3, <1>6, <3>2, <4>1
      <4> QED
        BY <2>1, <4>1, <4>2 DEF LocallyExact
    <3> QED
      BY <3>1, <3>2
  <2> QED
    BY <1>8, <2>2 DEF Complete
<1>12. ASSUME NEW lc \in sorted', NoCycleBetween(Owner(lc))' PROVE Complete(Owner(lc), lcDependsOn[lc])'
  <2>1. NoCycleBetween(Owner(lc))
    BY <1>4, <1>12 DEF Owner
  <2>2. Complete(Owner(lc), lcDependsOn'[lc])
    BY <1>2, <2>1 DEF LocallyExact
  <2> QED
    BY <1>8, <2>2 DEF Complete, Owner
<1> QED
  BY <1>9, <1>10, <1>11, <1>12 DEF LocallyExact

LEMMA LocallyExactNext ==
    IInv /\ Search /\ OnlyBelow /\ HooksAreVisited /\ LocallyExact /\ [Next]_vars => LocallyExact'
<1> SUFFICES ASSUME IInv, Search, OnlyBelow, HooksAreVisited, LocallyExact, [Next]_vars
             PROVE  LocallyExact'
  OBVIOUS
<1>1. ASSUME UNCHANGED <<graph, permMarks, preCreatedLcNodes, transitiveLcDeps, sorted, lcDependsOn>>
      PROVE  LocallyExact'
  <2>1. EarlyAreSeen' /\ OwnAreSeen'
    BY <1>1 DEF LocallyExact, EarlyAreSeen, OwnAreSeen, Owner, graph
  <2> QED
    BY <1>1, <2>1, SearchingKeepsLocallyExact
<1>2. ASSUME NEW m \in Comp, VisitVisiting(m) PROVE LocallyExact'
  BY <1>2, VisitVisitingKeepsLocallyExact
<1>3. CASE FinishVisit
  BY <1>3, FinishHookedKeepsLocallyExact, FinishOtherKeepsLocallyExact
<1> QED
  BY <1>1, <1>2, <1>3 DEF Next, VisitMarked, VisitNew, Finished, SameGraph, graph, vars

\* lc_nodes.go:97-149: at no time, with or without cycles, a hook waits for one that its
\* component does not depend on, nor for itself; and unless a component without hooks
\* between them is in a cycle, it waits for exactly the nearest hooks below it.
THEOREM DependenciesAreExact == Spec => []ExactDependencies
<1>1. IInv /\ Search /\ OnlyBelow /\ LocallyExact => ExactDependencies
  BY DEF ExactDependencies, OnlyBelow, NoneWaitsForOthers, LocallyExact, Complete
<1> QED
  BY <1>1, Inductive, SearchInit, SearchNext, OnlyBelowInit, OnlyBelowNext, HooksAreVisitedInit,
     HooksAreVisitedNext, LocallyExactInit, LocallyExactNext, PTL
     DEF Spec

-----------------------------------------------------------------------------

\* However often a cycle leads to a component, its hooks are in the graph once.
THEOREM HooksAreInOnce == Spec => []NoHookTwice
<1>1. IInv => NoHookTwice
  BY DEF IInv
<1> QED
  BY <1>1, Inductive, PTL

\* The assertion after the visit of the root (lc_nodes.go:157) holds for every graph.
THEOREM NonePreCreatedIsLeft == Spec => []PreCreatedArePickedUp
<1>1. IInv => PreCreatedArePickedUp
  BY DEF IInv, EarlyAreVisiting, PreCreatedArePickedUp, Built, TempMarks
<1> QED
  BY <1>1, Inductive, PTL
=============================================================================
