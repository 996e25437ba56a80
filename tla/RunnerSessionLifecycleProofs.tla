-------------------- MODULE RunnerSessionLifecycleProofs --------------------
(***************************************************************************)
(* The session implements Lifecycle, for every graph, if no other Runner   *)
(* runs its hooks. Lifecycle starts hooks before the shutdown and closes   *)
(* them in it; the session holds starts and closes on one agenda. SInv     *)
(* says how far the two may mix: a shutdown begins when the agenda is      *)
(* empty or all waits are over, and a wait that has not begun is ahead.    *)
(* ReadyCounted says that a hook which may start has its dependencies      *)
(* ready. Timely is what follows for the moves of a step. The same facts   *)
(* give the order of starts and the truth of readiness.                    *)
(*                                                                         *)
(* NInv adds what is still ahead of a loop that waits, so that it does not *)
(* wait for nothing: the call that returns, the shutdown after the last    *)
(* wait, the starts, the report of readiness and the closes.               *)
(***************************************************************************)
EXTENDS RunnerSessionLifecycle, RunnerSessionProofs, SequenceTheorems, WellFoundedInduction

-----------------------------------------------------------------------------
(* Starts before the shutdown, closes in it. Without components shared with  *)
(* other Runners, the agenda has no start left when a shutdown begins, and   *)
(* a close only if it has begun.                                             *)

Begun == onShutdownCalls > 0
Stopping == Begun \/ CallIs("shutDown")
AllWaited == \A n \in LcNodes : wait[n] \in Done
Unwaited(n) == start[n] \in Done /\ wait[n] = "none"
Elements(s) == {s[i] : i \in 1 .. Len(s)}
OnAgenda == Elements(agenda)
LoopsToStart == {c \in Calls : c.op \in {"startLeaves", "startDependents"}}

NothingEndsEarly ==
    \A n \in LcNodes : /\ close[n] = "none" \/ IsDone(n)
                       /\ closeCall[n] = "none"
                       /\ start[n] = "skipped" => ~HasStarter(n)
NoCloseYet == \A c \in OnAgenda : c.op = "close" => c.nodes = {}
NoStartLeft == \A c \in OnAgenda \cap LoopsToStart : \A n \in c.nodes : start[n] # "none"
OnlyClosesRemain ==
    (Begun /\ ~ShuttingDown) \/ (CallIs("shutDown") /\ Head(agenda).err = "nil") => AllWaited
WaitsAhead == \A n \in LcNodes : Unwaited(n) => Wait(n) \in OnAgenda
LateStart(n) == {<<StartDependents({}), Wait(n), CloseIfShuttingDown(n)>>, <<Wait(n), CloseIfShuttingDown(n)>>}
StartsAreWaitedFor == \A n \in LcNodes : Unwaited(n) => agenda \in LateStart(n)

SInv ==
    /\ ShuttingDown => Begun
    /\ pc = "run" => ~Begun
    /\ ~Begun => NothingEndsEarly
    /\ ~Stopping => NoCloseYet
    /\ Stopping => NoStartLeft /\ StartsAreWaitedFor
    /\ OnlyClosesRemain
    /\ WaitsAhead

\* Each ready dependency is counted once, or its count is still to be made.
Names(c, n) == c.op = "startDependents" /\ n \in c.nodes
Below(s, n) == {j \in 0 .. Len(s) - 1 : Names(s[Len(s) - j], n)}
ReadyDeps(n) == {d \in dependsOn[n] : start[d] \in Done /\ startCall[d] # "failed"}
ReadyCounted == \A n \in LcNodes : readyDeps[n] + Cardinality(Below(agenda, n)) <= Cardinality(ReadyDeps(n))

-----------------------------------------------------------------------------
(* Agendas *)

LEMMA InFront ==
  ASSUME NEW S, NEW s \in Seq(S), NEW a \in S
  PROVE  /\ Len(s) \in Nat /\ Len(<<a>> \o s) = Len(s) + 1 /\ (<<a>> \o s)[1] = a
         /\ \A i \in 1 .. Len(s) : (<<a>> \o s)[i + 1] = s[i]
<1>1. <<a>> \in Seq(S) /\ Len(<<a>>) = 1 /\ <<a>>[1] = a /\ Len(s) \in Nat
  OBVIOUS
<1>2. /\ Len(<<a>> \o s) = 1 + Len(s)
      /\ \A i \in 1 .. 1 + Len(s) : (<<a>> \o s)[i] = IF i <= 1 THEN <<a>>[i] ELSE s[i - 1]
  BY <1>1, ConcatProperties
<1>3. (<<a>> \o s)[1] = a
  BY <1>1, <1>2
<1>4. ASSUME NEW i \in 1 .. Len(s)
      PROVE  (<<a>> \o s)[i + 1] = s[i]
  <2>1. i + 1 \in 1 .. 1 + Len(s) /\ ~(i + 1 <= 1) /\ (i + 1) - 1 = i
    BY <1>1
  <2> QED
    BY <1>2, <2>1
<1> QED
  BY <1>1, <1>2, <1>3, <1>4

LEMMA TwoInFront ==
  ASSUME NEW S, NEW s \in Seq(S), NEW a \in S, NEW b \in S
  PROVE  <<b>> \o s \in Seq(S) /\ <<a, b>> \o s = <<a>> \o (<<b>> \o s)
<1>1. /\ <<a>> \in Seq(S) /\ <<b>> \in Seq(S) /\ <<a, b>> \in Seq(S)
      /\ Len(<<a>>) = 1 /\ Len(<<b>>) = 1 /\ Len(<<a, b>>) = 2
      /\ <<a>>[1] = a /\ <<b>>[1] = b /\ <<a, b>>[1] = a /\ <<a, b>>[2] = b
  OBVIOUS
<1>2. /\ <<a>> \o <<b>> \in Seq(S) /\ Len(<<a>> \o <<b>>) = 2
      /\ \A i \in 1 .. 2 : (<<a>> \o <<b>>)[i] = IF i <= 1 THEN <<a>>[i] ELSE <<b>>[i - 1]
  BY <1>1, ConcatProperties
<1>3. \A i \in 1 .. 2 : (<<a>> \o <<b>>)[i] = <<a, b>>[i]
  BY <1>1, <1>2
<1>4. <<a, b>> = <<a>> \o <<b>>
  BY <1>1, <1>2, <1>3, SeqEqual
<1> QED
  BY <1>1, <1>4, ConcatAssociative, ConcatProperties

LEMMA ElementsOfOne ==
  ASSUME NEW S, NEW s \in Seq(S), NEW a \in S
  PROVE  Elements(<<a>> \o s) = {a} \cup Elements(s)
<1> DEFINE at == <<a>> \o s
<1>1. Len(at) = Len(s) + 1 /\ at[1] = a /\ \A i \in 1 .. Len(s) : at[i + 1] = s[i]
  BY InFront
<1>2. Len(s) \in Nat
  OBVIOUS
<1> HIDE DEF at
<1>3. \A i \in 1 .. Len(at) : i = 1 \/ (i - 1 \in 1 .. Len(s) /\ at[i] = s[i - 1])
  BY <1>1, <1>2
<1>4. 1 \in 1 .. Len(at) /\ \A i \in 1 .. Len(s) : i + 1 \in 1 .. Len(at)
  BY <1>1, <1>2
<1>5. Elements(at) \subseteq {a} \cup Elements(s)
  BY <1>1, <1>3 DEF Elements
<1>6. {a} \cup Elements(s) \subseteq Elements(at)
  BY <1>1, <1>4 DEF Elements
<1> QED
  BY <1>5, <1>6 DEF at

LEMMA ElementsOfJoin ==
  ASSUME NEW S, NEW s \in Seq(S)
  PROVE  /\ Elements(<<>>) = {} /\ Elements(<<>> \o s) = Elements(s)
         /\ \A a \in S : Elements(<<a>> \o s) = {a} \cup Elements(s)
         /\ \A a, b \in S : Elements(<<a, b>> \o s) = {a, b} \cup Elements(s)
         /\ \A a, b, c \in S : Elements(<<a, b, c>> \o s) = {a, b, c} \cup Elements(s)
<1>2. ASSUME NEW a \in S, NEW b \in S
      PROVE  Elements(<<a, b>> \o s) = {a, b} \cup Elements(s)
  <2>1. <<b>> \o s \in Seq(S) /\ <<a, b>> \o s = <<a>> \o (<<b>> \o s)
    BY TwoInFront
  <2>2. Elements(<<a>> \o (<<b>> \o s)) = {a} \cup Elements(<<b>> \o s) /\ Elements(<<b>> \o s) = {b} \cup Elements(s)
    BY <2>1, ElementsOfOne
  <2>3. Elements(<<a, b>> \o s) = {a} \cup ({b} \cup Elements(s))
    BY <2>1, <2>2
  <2> QED
    BY <2>3
<1>3. ASSUME NEW a \in S, NEW b \in S, NEW c \in S
      PROVE  Elements(<<a, b, c>> \o s) = {a, b, c} \cup Elements(s)
  <2>1. <<b, c>> \o s \in Seq(S) /\ <<a, b, c>> \o s = <<a>> \o (<<b, c>> \o s)
    OBVIOUS
  <2>2. Elements(<<a>> \o (<<b, c>> \o s)) = {a} \cup Elements(<<b, c>> \o s)
    BY <2>1, ElementsOfOne
  <2>3. Elements(<<a, b, c>> \o s) = {a} \cup ({b, c} \cup Elements(s))
    BY <1>2, <2>1, <2>2
  <2> QED
    BY <2>3
<1>4. Elements(<<>>) = {} /\ Elements(<<>> \o s) = Elements(s)
  <2>1. <<>> \o s = s /\ 1 .. Len(<<>>) = {}
    OBVIOUS
  <2> QED
    BY <2>1 DEF Elements
<1>5. \A a \in S : Elements(<<a>> \o s) = {a} \cup Elements(s)
  BY ElementsOfOne
<1> QED
  BY <1>2, <1>3, <1>4, <1>5

LEMMA ElementsOfTail ==
  ASSUME NEW S, NEW s \in Seq(S), s # <<>>
  PROVE  Elements(s) = {Head(s)} \cup Elements(Tail(s)) /\ s = <<Head(s)>> \o Tail(s)
<1>1. Head(s) \in S /\ Tail(s) \in Seq(S) /\ s = <<Head(s)>> \o Tail(s)
  OBVIOUS
<1>2. Elements(<<Head(s)>> \o Tail(s)) = {Head(s)} \cup Elements(Tail(s))
  BY <1>1, ElementsOfOne
<1> QED
  BY <1>1, <1>2

LEMMA BelowFinite ==
  ASSUME NEW S, NEW s \in Seq(S), NEW n
  PROVE  IsFiniteSet(Below(s, n)) /\ Cardinality(Below(s, n)) \in Nat
<1>1. Below(s, n) \subseteq 0 .. Len(s) - 1
  BY DEF Below
<1>2. IsFiniteSet(0 .. Len(s) - 1)
  BY FS_Interval, Len(s) \in Nat
<1>3. IsFiniteSet(Below(s, n))
  BY <1>1, <1>2, FS_Subset
<1> QED
  BY <1>3, FS_CardinalityType

LEMMA BelowJoin ==
  ASSUME NEW S, NEW s \in Seq(S), NEW a \in S, NEW n
  PROVE  Cardinality(Below(<<a>> \o s, n)) = Cardinality(Below(s, n)) + (IF Names(a, n) THEN 1 ELSE 0)
<1> DEFINE at == <<a>> \o s
<1>1. Len(s) \in Nat /\ Len(at) = Len(s) + 1 /\ at[1] = a /\ \A i \in 1 .. Len(s) : at[i + 1] = s[i]
  BY InFront
<1> HIDE DEF at
<1>2. \A j \in 0 .. Len(s) - 1 : Len(s) - j \in 1 .. Len(s) /\ Len(at) - j = (Len(s) - j) + 1
  BY <1>1
<1>3. \A j \in 0 .. Len(s) - 1 : at[Len(at) - j] = s[Len(s) - j]
  BY <1>1, <1>2
<1>4. 0 .. Len(at) - 1 = (0 .. Len(s) - 1) \cup {Len(s)} /\ Len(at) - Len(s) = 1
  BY <1>1
<1>5. Below(at, n) = Below(s, n) \cup (IF Names(a, n) THEN {Len(s)} ELSE {})
  BY <1>1, <1>3, <1>4 DEF Below
<1>6. Len(s) \notin Below(s, n)
  BY <1>1 DEF Below
<1>7. IsFiniteSet(Below(s, n)) /\ Cardinality(Below(s, n)) \in Nat
  BY BelowFinite
<1>8. CASE Names(a, n)
  <2>1. Below(at, n) = Below(s, n) \cup {Len(s)}
    BY <1>5, <1>8
  <2>2. Cardinality(Below(at, n)) = Cardinality(Below(s, n)) + 1
    BY <1>6, <1>7, <2>1, FS_AddElement
  <2> QED
    BY <1>8, <2>2 DEF at
<1>9. CASE ~Names(a, n)
  <2>1. Below(at, n) = Below(s, n)
    BY <1>5, <1>9
  <2> QED
    BY <1>7, <1>9, <2>1 DEF at
<1> QED
  BY <1>8, <1>9

\* An agenda to which a handler has added no start.
AddsNoStart(rest) ==
    LET Others == Calls \ LoopsToStart
    IN  \/ agenda' = rest
        \/ \E a \in Others : agenda' = <<a>> \o rest
        \/ \E a, b \in Others : agenda' = <<a, b>> \o rest

LEMMA NothingNamed ==
  ASSUME NEW rest \in Seq(Calls), AddsNoStart(rest)
  PROVE  /\ \A m : Cardinality(Below(agenda', m)) = Cardinality(Below(rest, m))
         /\ Elements(rest) \subseteq Elements(agenda')
         /\ Elements(agenda') \cap LoopsToStart \subseteq Elements(rest)
<1> DEFINE Others == Calls \ LoopsToStart
<1>1. ASSUME NEW s \in Seq(Calls), NEW a \in Others
      PROVE  /\ \A m : Cardinality(Below(<<a>> \o s, m)) = Cardinality(Below(s, m))
             /\ Elements(<<a>> \o s) = {a} \cup Elements(s)
  <2>1. \A m : ~Names(a, m)
    BY DEF Names, LoopsToStart
  <2>2. \A m : Cardinality(Below(<<a>> \o s, m)) = Cardinality(Below(s, m)) + 0
    BY <2>1, BelowJoin
  <2>3. \A m : Cardinality(Below(s, m)) \in Nat
    BY BelowFinite
  <2> QED
    BY <2>2, <2>3, ElementsOfOne
<1>2. CASE agenda' = rest
  BY <1>2
<1>3. CASE \E a \in Others : agenda' = <<a>> \o rest
  BY <1>1, <1>3
<1>4. ASSUME NEW a \in Others, NEW b \in Others, agenda' = <<a, b>> \o rest
      PROVE  /\ \A m : Cardinality(Below(agenda', m)) = Cardinality(Below(rest, m))
             /\ Elements(agenda') = {a, b} \cup Elements(rest)
  <2>1. <<b>> \o rest \in Seq(Calls) /\ agenda' = <<a>> \o (<<b>> \o rest)
    BY <1>4, TwoInFront
  <2>2. /\ \A m : Cardinality(Below(agenda', m)) = Cardinality(Below(<<b>> \o rest, m))
        /\ Elements(agenda') = {a} \cup Elements(<<b>> \o rest)
    BY <1>1, <2>1
  <2> QED
    BY <1>1, <2>2
<1> QED
  BY <1>2, <1>3, <1>4 DEF AddsNoStart

LEMMA OthersAre ==
  ASSUME TypeOK, NEW ns \in SUBSET LcNodes, NEW n \in LcNodes, NEW err \in Errors
  PROVE  {Close(ns), ReturnIsAllDone, ShutDown(err), Wait(n), CloseIfShuttingDown(n)} \subseteq Calls \ LoopsToStart
BY CallsTyped DEF LoopsToStart, Close, ReturnIsAllDone, ShutDown, Wait, CloseIfShuttingDown, Call

LEMMA StartErrorAddsNoStart ==
  ASSUME TypeOK, NEW n \in LcNodes, NEW rest, HandleNodeStartError(n, rest)
  PROVE  AddsNoStart(rest)
<1>1. dependsOn[n] \in SUBSET LcNodes /\ "hook" \in Errors
  BY GraphTyped DEF Errors
<1> QED
  BY <1>1, OthersAre DEF HandleNodeStartError, AddsNoStart

LEMMA WaitedAddsNoStart ==
  ASSUME TypeOK, NEW n \in LcNodes, NEW failed, NEW phase, NEW rest, HandleNodeWaited(n, failed, phase, rest)
  PROVE  AddsNoStart(rest)
<1>1. {n} \in SUBSET LcNodes /\ "hook" \in Errors /\ "nil" \in Errors
  BY DEF Errors
<1> QED
  BY <1>1, OthersAre DEF HandleNodeWaited, AddsNoStart

LEMMA TryWaitAddsNoStart ==
  ASSUME TypeOK, NEW n \in LcNodes, NEW rest \in Seq(Calls), TryWaitForNode(n, rest)
  PROVE  AddsNoStart(rest)
<1>1. {} \in SUBSET LcNodes /\ "hook" \in Errors /\ <<>> \o rest = rest
  BY DEF Errors
<1>2. ReturnIsAllDone \in Calls \ LoopsToStart
  BY <1>1, OthersAre
<1>3. CASE agenda' = (IF wait[n] \in Done THEN <<ReturnIsAllDone>> ELSE <<>>) \o rest
  BY <1>1, <1>2, <1>3 DEF AddsNoStart
<1>4. CASE agenda' = rest
  BY <1>4 DEF AddsNoStart
<1> QED
  BY <1>3, <1>4, WaitedAddsNoStart DEF TryWaitForNode

LEMMA ClosedAddsNoStart ==
  ASSUME TypeOK, NEW n \in LcNodes, NEW phase, NEW rest, HandleNodeClosed(n, phase, rest)
  PROVE  AddsNoStart(rest)
<1>1. dependsOn[n] \in SUBSET LcNodes /\ "hook" \in Errors
  BY GraphTyped DEF Errors
<1> QED
  BY <1>1, OthersAre DEF HandleNodeClosed, AddsNoStart

LEMMA TryCloseAddsNoStart ==
  ASSUME TypeOK, NEW n \in LcNodes, NEW rest, TryCloseNode(n, rest)
  PROVE  AddsNoStart(rest)
<1>1. dependsOn[n] \in SUBSET LcNodes /\ {} \in SUBSET LcNodes /\ "hook" \in Errors
  BY GraphTyped DEF Errors
<1>2. CASE agenda' = rest
  BY <1>2 DEF AddsNoStart
<1>3. ASSUME NEW ns \in SUBSET LcNodes, agenda' = <<Close(ns)>> \o rest
      PROVE  AddsNoStart(rest)
  BY <1>1, <1>3, OthersAre DEF AddsNoStart
<1> QED
  BY <1>1, <1>2, <1>3, ClosedAddsNoStart DEF TryCloseNode, CloseHook

\* What such a handler does to the whole agenda, whose first call it has taken.
Ends == AllDone /\ pc' = "returned"
NoNewStart ==
    /\ \A m : Cardinality(Below(agenda', m)) <= Cardinality(Below(agenda, m))
    /\ Ends \/ \A m : Cardinality(Below(agenda', m)) = Cardinality(Below(agenda, m))
    /\ Elements(agenda') \cap LoopsToStart \subseteq OnAgenda
    /\ \A c \in OnAgenda : c \in Elements(agenda') \/ c = Head(agenda) \/ Ends

LEMMA TailGoesOn ==
  ASSUME TypeOK, agenda # <<>>, AddsNoStart(Tail(agenda)), \A m : ~Names(Head(agenda), m)
  PROVE  NoNewStart
<1>1. Head(agenda) \in Calls /\ Tail(agenda) \in Seq(Calls) /\ agenda \in Seq(Calls)
  BY DEF TypeOK
<1>2. agenda = <<Head(agenda)>> \o Tail(agenda) /\ OnAgenda = {Head(agenda)} \cup Elements(Tail(agenda))
  BY <1>1, ElementsOfTail DEF OnAgenda
<1>3. \A m : /\ Cardinality(Below(Tail(agenda), m)) = Cardinality(Below(agenda, m))
             /\ Cardinality(Below(Tail(agenda), m)) \in Nat
  <2> TAKE m
  <2>1. Cardinality(Below(Tail(agenda), m)) \in Nat
    BY <1>1, BelowFinite
  <2>2. Cardinality(Below(<<Head(agenda)>> \o Tail(agenda), m))
           = Cardinality(Below(Tail(agenda), m)) + (IF Names(Head(agenda), m) THEN 1 ELSE 0)
    BY <1>1, BelowJoin
  <2>3. Cardinality(Below(Tail(agenda), m)) = Cardinality(Below(<<Head(agenda)>> \o Tail(agenda), m))
    BY <2>1, <2>2
  <2> QED
    BY <1>2, <2>1, <2>3
<1>4. /\ \A m : Cardinality(Below(agenda', m)) = Cardinality(Below(Tail(agenda), m))
      /\ Elements(Tail(agenda)) \subseteq Elements(agenda')
      /\ Elements(agenda') \cap LoopsToStart \subseteq Elements(Tail(agenda))
  BY <1>1, NothingNamed
<1> QED
  BY <1>2, <1>3, <1>4 DEF NoNewStart

LEMMA AfterNothing ==
  ASSUME agenda = <<>>, AddsNoStart(<<>>)
  PROVE  NoNewStart
<1>0. <<>> \in Seq(Calls)
  OBVIOUS
<1>1. <<>> \in Seq(Calls) /\ Elements(<<>>) = {}
  BY <1>0, ElementsOfJoin
<1>3. /\ \A m : Cardinality(Below(agenda', m)) = Cardinality(Below(<<>>, m))
      /\ Elements(agenda') \cap LoopsToStart \subseteq {}
  BY <1>1, NothingNamed
<1>4. \A m : Cardinality(Below(<<>>, m)) \in Nat
  BY <1>1, BelowFinite
<1> QED
  BY <1>1, <1>3, <1>4 DEF NoNewStart, OnAgenda

LEMMA Emptied == ASSUME TypeOK, Ends, agenda' = <<>> PROVE NoNewStart
<1>1. <<>> \in Seq(Calls) /\ Elements(<<>>) = {} /\ agenda \in Seq(Calls)
  BY ElementsOfJoin DEF TypeOK
<1>2. \A m : Cardinality(Below(<<>>, m)) = 0
  <2>1. \A m : Below(<<>>, m) = {}
    BY DEF Below
  <2> QED
    BY <2>1, FS_EmptySet
<1>3. \A m : Cardinality(Below(agenda, m)) \in Nat
  BY <1>1, BelowFinite
<1> QED
  BY <1>1, <1>2, <1>3 DEF NoNewStart, OnAgenda

LEMMA StepsAddNoStart ==
  ASSUME TypeOK, IInv,
         \/ LeavesStarted \/ WaitForStarted \/ CloseStarted \/ CloseNext \/ TryShutDown \/ ReturnFromCall
         \/ \E n \in LcNodes : \/ ReceiveWaitResult(n) \/ ReceiveClosed(n)
                               \/ ReceiveStartResult(n) /\ startCall[n] = "failed"
         \/ ReceiveCtxDone
  PROVE  NoNewStart
<1>1. agenda # <<>> => /\ Head(agenda).nodes \subseteq LcNodes /\ Head(agenda).err \in Errors
                       /\ Tail(agenda) \in Seq(Calls)
  BY HeadTyped
<1>2. Roots \subseteq LcNodes /\ {} \subseteq LcNodes
  BY DEF Roots
<1>3. \A ns \in SUBSET LcNodes : Close(ns) \in Calls \ LoopsToStart
  BY CallsTyped DEF LoopsToStart, Close, Call, Errors
<1>4. \A err \in Errors : ShutDown(err) \in Calls \ LoopsToStart
  BY <1>2, CallsTyped DEF LoopsToStart, ShutDown, Call
<1>5. CASE LeavesStarted \/ (ReturnFromCall /\ ~AllDone)
  <2>1. agenda # <<>> /\ agenda' = Tail(agenda) /\ Head(agenda).nodes = {}
    BY <1>5 DEF LeavesStarted, ReturnFromCall, CallIs
  <2> QED
    BY <2>1, TailGoesOn DEF AddsNoStart, Names
<1>6. CASE ReturnFromCall /\ AllDone
  BY <1>6, Emptied DEF ReturnFromCall, Ends
<1>7. CASE CloseStarted
  <2>1. ToCloseAfterStart(Head(agenda).nodes) \in SUBSET LcNodes
    BY <1>1, <1>2, <1>7 DEF ToCloseAfterStart, CloseStarted, CallIs
  <2>2. AddsNoStart(Tail(agenda))
    BY <1>3, <1>7, <2>1 DEF CloseStarted, AddsNoStart
  <2> QED
    BY <1>7, <2>2, TailGoesOn DEF CloseStarted, CallIs, Names
<1>8. CASE TryShutDown
  <2>1. AddsNoStart(Tail(agenda))
    BY <1>2, <1>3, <1>8 DEF TryShutDown, ReturnIsAllDone, AddsNoStart
  <2> QED
    BY <1>8, <2>1, TailGoesOn DEF TryShutDown, CallIs, Names
<1>9. CASE WaitForStarted
  <2>1. PICK n \in Head(agenda).nodes :
           agenda # <<>> /\ Head(agenda).op = "wait" /\ TryWaitForNode(n, Tail(agenda))
    BY <1>9 DEF WaitForStarted, CallIs
  <2> QED
    BY <1>1, <2>1, TryWaitAddsNoStart, TailGoesOn DEF Names
<1>10. CASE CloseNext
  <2>1. PICK n \in Head(agenda).nodes :
           /\ agenda # <<>> /\ Head(agenda).op = "close"
           /\ TryCloseNode(n, <<Close(Head(agenda).nodes \ {n})>> \o Tail(agenda))
    BY <1>10 DEF CloseNext, CallIs
  <2> DEFINE more == Close(Head(agenda).nodes \ {n})
             rest == <<more>> \o Tail(agenda)
  <2>2. more \in Calls \ LoopsToStart /\ Head(agenda) \in Calls /\ ~Names(more, n)
    BY <1>1, <1>3, <2>1, HeadTyped DEF Close, Call, Names
  <2>3. rest \in Seq(Calls) /\ AddsNoStart(rest)
    BY <1>1, <2>1, <2>2, TryCloseAddsNoStart, AgendaTyped
  <2>4. /\ \A m : Cardinality(Below(agenda', m)) = Cardinality(Below(rest, m))
        /\ Elements(rest) \subseteq Elements(agenda')
        /\ Elements(agenda') \cap LoopsToStart \subseteq Elements(rest)
    BY <2>3, NothingNamed
  <2>5. /\ agenda = <<Head(agenda)>> \o Tail(agenda) /\ agenda \in Seq(Calls)
        /\ OnAgenda = {Head(agenda)} \cup Elements(Tail(agenda))
    BY <2>1, ElementsOfTail DEF TypeOK, OnAgenda
  <2>6. Elements(rest) = {more} \cup Elements(Tail(agenda))
    BY <1>1, <2>1, <2>2, ElementsOfOne
  <2>7. \A m : /\ Cardinality(Below(rest, m)) = Cardinality(Below(agenda, m))
               /\ Cardinality(Below(rest, m)) \in Nat
    <3> TAKE m
    <3>1. /\ Cardinality(Below(rest, m)) = Cardinality(Below(Tail(agenda), m)) + (IF Names(more, m) THEN 1 ELSE 0)
          /\ Cardinality(Below(<<Head(agenda)>> \o Tail(agenda), m))
               = Cardinality(Below(Tail(agenda), m)) + (IF Names(Head(agenda), m) THEN 1 ELSE 0)
          /\ Cardinality(Below(Tail(agenda), m)) \in Nat
      BY <1>1, <2>1, <2>2, BelowJoin, BelowFinite
    <3>2. ~Names(more, m) /\ ~Names(Head(agenda), m)
      BY <2>1 DEF Names, Close, Call
    <3>3. /\ Cardinality(Below(rest, m)) = Cardinality(Below(<<Head(agenda)>> \o Tail(agenda), m))
          /\ Cardinality(Below(rest, m)) \in Nat
      BY <3>1, <3>2
    <3> QED
      BY <2>5, <3>3
  <2> HIDE DEF rest, more
  <2> QED
    BY <2>2, <2>4, <2>5, <2>6, <2>7 DEF NoNewStart
<1>11. ASSUME NEW n \in LcNodes,
             ReceiveWaitResult(n) \/ ReceiveClosed(n) \/ (ReceiveStartResult(n) /\ startCall[n] = "failed")
       PROVE  NoNewStart
  <2>1. agenda = <<>>
    BY <1>11 DEF ReceiveWaitResult, ReceiveClosed, ReceiveStartResult, Receiving
  <2>2. AddsNoStart(<<>>)
    BY <1>11, WaitedAddsNoStart, ClosedAddsNoStart, StartErrorAddsNoStart
       DEF ReceiveWaitResult, ReceiveClosed, ReceiveStartResult
  <2> QED
    BY <2>1, <2>2, AfterNothing
<1>12. CASE ReceiveCtxDone
  <2>1. agenda = <<>> /\ agenda' = <<ShutDown("ctx")>> \o <<>>
    BY <1>12 DEF ReceiveCtxDone, Receiving
  <2>2. AddsNoStart(<<>>)
    BY <1>4, <2>1 DEF AddsNoStart, Errors
  <2> QED
    BY <2>1, <2>2, AfterNothing
<1> QED
  BY <1>5, <1>6, <1>7, <1>8, <1>9, <1>10, <1>11, <1>12 DEF ReturnFromCall

-----------------------------------------------------------------------------
(* Ready dependencies are counted before their dependents start *)

LEMMA ReadyFinite ==
  ASSUME TypeOK, NEW n \in LcNodes
  PROVE  /\ IsFiniteSet(dependsOn[n]) /\ IsFiniteSet(ReadyDeps(n)) /\ ReadyDeps(n) \subseteq dependsOn[n]
         /\ Cardinality(dependsOn[n]) \in Nat /\ Cardinality(ReadyDeps(n)) \in Nat
<1>1. dependsOn[n] \subseteq Node /\ ReadyDeps(n) \subseteq dependsOn[n]
  BY GraphTyped DEF TypeOK, ReadyDeps
<1>2. IsFiniteSet(dependsOn[n])
  BY <1>1, GraphsAssumption, FS_Subset
<1>3. IsFiniteSet(ReadyDeps(n))
  BY <1>1, <1>2, FS_Subset
<1> QED
  BY <1>1, <1>2, <1>3, FS_CardinalityType

\* A dependency that is ready remains so.
LEMMA ReadyGrows ==
  ASSUME TypeOK, IInv, NodeStep, NEW n \in LcNodes
  PROVE  ReadyDeps(n) \subseteq ReadyDeps(n)' /\ Cardinality(ReadyDeps(n)) <= Cardinality(ReadyDeps(n)')
         /\ IsFiniteSet(ReadyDeps(n)') /\ Cardinality(ReadyDeps(n)') \in Nat
<1>1. dependsOn' = dependsOn
  BY DEF NodeStep, graph
<1>2. dependsOn[n] \subseteq LcNodes
  BY GraphTyped
<1>3. \A d \in LcNodes : startCall[d] = "running" => start[d] = "active"
  BY DEF IInv, GoroutinesHavePhases
<1>4. ASSUME NEW d \in LcNodes, start[d] \in Done, startCall[d] # "failed"
      PROVE  start'[d] \in Done /\ startCall'[d] # "failed"
  <2>1. CASE NothingMoves
    BY <1>4, <2>1 DEF NothingMoves
  <2>2. ASSUME NEW k \in LcNodes, Moves(k), k # d
        PROVE  start'[d] \in Done /\ startCall'[d] # "failed"
    BY <1>4, <2>2 DEF Moves, OthersStay
  <2>3. ASSUME Moves(d)
        PROVE  start'[d] \in Done /\ startCall'[d] # "failed"
    BY <1>3, <1>4, <2>3 DEF Moves, Starts, GetsReady, FailsToStart, BeginsWait, EndsWait, IsSkipped,
       BeginsClose, EndsClosing, CallReturns, PhasesMove, CallsStay, StartCallMoves, CloseCallMoves, Done
  <2> QED
    BY <2>1, <2>2, <2>3 DEF NodeStep
<1>5. ReadyDeps(n) \subseteq ReadyDeps(n)' /\ ReadyDeps(n)' \subseteq dependsOn[n]
  BY <1>1, <1>2, <1>4 DEF ReadyDeps
<1>6. IsFiniteSet(ReadyDeps(n)')
  BY <1>5, ReadyFinite, FS_Subset
<1> QED
  BY <1>5, <1>6, FS_Subset, FS_CardinalityType

\* A node that gets ready tells its dependents.
LEMMA StartedBelow ==
  ASSUME TypeOK, NEW n \in LcNodes, NEW phase, NEW rest \in Seq(Calls), HandleNodeStarted(n, phase, rest), NEW m
  PROVE  /\ Cardinality(Below(rest, m)) \in Nat
         /\ Cardinality(Below(agenda', m)) = Cardinality(Below(rest, m)) + (IF m \in NextToStart(n) THEN 1 ELSE 0)
<1> DEFINE told == StartDependents(NextToStart(n))
           more == <<Wait(n), CloseIfShuttingDown(n)>> \o rest
<1>1. NextToStart(n) \in SUBSET LcNodes
  BY DEF NextToStart, Dependents
<1>2. told \in Calls /\ Wait(n) \in Calls /\ CloseIfShuttingDown(n) \in Calls
  BY <1>1, CallsTyped DEF Errors
<1>3. more \in Seq(Calls) /\ agenda' = <<told>> \o more
  <2>1. agenda' = <<told, Wait(n), CloseIfShuttingDown(n)>> \o rest
    BY DEF HandleNodeStarted
  <2>2. more \in Seq(Calls)
    BY <1>2, AgendaTyped
  <2>3. <<told, Wait(n), CloseIfShuttingDown(n)>> \o rest = <<told>> \o (<<Wait(n), CloseIfShuttingDown(n)>> \o rest)
    <3> HIDE DEF told
    <3> QED
      BY <1>2, FirstOfAgenda, SMTT(30)
  <2> QED
    BY <2>1, <2>2, <2>3
<1>4. Cardinality(Below(more, m)) = Cardinality(Below(rest, m)) /\ Cardinality(Below(rest, m)) \in Nat
  <2>1. <<CloseIfShuttingDown(n)>> \o rest \in Seq(Calls) /\ more = <<Wait(n)>> \o (<<CloseIfShuttingDown(n)>> \o rest)
    BY <1>2, TwoInFront
  <2>2. ~Names(Wait(n), m) /\ ~Names(CloseIfShuttingDown(n), m)
    BY DEF Names, Wait, CloseIfShuttingDown, Call
  <2>3. /\ Cardinality(Below(<<Wait(n)>> \o (<<CloseIfShuttingDown(n)>> \o rest), m))
             = Cardinality(Below(<<CloseIfShuttingDown(n)>> \o rest, m)) + 0
        /\ Cardinality(Below(<<CloseIfShuttingDown(n)>> \o rest, m)) = Cardinality(Below(rest, m)) + 0
    BY <1>2, <2>1, <2>2, BelowJoin
  <2>4. Cardinality(Below(rest, m)) \in Nat
    BY BelowFinite
  <2>5. Cardinality(Below(<<Wait(n)>> \o (<<CloseIfShuttingDown(n)>> \o rest), m)) = Cardinality(Below(rest, m))
    BY <2>3, <2>4
  <2> HIDE DEF more
  <2> QED
    BY <2>1, <2>4, <2>5
<1>5. Cardinality(Below(agenda', m)) = Cardinality(Below(more, m)) + (IF Names(told, m) THEN 1 ELSE 0)
  <2> HIDE DEF told, more
  <2> QED
    BY <1>2, <1>3, BelowJoin
<1>6. Names(told, m) <=> m \in NextToStart(n)
  BY DEF Names, StartDependents, Call
<1> HIDE DEF told, more
<1> QED
  BY <1>4, <1>5, <1>6

\* Dependents are told, and the node is one more dependency that is ready.
LEMMA StartedCounts ==
  ASSUME TypeOK, IInv, NodeStep, NEW n \in LcNodes, NEW phase \in Done, NEW rest \in Seq(Calls),
         HandleNodeStarted(n, phase, rest), start[n] \notin Done, startCall'[n] # "failed",
         readyDeps' \in [Node -> Nat],
         \A m \in LcNodes : readyDeps'[m] + Cardinality(Below(rest, m)) <= Cardinality(ReadyDeps(m))
  PROVE  ReadyCounted'
<1>1. UNCHANGED graph /\ LcNodes' = LcNodes /\ dependsOn' = dependsOn
  BY GraphFixed DEF NodeStep, graph
<1> SUFFICES ASSUME NEW m \in LcNodes
             PROVE  readyDeps'[m] + Cardinality(Below(agenda', m)) <= Cardinality(ReadyDeps(m)')
  BY <1>1 DEF ReadyCounted
<1>2. /\ Cardinality(Below(rest, m)) \in Nat
      /\ Cardinality(Below(agenda', m)) = Cardinality(Below(rest, m)) + (IF m \in NextToStart(n) THEN 1 ELSE 0)
  BY StartedBelow
<1>3. /\ ReadyDeps(m) \subseteq ReadyDeps(m)' /\ Cardinality(ReadyDeps(m)) <= Cardinality(ReadyDeps(m)')
      /\ IsFiniteSet(ReadyDeps(m)') /\ Cardinality(ReadyDeps(m)') \in Nat
  BY ReadyGrows
<1>4. readyDeps'[m] \in Nat /\ Cardinality(ReadyDeps(m)) \in Nat
  BY GraphTyped, ReadyFinite
<1>5. CASE m \notin NextToStart(n)
  BY <1>2, <1>3, <1>4, <1>5
<1>6. CASE m \in NextToStart(n)
  <2>1. n \in dependsOn[m]
    BY <1>6 DEF NextToStart, Dependents
  <2>2. n \notin ReadyDeps(m)
    BY DEF ReadyDeps
  <2>3. n \in ReadyDeps(m)'
    <3>1. start'[n] = phase
      BY GraphTyped DEF HandleNodeStarted, TypeOK
    <3> QED
      BY <1>1, <2>1, <3>1 DEF ReadyDeps
  <2>4. Cardinality(ReadyDeps(m) \cup {n}) = Cardinality(ReadyDeps(m)) + 1
    BY <2>2, ReadyFinite, FS_AddElement
  <2>5. Cardinality(ReadyDeps(m) \cup {n}) <= Cardinality(ReadyDeps(m)')
    BY <1>3, <2>3, FS_Subset
  <2>6. Cardinality(Below(agenda', m)) = Cardinality(Below(rest, m)) + 1
    BY <1>2, <1>6
  <2> QED
    BY <1>2, <1>3, <1>4, <2>4, <2>5, <2>6
<1> QED
  BY <1>5, <1>6

LEMMA OthersCount ==
  ASSUME TypeOK, IInv, NodeStep, readyDeps' \in [Node -> Nat],
         \A m \in LcNodes : /\ Cardinality(Below(agenda', m)) \in Nat
                            /\ readyDeps'[m] + Cardinality(Below(agenda', m)) <= Cardinality(ReadyDeps(m))
  PROVE  ReadyCounted'
<1>1. LcNodes' = LcNodes
  BY GraphFixed DEF NodeStep
<1> SUFFICES ASSUME NEW m \in LcNodes
             PROVE  readyDeps'[m] + Cardinality(Below(agenda', m)) <= Cardinality(ReadyDeps(m)')
  BY <1>1 DEF ReadyCounted
<1>2. readyDeps'[m] \in Nat
  BY GraphTyped
<1>3. Cardinality(ReadyDeps(m)) <= Cardinality(ReadyDeps(m)') /\ Cardinality(ReadyDeps(m)') \in Nat
  BY ReadyGrows
<1>4. Cardinality(ReadyDeps(m)) \in Nat
  BY ReadyFinite
<1> QED
  BY <1>2, <1>3, <1>4

LEMMA TryStartCounts ==
  ASSUME TypeOK, IInv, NEW n \in LcNodes, NEW rest \in Seq(Calls), TryStartNode(n, rest),
         readyDeps' \in [Node -> Nat],
         \A m \in LcNodes : readyDeps'[m] + Cardinality(Below(rest, m)) <= Cardinality(ReadyDeps(m))
  PROVE  ReadyCounted' /\ (DepsReady(n) => dependsOn[n] = ReadyDeps(n))
<1>1. NodeStep /\ n \in Node
  BY TryStartMoves, GraphTyped
<1>2. DepsReady(n) => dependsOn[n] = ReadyDeps(n)
  <2>1. /\ readyDeps'[n] \in Nat /\ Cardinality(Below(rest, n)) \in Nat
        /\ readyDeps'[n] + Cardinality(Below(rest, n)) <= Cardinality(ReadyDeps(n))
    BY <1>1, BelowFinite
  <2>2. /\ IsFiniteSet(dependsOn[n]) /\ ReadyDeps(n) \in SUBSET dependsOn[n]
        /\ Cardinality(dependsOn[n]) \in Nat /\ Cardinality(ReadyDeps(n)) \in Nat
    BY ReadyFinite
  <2>3. /\ Cardinality(ReadyDeps(n)) <= Cardinality(dependsOn[n])
        /\ Cardinality(dependsOn[n]) = Cardinality(ReadyDeps(n)) => dependsOn[n] = ReadyDeps(n)
    BY <2>2, FS_Subset
  <2>4. DepsReady(n) => readyDeps'[n] >= Cardinality(dependsOn[n])
    BY DEF DepsReady
  <2> QED
    BY <2>1, <2>2, <2>3, <2>4
<1>3. CASE AddsNoStart(rest)
  <2>1. \A m : Cardinality(Below(agenda', m)) = Cardinality(Below(rest, m)) /\ Cardinality(Below(rest, m)) \in Nat
    BY <1>3, NothingNamed, BelowFinite
  <2> QED
    BY <1>1, <1>2, <2>1, OthersCount
<1>4. ASSUME NEW phase \in Done, HandleNodeStarted(n, phase, rest), start[n] = "none", startCall'[n] # "failed"
      PROVE  ReadyCounted'
  BY <1>1, <1>4, StartedCounts DEF Done
<1>5. /\ "skipped" \in Done /\ "completed" \in Done
      /\ start[n] = "none" => startCall[n] = "none"
      /\ startCall \in [Node -> {"none", "running", "ok", "failed"}]
  BY DEF Done, IInv, GoroutinesHavePhases, TypeOK
<1>6. CASE start[n] = "none" /\ HandleNodeStarted(n, "skipped", rest) /\ UNCHANGED env
  BY <1>2, <1>4, <1>5, <1>6 DEF env, calls
<1>7. CASE start[n] = "none" /\ HandleNodeStarted(n, "completed", rest) /\ startCall' = [startCall EXCEPT ![n] = "ok"]
  BY <1>1, <1>2, <1>4, <1>5, <1>7
<1>8. CASE HandleNodeStartError(n, rest) \/ agenda' = rest
  BY <1>3, <1>8, StartErrorAddsNoStart DEF AddsNoStart
<1>9. CASE agenda' = (IF start[n] \in Done THEN <<ReturnIsAllDone>> ELSE <<>>) \o rest
  <2>1. <<>> \o rest = rest /\ {} \in SUBSET LcNodes /\ "hook" \in Errors
    BY DEF Errors
  <2>2. ReturnIsAllDone \in Calls \ LoopsToStart
    BY <2>1, OthersAre
  <2> QED
    BY <1>3, <1>9, <2>1, <2>2 DEF AddsNoStart
<1> QED
  BY <1>6, <1>7, <1>8, <1>9 DEF TryStartNode

\* A loop goes on without the node that it has told.
LEMMA LoopCounts ==
  ASSUME TypeOK, ReadyCounted, agenda # <<>>, NEW n \in Head(agenda).nodes, NEW call \in Calls,
         \/ Head(agenda).op = "startLeaves" /\ UNCHANGED readyDeps /\ call = StartLeaves(Head(agenda).nodes \ {n})
         \/ /\ Head(agenda).op = "startDependents" /\ readyDeps' = Increment(readyDeps, {n})
            /\ call = StartDependents(Head(agenda).nodes \ {n})
  PROVE  /\ <<call>> \o Tail(agenda) \in Seq(Calls) /\ readyDeps' \in [Node -> Nat]
         /\ \A m \in LcNodes :
               /\ readyDeps'[m] + Cardinality(Below(<<call>> \o Tail(agenda), m))
                    = readyDeps[m] + Cardinality(Below(agenda, m))
               /\ readyDeps'[m] + Cardinality(Below(<<call>> \o Tail(agenda), m)) <= Cardinality(ReadyDeps(m))
<1>1. /\ Head(agenda) \in Calls /\ Tail(agenda) \in Seq(Calls) /\ n \in LcNodes /\ agenda \in Seq(Calls)
      /\ agenda = <<Head(agenda)>> \o Tail(agenda)
  BY HeadTyped, ElementsOfTail DEF TypeOK
<1>2. <<call>> \o Tail(agenda) \in Seq(Calls) /\ readyDeps \in [Node -> Nat]
  BY <1>1, AgendaTyped DEF TypeOK
<1>3. readyDeps' \in [Node -> Nat]
  BY <1>2, IncrementTyped
<1>4. ASSUME NEW m \in LcNodes
      PROVE  /\ readyDeps'[m] + Cardinality(Below(<<call>> \o Tail(agenda), m))
                  = readyDeps[m] + Cardinality(Below(agenda, m))
             /\ readyDeps'[m] + Cardinality(Below(<<call>> \o Tail(agenda), m)) <= Cardinality(ReadyDeps(m))
  <2>1. /\ Cardinality(Below(<<call>> \o Tail(agenda), m))
             = Cardinality(Below(Tail(agenda), m)) + (IF Names(call, m) THEN 1 ELSE 0)
        /\ Cardinality(Below(<<Head(agenda)>> \o Tail(agenda), m))
             = Cardinality(Below(Tail(agenda), m)) + (IF Names(Head(agenda), m) THEN 1 ELSE 0)
        /\ Cardinality(Below(Tail(agenda), m)) \in Nat
    BY <1>1, BelowJoin, BelowFinite
  <2>2. /\ Cardinality(Below(agenda, m)) = Cardinality(Below(<<Head(agenda)>> \o Tail(agenda), m))
        /\ readyDeps[m] + Cardinality(Below(<<Head(agenda)>> \o Tail(agenda), m)) <= Cardinality(ReadyDeps(m))
    BY <1>1 DEF ReadyCounted
  <2>3. readyDeps[m] \in Nat /\ Cardinality(ReadyDeps(m)) \in Nat
    BY <1>2, GraphTyped, ReadyFinite
  <2>4. CASE Head(agenda).op = "startLeaves"
    <3>1. readyDeps' = readyDeps /\ ~Names(call, m) /\ ~Names(Head(agenda), m)
      BY <2>4 DEF Names, StartLeaves, Call
    <3> QED
      BY <2>1, <2>2, <2>3, <3>1
  <2>5. CASE Head(agenda).op = "startDependents" /\ m = n
    <3>1. readyDeps'[m] = readyDeps[m] + 1 /\ ~Names(call, m) /\ Names(Head(agenda), m)
      BY <1>2, <2>5, GraphTyped DEF Names, StartDependents, Call, Increment
    <3> QED
      BY <2>1, <2>2, <2>3, <3>1
  <2>6. CASE Head(agenda).op = "startDependents" /\ m # n
    <3>1. readyDeps'[m] = readyDeps[m] /\ (Names(call, m) <=> Names(Head(agenda), m))
      BY <1>2, <2>6, GraphTyped DEF Names, StartDependents, Call, Increment
    <3> QED
      BY <2>1, <2>2, <2>3, <3>1
  <2> QED
    BY <2>4, <2>5, <2>6
<1> QED
  BY <1>2, <1>3, <1>4

LEMMA LoopStarts ==
  ASSUME TypeOK, IInv, ReadyCounted, StartNextLeaf \/ StartNextDependent
  PROVE  /\ ReadyCounted' /\ agenda # <<>> /\ Head(agenda) \in LoopsToStart
         /\ \E n \in Head(agenda).nodes, call \in LoopsToStart :
               /\ n \in LcNodes /\ call.nodes = Head(agenda).nodes \ {n} /\ call.op = Head(agenda).op
               /\ TryStartNode(n, <<call>> \o Tail(agenda))
               /\ DepsReady(n) => dependsOn[n] = ReadyDeps(n)
               /\ readyDeps' \in [Node -> Nat] /\ \A m \in LcNodes \ {n} : readyDeps'[m] = readyDeps[m]
               /\ \A m \in LcNodes : readyDeps'[m] + Cardinality(Below(<<call>> \o Tail(agenda), m))
                                         = readyDeps[m] + Cardinality(Below(agenda, m))
<1>1. agenda # <<>> => /\ Head(agenda) \in Calls /\ Head(agenda).nodes \subseteq LcNodes
  BY HeadTyped
<1>2. CASE StartNextLeaf
  <2>1. PICK n \in Head(agenda).nodes :
           /\ agenda # <<>> /\ Head(agenda).op = "startLeaves" /\ readyDeps' = readyDeps
           /\ TryStartNode(n, <<StartLeaves(Head(agenda).nodes \ {n})>> \o Tail(agenda))
    BY <1>2 DEF StartNextLeaf, CallIs
  <2> DEFINE call == StartLeaves(Head(agenda).nodes \ {n})
  <2>2. /\ call \in Calls /\ call \in LoopsToStart /\ call.nodes = Head(agenda).nodes \ {n}
        /\ Head(agenda) \in LoopsToStart /\ n \in LcNodes
    BY <1>1, <2>1, CallsTyped DEF LoopsToStart, StartLeaves, Call, Errors
  <2>5. call.op = Head(agenda).op /\ \A m \in LcNodes \ {n} : readyDeps'[m] = readyDeps[m]
    BY <2>1, GraphTyped DEF StartLeaves, Call, Increment, TypeOK
  <2>3. /\ <<call>> \o Tail(agenda) \in Seq(Calls) /\ readyDeps' \in [Node -> Nat]
        /\ \A m \in LcNodes :
              /\ readyDeps'[m] + Cardinality(Below(<<call>> \o Tail(agenda), m))
                   = readyDeps[m] + Cardinality(Below(agenda, m))
              /\ readyDeps'[m] + Cardinality(Below(<<call>> \o Tail(agenda), m)) <= Cardinality(ReadyDeps(m))
    BY <2>1, <2>2, LoopCounts
  <2>4. ReadyCounted' /\ (DepsReady(n) => dependsOn[n] = ReadyDeps(n))
    BY <2>1, <2>2, <2>3, TryStartCounts
  <2> QED
    BY <2>1, <2>2, <2>3, <2>4, <2>5
<1>3. CASE StartNextDependent
  <2>1. PICK n \in Head(agenda).nodes :
           /\ agenda # <<>> /\ Head(agenda).op = "startDependents" /\ readyDeps' = Increment(readyDeps, {n})
           /\ TryStartNode(n, <<StartDependents(Head(agenda).nodes \ {n})>> \o Tail(agenda))
    BY <1>3 DEF StartNextDependent, CallIs
  <2> DEFINE call == StartDependents(Head(agenda).nodes \ {n})
  <2>2. /\ call \in Calls /\ call \in LoopsToStart /\ call.nodes = Head(agenda).nodes \ {n}
        /\ Head(agenda) \in LoopsToStart /\ n \in LcNodes
    BY <1>1, <2>1, CallsTyped DEF LoopsToStart, StartDependents, Call, Errors
  <2>5. call.op = Head(agenda).op /\ \A m \in LcNodes \ {n} : readyDeps'[m] = readyDeps[m]
    BY <2>1, GraphTyped DEF StartDependents, Call, Increment, TypeOK
  <2>3. /\ <<call>> \o Tail(agenda) \in Seq(Calls) /\ readyDeps' \in [Node -> Nat]
        /\ \A m \in LcNodes :
              /\ readyDeps'[m] + Cardinality(Below(<<call>> \o Tail(agenda), m))
                   = readyDeps[m] + Cardinality(Below(agenda, m))
              /\ readyDeps'[m] + Cardinality(Below(<<call>> \o Tail(agenda), m)) <= Cardinality(ReadyDeps(m))
    BY <2>1, <2>2, LoopCounts
  <2>4. ReadyCounted' /\ (DepsReady(n) => dependsOn[n] = ReadyDeps(n))
    BY <2>1, <2>2, <2>3, TryStartCounts
  <2> QED
    BY <2>1, <2>2, <2>3, <2>4, <2>5
<1> QED
  BY <1>2, <1>3

LEMMA NextReadyCounted == TypeOK /\ IInv /\ ReadyCounted /\ [Next]_vars => ReadyCounted'
<1> SUFFICES ASSUME TypeOK, IInv, ReadyCounted, [Next]_vars PROVE ReadyCounted'
  OBVIOUS
<1>1. NodeStep /\ UNCHANGED graph /\ LcNodes' = LcNodes
  BY NextMoves, GraphFixed DEF NodeStep
<1>2. readyDeps \in [Node -> Nat] /\ agenda \in Seq(Calls)
  BY DEF TypeOK
<1>3. \A m \in LcNodes : /\ Cardinality(Below(agenda, m)) \in Nat /\ readyDeps[m] \in Nat
                         /\ Cardinality(ReadyDeps(m)) \in Nat
                         /\ readyDeps[m] + Cardinality(Below(agenda, m)) <= Cardinality(ReadyDeps(m))
  BY <1>2, BelowFinite, ReadyFinite, GraphTyped DEF ReadyCounted
<1>4. ASSUME UNCHANGED <<agenda, readyDeps>>
      PROVE  ReadyCounted'
  BY <1>1, <1>2, <1>3, <1>4, OthersCount
<1>5. ASSUME NoNewStart, UNCHANGED readyDeps
      PROVE  ReadyCounted'
  <2>1. \A m : Cardinality(Below(agenda', m)) \in Nat
    <3>1. agenda' \in Seq(Calls')
      BY NextTyped DEF TypeOK
    <3> QED
      BY <3>1, BelowFinite
  <2>2. \A m : Cardinality(Below(agenda', m)) <= Cardinality(Below(agenda, m))
    BY <1>5 DEF NoNewStart
  <2>3. \A m \in LcNodes : readyDeps'[m] + Cardinality(Below(agenda', m)) <= Cardinality(ReadyDeps(m))
    BY <1>3, <1>5, <2>1, <2>2
  <2> QED
    BY <1>1, <1>2, <1>5, <2>1, <2>3, OthersCount
<1>6. CASE RunBegins
  <2>1. UNCHANGED readyDeps /\ agenda = <<>>
    BY <1>6 DEF RunBegins, nodes, IInv, Quiet
  <2>2. CASE agenda' = agenda
    BY <1>4, <2>1, <2>2
  <2>3. CASE agenda' = <<StartLeaves(Leaves)>>
    <3>1. StartLeaves(Leaves) \in Calls /\ agenda' = <<StartLeaves(Leaves)>> \o <<>>
      BY <2>3, CallsTyped DEF Leaves, Errors
    <3>2. \A m : ~Names(StartLeaves(Leaves), m)
      BY DEF Names, StartLeaves, Call
    <3>3. \A m \in LcNodes : Cardinality(Below(agenda', m)) = Cardinality(Below(agenda, m)) + 0
      BY <1>2, <2>1, <3>1, <3>2, BelowJoin
    <3>4. \A m \in LcNodes : Cardinality(Below(agenda', m)) = Cardinality(Below(agenda, m))
      BY <1>3, <3>3
    <3> QED
      BY <1>1, <1>2, <1>3, <2>1, <3>4, OthersCount
  <2> QED
    BY <1>6, <2>2, <2>3 DEF RunBegins
<1>7. CASE StartNextLeaf \/ StartNextDependent
  BY <1>7, LoopStarts
<1>8. CASE LeavesStarted \/ WaitForStarted \/ CloseStarted \/ CloseNext \/ TryShutDown \/ ReturnFromCall \/ ReceiveCtxDone
  <2>1. NoNewStart
    BY <1>8, StepsAddNoStart
  <2>2. UNCHANGED readyDeps
    BY <1>8 DEF LeavesStarted, WaitForStarted, CloseStarted, CloseNext, TryShutDown, ReturnFromCall, ReceiveCtxDone,
       TryWaitForNode, HandleNodeWaited, TryCloseNode, nodes
  <2> QED
    BY <1>5, <2>1, <2>2
<1>9. ASSUME NEW n \in LcNodes,
             ReceiveWaitResult(n) \/ ReceiveClosed(n) \/ (ReceiveStartResult(n) /\ startCall[n] = "failed")
      PROVE  ReadyCounted'
  <2>1. NoNewStart
    BY <1>9, StepsAddNoStart
  <2>2. UNCHANGED readyDeps
    BY <1>9 DEF ReceiveWaitResult, ReceiveClosed, ReceiveStartResult, HandleNodeWaited
  <2> QED
    BY <1>5, <2>1, <2>2
<1>10. ASSUME NEW n \in LcNodes, ReceiveStartResult(n), startCall[n] = "ok"
       PROVE  ReadyCounted'
  <2>1. /\ agenda = <<>> /\ UNCHANGED readyDeps /\ UNCHANGED startCall
        /\ HandleNodeStarted(n, "completed", <<>>) /\ start[n] \notin Done
    BY <1>10 DEF ReceiveStartResult, Receiving, IInv, GoroutinesHavePhases, Done, calls
  <2>2. "completed" \in Done /\ <<>> \in Seq(Calls)
    BY DEF Done
  <2> QED
    BY <1>1, <1>2, <1>3, <1>10, <2>1, <2>2, StartedCounts
<1>11. ASSUME NEW n \in LcNodes, StartReturns(n) \/ WaitReturns(n) \/ CloseReturns(n) \/ StartTimesOut(n)
       PROVE  ReadyCounted'
  BY <1>4, <1>11 DEF StartReturns, WaitReturns, CloseReturns, StartTimesOut, session
<1>12. CASE CancelRunCtx \/ Finished \/ UNCHANGED vars
  BY <1>4, <1>12 DEF CancelRunCtx, Finished, session, vars, nodes
<1> QED
  BY <1>6, <1>7, <1>8, <1>9, <1>10, <1>11, <1>12 DEF Next, SessionStep, ReceiveStartResult

LEMMA InitReadyCounted == Init => ReadyCounted
<1> SUFFICES ASSUME Init PROVE ReadyCounted
  OBVIOUS
<1>1. TypeOK /\ agenda = <<>> /\ readyDeps = [n \in Node |-> 0]
  BY InitTyped DEF Init
<1>2. \A n : Below(agenda, n) = {}
  BY <1>1 DEF Below
<1>3. \A n \in LcNodes : Cardinality(ReadyDeps(n)) \in Nat /\ readyDeps[n] = 0
  BY <1>1, ReadyFinite, GraphTyped
<1> QED
  BY <1>2, <1>3, FS_EmptySet, SMTT(30) DEF ReadyCounted

-----------------------------------------------------------------------------
(* When nodes move. The session starts a node before its shutdown, on top of   *)
(* dependencies that are ready, and closes it in its shutdown, if its wait has *)
(* begun.                                                                      *)

Timely ==
    /\ \A n \in LcNodes :
          start[n] = "none" /\ start'[n] # "none" /\ wait'[n] = "none" =>
             /\ ~Begun /\ pc \notin {"run", "returned"} /\ dependsOn[n] = ReadyDeps(n)
    /\ \A n \in LcNodes :
          \/ close[n] = "none" /\ close'[n] # "none" /\ wait'[n] = wait[n]
          \/ start[n] = "none" /\ wait'[n] # "none"
          => Begun /\ pc \notin {"run", "returned"} /\ ~Unwaited(n)
    /\ NothingMoves \/ UNCHANGED <<pc, onShutdownCalls>>

LEMMA InPlay == ASSUME IInv, agenda # <<>> PROVE pc \notin {"run", "returned"}
BY DEF IInv, Quiet

\* What a loop does that goes on in a shutdown, or outside.
LEMMA HeadIsOnAgenda == ASSUME TypeOK, agenda # <<>> PROVE Head(agenda) \in OnAgenda /\ Head(agenda) \in Calls
<1>1. agenda \in Seq(Calls)
  BY DEF TypeOK
<1> QED
  BY <1>1, HeadTyped, ElementsOfTail DEF OnAgenda

LEMMA StartsBefore ==
  ASSUME TypeOK, SInv, agenda # <<>>, Head(agenda) \in LoopsToStart, NEW n \in Head(agenda).nodes, start[n] = "none"
  PROVE  ~Stopping
BY HeadIsOnAgenda DEF SInv, NoStartLeft

LEMMA ClosesAfter ==
  ASSUME TypeOK, SInv, CallIs("close"), Head(agenda).nodes # {}
  PROVE  Begun /\ \A n \in LcNodes : ~Unwaited(n)
<1>1. Stopping
  BY HeadIsOnAgenda DEF SInv, NoCloseYet, CallIs
<1>2. Begun
  BY <1>1 DEF Stopping, CallIs
<1>3. ASSUME NEW n \in LcNodes, Unwaited(n)
      PROVE  FALSE
  <2>1. agenda \in LateStart(n)
    BY <1>1, <1>3 DEF SInv, StartsAreWaitedFor
  <2>2. Head(agenda) \in {StartDependents({}), Wait(n)}
    BY <2>1 DEF LateStart
  <2> QED
    BY <2>2 DEF CallIs, StartDependents, Wait, Call
<1> QED
  BY <1>2, <1>3

LEMMA TimelySteps ==
  ASSUME SharedHook = {}, TypeOK, IInv, SInv, ReadyCounted, [Next]_vars
  PROVE  Timely
<1>1. \A n \in LcNodes : n \in Node
  BY GraphTyped
<1>2. /\ start \in [Node -> Phase] /\ wait \in [Node -> Phase] /\ close \in [Node -> Phase]
  BY DEF TypeOK
<1>3. \A n \in LcNodes : start[n] \notin Done => wait[n] = "none" /\ close[n] = "none"
  BY DEF IInv, StartFirst
<1>4. ASSUME UNCHANGED <<start, wait, close>>, NothingMoves \/ UNCHANGED <<pc, onShutdownCalls>>
      PROVE  Timely
  BY <1>3, <1>4 DEF Timely, Done
<1>5. CASE StartNextLeaf \/ StartNextDependent
  <2>1. PICK n \in Head(agenda).nodes, call \in LoopsToStart :
           /\ n \in LcNodes /\ agenda # <<>> /\ Head(agenda) \in LoopsToStart
           /\ TryStartNode(n, <<call>> \o Tail(agenda))
           /\ DepsReady(n) => dependsOn[n] = ReadyDeps(n)
    BY <1>5, LoopStarts
  <2>2. UNCHANGED <<wait, close>> /\ UNCHANGED <<pc, onShutdownCalls>>
    BY <2>1 DEF TryStartNode, HandleNodeStarted, observed
  <2>3. CASE UNCHANGED start
    BY <1>4, <2>2, <2>3
  <2>4. CASE start[n] = "none" /\ DepsReady(n) /\ \E phase : start' = [start EXCEPT ![n] = phase]
    <3>1. ~Begun /\ pc \notin {"run", "returned"}
      BY <2>1, <2>4, StartsBefore, InPlay DEF Stopping
    <3> QED
      BY <1>1, <1>2, <1>3, <2>1, <2>2, <2>4, <3>1 DEF Timely, Done
  <2> QED
    BY <2>1, <2>3, <2>4 DEF TryStartNode, HandleNodeStarted
<1>6. CASE WaitForStarted
  <2>1. PICK n \in Head(agenda).nodes : agenda # <<>> /\ Head(agenda).op = "wait" /\ TryWaitForNode(n, Tail(agenda))
    BY <1>6 DEF WaitForStarted, CallIs
  <2>2. n \in LcNodes /\ start[n] \in Done
    BY <2>1, HeadOk, HeadTyped DEF OkCalls
  <2>3. UNCHANGED <<start, pc, onShutdownCalls>>
    BY <2>1 DEF TryWaitForNode, HandleNodeWaited, nodes, observed
  <2>4. CASE UNCHANGED <<wait, close>>
    BY <1>4, <2>3, <2>4
  <2>5. CASE wait[n] = "none" /\ (\E phase \in {"skipped", "active"} : wait' = [wait EXCEPT ![n] = phase])
              /\ (close' = close \/ close' = [close EXCEPT ![n] = "skipped"])
    BY <1>1, <1>2, <1>3, <2>2, <2>3, <2>5 DEF Timely, Done
  <2> QED
    BY <2>1, <2>4, <2>5 DEF TryWaitForNode, HandleNodeWaited, nodes
<1>7. CASE CloseNext
  <2>1. PICK n \in Head(agenda).nodes :
           CallIs("close") /\ TryCloseNode(n, <<Close(Head(agenda).nodes \ {n})>> \o Tail(agenda))
    BY <1>7 DEF CloseNext
  <2>2. n \in LcNodes /\ Begun /\ (\A m \in LcNodes : ~Unwaited(m)) /\ pc \notin {"run", "returned"}
    BY <2>1, ClosesAfter, HeadTyped, InPlay DEF CallIs
  <2>3. UNCHANGED <<pc, onShutdownCalls>>
    BY <2>1 DEF TryCloseNode, observed
  <2>4. UNCHANGED start \/ (start' = [start EXCEPT ![n] = "skipped"] /\ wait' = [wait EXCEPT ![n] = "skipped"])
    BY <2>1 DEF TryCloseNode
  <2> QED
    BY <1>1, <1>2, <2>2, <2>3, <2>4 DEF Timely
<1>8. ASSUME NEW n \in LcNodes, ReceiveStartResult(n) \/ ReceiveWaitResult(n) \/ ReceiveClosed(n)
      PROVE  Timely
  <2>1. UNCHANGED <<pc, onShutdownCalls>>
    BY <1>8 DEF ReceiveStartResult, ReceiveWaitResult, ReceiveClosed, HandleNodeStarted, HandleNodeStartError,
       HandleNodeWaited, observed
  <2>2. CASE ReceiveStartResult(n)
    <3>1. start[n] = "active"
      BY <2>2 DEF ReceiveStartResult, IInv, GoroutinesHavePhases
    <3>2. /\ start' = [start EXCEPT ![n] = "completed"]
          /\ UNCHANGED <<wait, close>> \/ (wait' = [wait EXCEPT ![n] = "skipped"] /\ close' = [close EXCEPT ![n] = "skipped"])
      BY <2>2 DEF ReceiveStartResult, HandleNodeStarted, HandleNodeStartError
    <3> QED
      BY <1>1, <1>2, <1>3, <2>1, <3>1, <3>2 DEF Timely, Done
  <2>3. CASE ReceiveWaitResult(n)
    <3>1. wait[n] = "active" /\ start[n] \in Done
      BY <2>3 DEF ReceiveWaitResult, IInv, GoroutinesHavePhases, StartFirst
    <3>2. /\ start' = start /\ wait' = [wait EXCEPT ![n] = "completed"]
          /\ close' = close \/ close' = [close EXCEPT ![n] = "skipped"]
      BY <2>3 DEF ReceiveWaitResult, HandleNodeWaited
    <3> QED
      BY <1>1, <1>2, <1>3, <2>1, <3>1, <3>2 DEF Timely, Done
  <2>4. CASE ReceiveClosed(n)
    <3>1. close[n] = "active" /\ start' = start /\ wait' = wait /\ close' = [close EXCEPT ![n] = "completed"]
      BY <2>4 DEF ReceiveClosed, HandleNodeClosed, IInv, GoroutinesHavePhases
    <3> QED
      BY <1>1, <1>2, <1>3, <2>1, <3>1 DEF Timely, Done
  <2> QED
    BY <1>8, <2>2, <2>3, <2>4
<1>9. CASE RunBegins \/ LeavesStarted \/ CloseStarted \/ TryShutDown \/ ReturnFromCall \/ ReceiveCtxDone
  BY <1>4, <1>9 DEF RunBegins, LeavesStarted, CloseStarted, TryShutDown, ReturnFromCall, ReceiveCtxDone,
     NothingMoves, nodes, doneCounters, env, calls
<1>10. ASSUME NEW n \in LcNodes, StartReturns(n) \/ WaitReturns(n) \/ CloseReturns(n) \/ StartTimesOut(n)
       PROVE  Timely
  BY <1>4, <1>10 DEF StartReturns, WaitReturns, CloseReturns, StartTimesOut, session, observed
<1>11. CASE CancelRunCtx \/ Finished \/ UNCHANGED vars
  BY <1>4, <1>11 DEF CancelRunCtx, Finished, session, vars, nodes, observed
<1> QED
  BY <1>5, <1>6, <1>7, <1>8, <1>9, <1>10, <1>11 DEF Next, SessionStep

\* What is over stays over.
LEMMA MovesStay ==
  ASSUME NodeStep, NEW n \in LcNodes
  PROVE  (start[n] # "none" => start'[n] # "none") /\ (wait[n] \in Done => wait'[n] \in Done)
<1>1. CASE NothingMoves
  BY <1>1 DEF NothingMoves
<1>2. ASSUME NEW k \in LcNodes, Moves(k), k # n
      PROVE  (start[n] # "none" => start'[n] # "none") /\ (wait[n] \in Done => wait'[n] \in Done)
  BY <1>2 DEF Moves, OthersStay
<1>3. ASSUME Moves(n)
      PROVE  (start[n] # "none" => start'[n] # "none") /\ (wait[n] \in Done => wait'[n] \in Done)
  BY <1>3 DEF Moves, Starts, GetsReady, FailsToStart, BeginsWait, EndsWait, IsSkipped,
     BeginsClose, EndsClosing, CallReturns, PhasesMove, Done
<1> QED
  BY <1>1, <1>2, <1>3 DEF NodeStep

LEMMA EndsLate ==
  ASSUME TypeOK, IInv, NodeStep, Timely, NothingEndsEarly, ~Begun
  PROVE  NothingEndsEarly'
<1>1. UNCHANGED graph /\ LcNodes' = LcNodes /\ \A n : HasStarter(n)' = HasStarter(n)
  BY GraphFixed DEF NodeStep
<1> SUFFICES ASSUME NEW n \in LcNodes
             PROVE  /\ close'[n] = "none" \/ (wait'[n] \in Done /\ close'[n] \in Done)
                    /\ closeCall'[n] = "none" /\ (start'[n] = "skipped" => ~HasStarter(n))
  BY <1>1 DEF NothingEndsEarly, IsDone
<1>2. /\ close[n] = "none" \/ (wait[n] \in Done /\ close[n] \in Done)
      /\ closeCall[n] = "none" /\ (start[n] = "skipped" => ~HasStarter(n))
  BY DEF NothingEndsEarly, IsDone
<1>3. CASE NothingMoves
  BY <1>2, <1>3 DEF NothingMoves
<1>4. ASSUME NEW k \in LcNodes, Moves(k), k # n
      PROVE  /\ close'[n] = "none" \/ (wait'[n] \in Done /\ close'[n] \in Done)
             /\ closeCall'[n] = "none" /\ (start'[n] = "skipped" => ~HasStarter(n))
  BY <1>2, <1>4 DEF Moves, OthersStay
<1>5. CASE Moves(n)
  <2>1. ~IsSkipped(n) /\ ~BeginsClose(n)
    BY DEF Timely, IsSkipped, BeginsClose, PhasesMove
  <2>2. start[n] \notin Done => wait[n] = "none" /\ close[n] = "none"
    BY DEF IInv, StartFirst
  <2>3. CASE Starts(n) \/ GetsReady(n) \/ FailsToStart(n)
    BY <1>2, <2>2, <2>3 DEF Starts, GetsReady, FailsToStart, PhasesMove, CallsStay, StartCallMoves, Done
  <2>4. CASE BeginsWait(n) \/ EndsWait(n)
    BY <1>2, <2>4 DEF BeginsWait, EndsWait, PhasesMove, CallsStay, Done
  <2>5. CASE EndsClosing(n) \/ CallReturns(n)
    BY <1>2, <2>5 DEF EndsClosing, CallReturns, PhasesMove, CallsStay, StartCallMoves, CloseCallMoves, Done
  <2> QED
    BY <1>5, <2>1, <2>3, <2>4, <2>5 DEF Moves
<1> QED
  BY <1>3, <1>4, <1>5 DEF NodeStep

\* The agenda of a node that has got ready.
LEMMA StartedElements ==
  ASSUME TypeOK, NEW n \in LcNodes, NEW phase, NEW rest \in Seq(Calls), HandleNodeStarted(n, phase, rest)
  PROVE  /\ Elements(agenda') = {StartDependents(NextToStart(n)), Wait(n), CloseIfShuttingDown(n)} \cup Elements(rest)
         /\ Head(agenda') = StartDependents(NextToStart(n))
<1>1. NextToStart(n) \in SUBSET LcNodes
  BY DEF NextToStart, Dependents
<1>2. StartDependents(NextToStart(n)) \in Calls /\ Wait(n) \in Calls /\ CloseIfShuttingDown(n) \in Calls
  BY <1>1, CallsTyped DEF Errors
<1>3. agenda' = <<StartDependents(NextToStart(n)), Wait(n), CloseIfShuttingDown(n)>> \o rest
  BY DEF HandleNodeStarted
<1>4. agenda' = <<StartDependents(NextToStart(n))>> \o (<<Wait(n), CloseIfShuttingDown(n)>> \o rest)
      /\ <<Wait(n), CloseIfShuttingDown(n)>> \o rest \in Seq(Calls)
  <2> DEFINE a == StartDependents(NextToStart(n))
             b == Wait(n)
             c == CloseIfShuttingDown(n)
  <2>1. a \in Calls /\ b \in Calls /\ c \in Calls /\ agenda' = <<a, b, c>> \o rest
    BY <1>2, <1>3
  <2> HIDE DEF a, b, c
  <2>2. <<a, b, c>> \o rest = <<a>> \o (<<b, c>> \o rest)
    BY <2>1
  <2>3. <<b, c>> \o rest \in Seq(Calls)
    BY <2>1, AgendaTyped
  <2>4. agenda' = <<a>> \o (<<b, c>> \o rest)
    BY <2>1, <2>2
  <2> QED
    BY <2>3, <2>4 DEF a, b, c
<1>5. Head(agenda') = StartDependents(NextToStart(n))
  BY <1>2, <1>4
<1> QED
  BY <1>2, <1>3, <1>5, ElementsOfJoin

\* What a start leaves on the agenda.
LEMMA TryStartElements ==
  ASSUME SharedHook = {}, TypeOK, IInv, NEW n \in LcNodes, NEW call \in LoopsToStart, NEW tail \in Seq(Calls),
         TryStartNode(n, <<call>> \o tail)
  PROVE  /\ {call} \cup Elements(tail) \subseteq Elements(agenda')
         /\ \A c \in Elements(agenda') : \/ c \in {call} \cup Elements(tail)
                                         \/ c.op = "close" /\ c.nodes = {}
                                         \/ c.op \notin {"close", "shutDown"} /\ start[n] = "none"
         /\ ~CallIs("shutDown")'
         /\ UNCHANGED <<wait, close, onShutdownCalls, shutdownErr>>
         /\ \A m \in LcNodes : m # n => start'[m] = start[m]
         /\ start'[n] \in Done => start[n] \in Done \/ Wait(n) \in Elements(agenda')
         /\ start[n] # "none" => start' = start
<1> DEFINE rest == <<call>> \o tail
<1>1. /\ call \in Calls /\ rest \in Seq(Calls) /\ Elements(rest) = {call} \cup Elements(tail)
      /\ Head(rest) = call /\ rest # <<>> /\ call.op # "shutDown"
  BY AgendaTyped, ElementsOfOne DEF LoopsToStart
<1>2. /\ n \in Node /\ (\A m \in LcNodes : m \in Node) /\ start \in [Node -> Phase]
  BY GraphTyped DEF TypeOK
<1> HIDE DEF rest
<1>3. ASSUME NEW phase, HandleNodeStarted(n, phase, rest), start[n] = "none"
      PROVE  /\ Elements(rest) \subseteq Elements(agenda') /\ Wait(n) \in Elements(agenda')
             /\ \A c \in Elements(agenda') : c \in Elements(rest) \/ c.op \notin {"close", "shutDown"}
             /\ ~CallIs("shutDown")' /\ UNCHANGED <<wait, close, onShutdownCalls, shutdownErr>>
             /\ \A m \in LcNodes : m # n => start'[m] = start[m]
  <2>1. /\ Elements(agenda') = {StartDependents(NextToStart(n)), Wait(n), CloseIfShuttingDown(n)} \cup Elements(rest)
        /\ Head(agenda') = StartDependents(NextToStart(n))
    BY <1>1, <1>3, StartedElements
  <2>2. UNCHANGED <<wait, close, onShutdownCalls, shutdownErr>> /\ start' = [start EXCEPT ![n] = phase]
    BY <1>3 DEF HandleNodeStarted, outcome
  <2> QED
    BY <1>2, <2>1, <2>2 DEF StartDependents, Wait, CloseIfShuttingDown, Call, CallIs
<1>4. CASE /\ start[n] # "none" \/ ~DepsReady(n)
           /\ agenda' = (IF start[n] \in Done THEN <<ReturnIsAllDone>> ELSE <<>>) \o rest
           /\ UNCHANGED <<start, wait, close, outcome, observed>>
  <2>1. ReturnIsAllDone \in Calls /\ <<>> \o rest = rest
    BY <1>1, CallsTyped DEF Errors
  <2>2. CASE agenda' = rest
    BY <1>1, <1>4, <2>2 DEF CallIs, outcome, observed
  <2>3. CASE agenda' = <<ReturnIsAllDone>> \o rest
    <3>1. Elements(agenda') = {ReturnIsAllDone} \cup Elements(rest) /\ Head(agenda') = ReturnIsAllDone
      BY <1>1, <2>1, <2>3, ElementsOfOne
    <3> QED
      BY <1>1, <1>4, <3>1 DEF ReturnIsAllDone, Close, Call, CallIs, outcome, observed
  <2> QED
    BY <1>4, <2>1, <2>2, <2>3
<1>5. CASE /\ start[n] = "none" /\ start' = [start EXCEPT ![n] = "active"] /\ agenda' = rest
           /\ UNCHANGED <<wait, close, outcome, observed>>
  BY <1>1, <1>2, <1>5 DEF CallIs, outcome, observed, Done
<1> QED
  BY <1>1, <1>3, <1>4, <1>5 DEF TryStartNode, rest

\* Which steps can leave a node started and its wait not begun.
LEMMA UnwaitedBefore ==
  ASSUME TypeOK, IInv, NEW n \in LcNodes, Unwaited(n)', UNCHANGED graph,
         \/ LeavesStarted \/ WaitForStarted \/ CloseStarted \/ CloseNext \/ TryShutDown \/ ReturnFromCall
         \/ \E k \in LcNodes : \/ ReceiveWaitResult(k) \/ ReceiveClosed(k)
                               \/ ReceiveStartResult(k) /\ startCall[k] = "failed"
         \/ ReceiveCtxDone
  PROVE  Unwaited(n)
<1>1. /\ n \in Node /\ (\A m \in LcNodes : m \in Node) /\ start'[n] \in Done /\ wait'[n] = "none"
      /\ start \in [Node -> Phase] /\ wait \in [Node -> Phase]
  BY GraphTyped DEF Unwaited, TypeOK
<1>2. CASE LeavesStarted \/ CloseStarted \/ TryShutDown \/ ReturnFromCall \/ ReceiveCtxDone
  BY <1>1, <1>2 DEF LeavesStarted, CloseStarted, TryShutDown, ReturnFromCall, ReceiveCtxDone, nodes, Unwaited
<1>3. ASSUME NEW k \in LcNodes, NEW phase \in {"skipped", "active", "completed"},
             start' = start, wait' = wait \/ wait' = [wait EXCEPT ![k] = phase]
      PROVE  Unwaited(n)
  BY <1>1, <1>3 DEF Unwaited
<1>4. ASSUME NEW k \in LcNodes, NEW phase \in Done,
             start' = [start EXCEPT ![k] = phase], wait' = [wait EXCEPT ![k] = "skipped"]
      PROVE  Unwaited(n)
  BY <1>1, <1>4 DEF Unwaited
<1>5. CASE WaitForStarted
  <2>1. PICK k \in Head(agenda).nodes : agenda # <<>> /\ TryWaitForNode(k, Tail(agenda))
    BY <1>5 DEF WaitForStarted, CallIs
  <2>2. k \in LcNodes
    BY <2>1, HeadTyped
  <2> QED
    BY <1>3, <2>1, <2>2 DEF TryWaitForNode, HandleNodeWaited, nodes
<1>6. CASE CloseNext
  <2>1. PICK k \in Head(agenda).nodes :
           agenda # <<>> /\ TryCloseNode(k, <<Close(Head(agenda).nodes \ {k})>> \o Tail(agenda))
    BY <1>6 DEF CloseNext, CallIs
  <2>2. k \in LcNodes /\ "skipped" \in Done
    BY <2>1, HeadTyped DEF Done
  <2>3. UNCHANGED <<start, wait>> \/ (start' = [start EXCEPT ![k] = "skipped"] /\ wait' = [wait EXCEPT ![k] = "skipped"])
    BY <2>1 DEF TryCloseNode
  <2> QED
    BY <1>3, <1>4, <2>2, <2>3
<1>7. ASSUME NEW k \in LcNodes,
             ReceiveWaitResult(k) \/ ReceiveClosed(k) \/ (ReceiveStartResult(k) /\ startCall[k] = "failed")
      PROVE  Unwaited(n)
  <2>1. CASE ReceiveWaitResult(k) \/ ReceiveClosed(k)
    BY <1>3, <2>1 DEF ReceiveWaitResult, ReceiveClosed, HandleNodeWaited
  <2>2. CASE ReceiveStartResult(k) /\ startCall[k] = "failed"
    <3>1. start' = [start EXCEPT ![k] = "completed"] /\ wait' = [wait EXCEPT ![k] = "skipped"] /\ "completed" \in Done
      BY <2>2 DEF ReceiveStartResult, HandleNodeStartError, Done
    <3> QED
      BY <1>4, <3>1
  <2> QED
    BY <1>7, <2>1, <2>2
<1> QED
  BY <1>2, <1>5, <1>6, <1>7

LEMMA NextWaitsAhead ==
  ASSUME SharedHook = {}, TypeOK, IInv, ReadyCounted, WaitsAhead, [Next]_vars
  PROVE  WaitsAhead'
<1>1. NodeStep /\ UNCHANGED graph /\ LcNodes' = LcNodes
  BY NextMoves, GraphFixed DEF NodeStep
<1> SUFFICES ASSUME NEW n \in LcNodes, Unwaited(n)'
             PROVE  Wait(n) \in Elements(agenda')
  BY <1>1 DEF WaitsAhead, OnAgenda, Wait, Call
<1>2. /\ agenda \in Seq(Calls) /\ n \in Node /\ start'[n] \in Done /\ wait'[n] = "none"
      /\ start \in [Node -> Phase] /\ wait \in [Node -> Phase]
  BY GraphTyped DEF TypeOK, Unwaited
<1>3. agenda = <<>> => OnAgenda = {}
  BY ElementsOfJoin, <<>> \in Seq(Calls) DEF OnAgenda
<1>4. Unwaited(n) => Wait(n) \in OnAgenda /\ agenda # <<>> /\ ~AllDone
  <2>1. AllDone => wait[n] \in Done
    BY AllDoneMeansOver DEF IInv, AllOver, IsDone
  <2> QED
    BY <1>3, <2>1 DEF WaitsAhead, Unwaited, Done
<1>5. CASE UNCHANGED <<agenda, start, wait>>
  BY <1>4, <1>5 DEF Unwaited, OnAgenda
<1>6. CASE RunBegins
  BY <1>2, <1>6 DEF RunBegins, IInv, Quiet, NothingStarted, nodes, Done
<1>7. CASE StartNextLeaf \/ StartNextDependent
  <2>1. PICK k \in Head(agenda).nodes, call \in LoopsToStart :
           /\ k \in LcNodes /\ agenda # <<>> /\ Head(agenda) \in LoopsToStart
           /\ TryStartNode(k, <<call>> \o Tail(agenda))
    BY <1>7, LoopStarts
  <2>2. /\ Elements(Tail(agenda)) \subseteq Elements(agenda') /\ wait' = wait
        /\ n # k => start'[n] = start[n]
        /\ start'[k] \in Done => start[k] \in Done \/ Wait(k) \in Elements(agenda')
    BY <2>1, HeadTyped, TryStartElements
  <2>3. OnAgenda = {Head(agenda)} \cup Elements(Tail(agenda))
    BY <1>2, <2>1, ElementsOfTail DEF OnAgenda
  <2>4. Wait(n) # Head(agenda)
    BY <2>1 DEF LoopsToStart, Wait, Call
  <2> QED
    BY <1>2, <1>4, <2>2, <2>3, <2>4 DEF Unwaited
<1>8. CASE \/ LeavesStarted \/ WaitForStarted \/ CloseStarted \/ CloseNext \/ TryShutDown \/ ReturnFromCall
           \/ \E k \in LcNodes : \/ ReceiveWaitResult(k) \/ ReceiveClosed(k)
                                 \/ ReceiveStartResult(k) /\ startCall[k] = "failed"
           \/ ReceiveCtxDone
  <2>1. Unwaited(n) /\ Wait(n) \in OnAgenda /\ agenda # <<>> /\ ~AllDone
    BY <1>1, <1>4, <1>8, UnwaitedBefore
  <2>2. NoNewStart
    BY <1>8, StepsAddNoStart
  <2>3. CASE Head(agenda) = Wait(n)
    <3>1. WaitForStarted
      BY <1>8, <2>1, <2>3 DEF Wait, Call, LeavesStarted, CloseStarted, CloseNext, TryShutDown, ReturnFromCall,
         ReceiveWaitResult, ReceiveClosed, ReceiveStartResult, ReceiveCtxDone, Receiving, CallIs
    <3>2. TryWaitForNode(n, Tail(agenda)) /\ wait[n] = "none"
      BY <2>1, <2>3, <3>1 DEF WaitForStarted, Wait, Call, Unwaited
    <3> QED
      BY <1>2, <3>2 DEF TryWaitForNode, HandleNodeWaited
  <2> QED
    BY <2>1, <2>2, <2>3 DEF NoNewStart, Ends
<1>9. ASSUME NEW k \in LcNodes, ReceiveStartResult(k), startCall[k] = "ok"
      PROVE  Wait(n) \in Elements(agenda')
  <2>1. agenda = <<>> /\ HandleNodeStarted(k, "completed", <<>>)
    BY <1>9 DEF ReceiveStartResult, Receiving
  <2>2. n = k
    BY <1>2, <1>4, <2>1, GraphTyped DEF HandleNodeStarted, Unwaited
  <2> QED
    BY <2>1, <2>2, StartedElements, <<>> \in Seq(Calls)
<1>10. ASSUME NEW k \in LcNodes, StartReturns(k) \/ WaitReturns(k) \/ CloseReturns(k) \/ StartTimesOut(k)
       PROVE  Wait(n) \in Elements(agenda')
  BY <1>5, <1>10 DEF StartReturns, WaitReturns, CloseReturns, StartTimesOut, session
<1>11. CASE CancelRunCtx \/ Finished \/ UNCHANGED vars
  BY <1>5, <1>11 DEF CancelRunCtx, Finished, session, vars, nodes
<1> QED
  BY <1>6, <1>7, <1>8, <1>9, <1>10, <1>11 DEF Next, SessionStep, ReceiveStartResult

-----------------------------------------------------------------------------
(* A shutdown begins when the loop is idle, or all waits are over *)

LEMMA HeadOfJoin ==
  ASSUME NEW S, NEW s \in Seq(S), NEW a \in S
  PROVE  <<a>> \o s # <<>> /\ Head(<<a>> \o s) = a
OBVIOUS

LEMMA NotShutDown ==
  ASSUME TypeOK, NEW rest \in Seq(Calls), NEW ns \in SUBSET LcNodes,
         agenda' = <<Close(ns)>> \o rest \/ agenda' = <<StartLeaves(ns)>> \o rest
  PROVE  ~CallIs("shutDown")'
<1>1. Close(ns) \in Calls /\ StartLeaves(ns) \in Calls
  BY CallsTyped DEF Errors
<1>2. Head(agenda') \in {Close(ns), StartLeaves(ns)}
  BY <1>1, HeadOfJoin
<1> QED
  BY <1>2 DEF CallIs, Close, StartLeaves, Call

LEMMA NoWaitsLeft ==
  ASSUME TypeOK, IInv', UNCHANGED graph, remainingWaits' = 0
  PROVE  AllWaited'
<1>1. LcNodes' = LcNodes
  BY GraphFixed
<1>2. Cardinality(Open(wait')) = 0
  BY <1>1 DEF IInv, CountersExact, Open
<1>3. Open(wait') = {}
  BY <1>2, OpenFinite, FS_EmptySet
<1> QED
  BY <1>1, <1>3 DEF Open, AllWaited

LEMMA WaitedShutsDown ==
  ASSUME TypeOK, IInv', NEW n \in LcNodes, NEW failed \in BOOLEAN, NEW phase, NEW rest \in Seq(Calls),
         HandleNodeWaited(n, failed, phase, rest), CallIs("shutDown")'
  PROVE  ~ShuttingDown /\ IF failed THEN Head(agenda').err = "hook" ELSE AllWaited'
<1>1. {n} \in SUBSET LcNodes /\ {} \in SUBSET LcNodes /\ UNCHANGED graph
  BY DEF HandleNodeWaited
<1>2. CASE agenda' = <<Close({n})>> \o rest \/ agenda' = <<ReturnIsAllDone>> \o rest
  BY <1>1, <1>2, NotShutDown DEF ReturnIsAllDone
<1>3. CASE ~ShuttingDown /\ failed /\ agenda' = <<ShutDown("hook"), Close({n})>> \o rest
  <2>1. ShutDown("hook") \in Calls /\ Close({n}) \in Calls
    BY <1>1, CallsTyped DEF Errors
  <2>2. agenda' = <<ShutDown("hook")>> \o (<<Close({n})>> \o rest) /\ <<Close({n})>> \o rest \in Seq(Calls)
    BY <1>3, <2>1, TwoInFront
  <2>3. Head(agenda') = ShutDown("hook")
    BY <2>1, <2>2, HeadOfJoin
  <2> QED
    BY <1>3, <2>3 DEF ShutDown, Call
<1>4. CASE ~ShuttingDown /\ ~failed /\ OnlyClosesLeft
  BY <1>1, <1>4, NoWaitsLeft DEF OnlyClosesLeft
<1> QED
  BY <1>2, <1>3, <1>4 DEF HandleNodeWaited

LEMMA FreshShutDown ==
  ASSUME SharedHook = {}, TypeOK, IInv, IInv', ReadyCounted, OneShutDown, [Next]_vars, CallIs("shutDown")'
  PROVE  \/ UNCHANGED <<agenda, start, wait>>
         \/ (agenda = <<>> \/ AllWaited') /\ (Head(agenda').err = "nil" => AllWaited')
<1>1. agenda # <<>> => /\ Tail(agenda) \in Seq(Calls) /\ Tail(agenda) \in Seq(OtherCalls)
                       /\ Head(agenda).nodes \subseteq LcNodes
  BY HeadTyped DEF OneShutDown
<1>2. agenda \in Seq(Calls) /\ {} \in SUBSET LcNodes /\ Roots \in SUBSET LcNodes /\ Leaves \in SUBSET LcNodes
      /\ <<>> \in Seq(Calls)
  BY DEF TypeOK, Roots, Leaves
<1>3. CASE RunBegins
  <2>1. CASE agenda' = <<StartLeaves(Leaves)>>
    <3>1. agenda' = <<StartLeaves(Leaves)>> \o <<>>
      BY <2>1
    <3> QED
      BY <1>2, <3>1, NotShutDown
  <2> QED
    BY <1>3, <2>1 DEF RunBegins, nodes
<1>4. CASE StartNextLeaf \/ StartNextDependent
  <2>1. PICK n \in Head(agenda).nodes, call \in LoopsToStart :
           /\ n \in LcNodes /\ agenda # <<>> /\ TryStartNode(n, <<call>> \o Tail(agenda))
    BY <1>4, LoopStarts
  <2>2. ~CallIs("shutDown")'
    BY <1>1, <2>1, TryStartElements
  <2> QED
    BY <2>2
<1>5. CASE LeavesStarted \/ ReturnFromCall
  <2>1. agenda # <<>> /\ (agenda' = Tail(agenda) \/ agenda' = <<>>)
    BY <1>5 DEF LeavesStarted, ReturnFromCall, CallIs
  <2>2. Tail(agenda) # <<>> => Head(Tail(agenda)) \in OtherCalls
    BY <1>1, <2>1
  <2> QED
    BY <2>1, <2>2 DEF CallIs, OtherCalls
<1>6. CASE WaitForStarted
  <2>1. PICK n \in Head(agenda).nodes : agenda # <<>> /\ TryWaitForNode(n, Tail(agenda))
    BY <1>6 DEF WaitForStarted, CallIs
  <2>2. n \in LcNodes
    BY <1>1, <2>1
  <2>3. CASE HandleNodeWaited(n, FALSE, "skipped", Tail(agenda))
    BY <1>1, <2>1, <2>2, <2>3, WaitedShutsDown
  <2>4. CASE agenda' = Tail(agenda)
    <3>1. Tail(agenda) # <<>> => Head(Tail(agenda)) \in OtherCalls
      BY <1>1, <2>1
    <3> QED
      BY <2>4, <3>1 DEF CallIs, OtherCalls
  <2>5. CASE agenda' = <<ReturnIsAllDone>> \o Tail(agenda)
    BY <1>1, <1>2, <2>1, <2>5, NotShutDown DEF ReturnIsAllDone
  <2>6. <<>> \o Tail(agenda) = Tail(agenda)
    BY <1>1, <2>1
  <2> QED
    BY <2>1, <2>3, <2>4, <2>5, <2>6 DEF TryWaitForNode
<1>7. CASE CloseStarted
  <2>1. ToCloseAfterStart(Head(agenda).nodes) \in SUBSET LcNodes /\ agenda # <<>>
    BY <1>1, <1>7 DEF ToCloseAfterStart, CloseStarted, CallIs
  <2> QED
    BY <1>1, <1>7, <2>1, NotShutDown DEF CloseStarted
<1>8. CASE CloseNext
  <2>1. PICK n \in Head(agenda).nodes :
           agenda # <<>> /\ TryCloseNode(n, <<Close(Head(agenda).nodes \ {n})>> \o Tail(agenda))
    BY <1>8 DEF CloseNext, CallIs
  <2> DEFINE more == Head(agenda).nodes \ {n}
             rest == <<Close(more)>> \o Tail(agenda)
  <2>2. n \in LcNodes /\ more \in SUBSET LcNodes
    BY <1>1, <2>1
  <2>3. rest \in Seq(Calls)
    BY <1>1, <2>1, <2>2, CallsTyped, AgendaTyped DEF Errors
  <2>4. dependsOn[n] \in SUBSET LcNodes
    BY <2>2, GraphTyped
  <2>5. CASE agenda' = rest
    BY <1>1, <2>1, <2>2, <2>5, NotShutDown
  <2>6. ASSUME NEW ns \in SUBSET LcNodes, agenda' = <<Close(ns)>> \o rest
        PROVE  FALSE
    <3> HIDE DEF rest
    <3> QED
      BY <2>3, <2>6, NotShutDown
  <2>7. TryCloseNode(n, rest)
    BY <2>1
  <2> HIDE DEF rest
  <2> QED
    BY <1>2, <2>4, <2>5, <2>6, <2>7 DEF TryCloseNode, CloseHook, HandleNodeClosed
<1>9. CASE TryShutDown
  BY <1>1, <1>2, <1>9, NotShutDown DEF TryShutDown, CallIs, ReturnIsAllDone
<1>10. ASSUME NEW n \in LcNodes, ReceiveStartResult(n)
       PROVE  agenda = <<>> /\ Head(agenda').err = "hook"
  <2>1. agenda = <<>>
    BY <1>10 DEF ReceiveStartResult, Receiving
  <2>2. CASE HandleNodeStarted(n, "completed", <<>>)
    <3>1. Head(agenda') = StartDependents(NextToStart(n))
      BY <1>2, <2>2, StartedElements
    <3> QED
      BY <3>1 DEF CallIs, StartDependents, Call
  <2>3. CASE HandleNodeStartError(n, <<>>)
    <3>1. ShutDown("hook") \in Calls /\ Close(dependsOn[n]) \in Calls
      BY GraphTyped, CallsTyped DEF Errors
    <3>2. agenda' = <<ShutDown("hook")>> \o (<<Close(dependsOn[n])>> \o <<>>)
          /\ <<Close(dependsOn[n])>> \o <<>> \in Seq(Calls)
      BY <1>2, <2>3, <3>1, TwoInFront DEF HandleNodeStartError
    <3>3. Head(agenda') = ShutDown("hook")
      BY <3>1, <3>2, HeadOfJoin
    <3> QED
      BY <2>1, <3>3 DEF ShutDown, Call
  <2> QED
    BY <1>10, <2>2, <2>3 DEF ReceiveStartResult
<1>11. ASSUME NEW n \in LcNodes, ReceiveWaitResult(n)
       PROVE  agenda = <<>> /\ (Head(agenda').err = "nil" => AllWaited')
  <2>1. agenda = <<>> /\ HandleNodeWaited(n, RunFailed(n), "completed", <<>>) /\ RunFailed(n) \in BOOLEAN
    BY <1>11 DEF ReceiveWaitResult, Receiving, RunFailed
  <2> QED
    BY <1>2, <2>1, WaitedShutsDown
<1>12. ASSUME NEW n \in LcNodes, ReceiveClosed(n)
       PROVE  FALSE
  <2>1. dependsOn[n] \in SUBSET LcNodes /\ HandleNodeClosed(n, "completed", <<>>)
    BY <1>12, GraphTyped DEF ReceiveClosed
  <2>2. agenda' # <<>>
    BY DEF CallIs
  <2> QED
    BY <1>2, <2>1, <2>2, NotShutDown DEF HandleNodeClosed
<1>13. CASE ReceiveCtxDone
  BY <1>13 DEF ReceiveCtxDone, Receiving, ShutDown, Call
<1>14. ASSUME NEW n \in LcNodes, StartReturns(n) \/ WaitReturns(n) \/ CloseReturns(n) \/ StartTimesOut(n)
       PROVE  UNCHANGED <<agenda, start, wait>>
  BY <1>14 DEF StartReturns, WaitReturns, CloseReturns, StartTimesOut, session
<1>15. CASE CancelRunCtx \/ Finished \/ UNCHANGED vars
  BY <1>15 DEF CancelRunCtx, Finished, session, vars, nodes
<1> QED
  BY <1>3, <1>4, <1>5, <1>6, <1>7, <1>8, <1>9, <1>10, <1>11, <1>12, <1>13, <1>14, <1>15 DEF Next, SessionStep

-----------------------------------------------------------------------------
(* SInv is inductive *)

\* Only TryShutDown begins the shutdown, which no one takes back.
LEMMA ShutdownBegins ==
  ASSUME TypeOK, IInv, ShuttingDown => Begun, [Next]_vars
  PROVE  /\ UNCHANGED <<shutdownErr, onShutdownCalls>> \/ TryShutDown
         /\ TryShutDown => Begun' /\ shutdownErr' = (IF ShuttingDown THEN shutdownErr ELSE Head(agenda).err)
         /\ Begun => Begun'
         /\ pc' = "run" => pc = "run" /\ UNCHANGED onShutdownCalls
         /\ TryShutDown => UNCHANGED <<start, wait>>
<1>1. onShutdownCalls \in Nat
  BY DEF TypeOK
<1> DEFINE Goes == UNCHANGED <<shutdownErr, onShutdownCalls>> /\ (pc' = "run" => pc = "run")
<1>2. CASE TryShutDown
  <2>1. CallIs("shutDown") /\ pc # "run" /\ pc' = pc
    BY <1>2, InPlay DEF TryShutDown, CallIs
  <2> QED
    BY <1>1, <1>2, <2>1 DEF TryShutDown, Begun, ShuttingDown
<1>3. ASSUME RunBegins \/ LeavesStarted \/ CloseStarted \/ ReturnFromCall \/ ReceiveCtxDone
      PROVE  Goes
  BY <1>3, SMTT(30) DEF RunBegins, LeavesStarted, CloseStarted, ReturnFromCall, ReceiveCtxDone, outcome, observed
<1>4. ASSUME StartNextLeaf \/ StartNextDependent \/ WaitForStarted \/ CloseNext
      PROVE  Goes
  BY <1>4 DEF StartNextLeaf, StartNextDependent, WaitForStarted, CloseNext, TryStartNode, HandleNodeStarted,
     HandleNodeStartError, TryWaitForNode, HandleNodeWaited, TryCloseNode, outcome, observed
<1>5. ASSUME NEW n \in LcNodes, ReceiveStartResult(n) \/ ReceiveWaitResult(n) \/ ReceiveClosed(n)
      PROVE  Goes
  BY <1>5 DEF ReceiveStartResult, ReceiveWaitResult, ReceiveClosed, HandleNodeStarted, HandleNodeStartError,
     HandleNodeWaited, outcome, observed
<1>6. ASSUME NEW n \in LcNodes, StartReturns(n) \/ WaitReturns(n) \/ CloseReturns(n) \/ StartTimesOut(n)
      PROVE  Goes
  BY <1>6 DEF StartReturns, WaitReturns, CloseReturns, StartTimesOut, session, outcome, observed
<1>7. ASSUME CancelRunCtx \/ Finished \/ UNCHANGED vars
      PROVE  Goes
  BY <1>7 DEF CancelRunCtx, Finished, session, vars, outcome, observed
<1> HIDE DEF Goes
<1>8. Goes \/ TryShutDown
  BY <1>3, <1>4, <1>5, <1>6, <1>7 DEF Next, SessionStep
<1>9. CASE Goes /\ ~TryShutDown
  BY <1>9 DEF Begun, Goes
<1> QED
  BY <1>2, <1>8, <1>9

LEMMA NextOnlyClosesRemain ==
  ASSUME SharedHook = {}, TypeOK, IInv, IInv', ReadyCounted, OneShutDown, SInv, [Next]_vars
  PROVE  OnlyClosesRemain'
<1>1. NodeStep /\ UNCHANGED graph /\ LcNodes' = LcNodes
  BY NextMoves, GraphFixed DEF NodeStep
<1>2. AllWaited => AllWaited'
  BY <1>1, MovesStay DEF AllWaited
<1>3. (ShuttingDown => Begun) /\ OnlyClosesRemain
  BY DEF SInv
<1>4. ASSUME Begun', ~ShuttingDown'
      PROVE  AllWaited'
  <2>1. CASE UNCHANGED <<shutdownErr, onShutdownCalls>>
    BY <1>2, <1>3, <1>4, <2>1 DEF OnlyClosesRemain, Begun, ShuttingDown
  <2>2. CASE TryShutDown
    <3>1. shutdownErr' = "nil" /\ shutdownErr' = (IF ShuttingDown THEN shutdownErr ELSE Head(agenda).err)
      BY <1>3, <1>4, <2>2, ShutdownBegins DEF ShuttingDown
    <3> QED
      BY <1>2, <1>3, <2>2, <3>1 DEF OnlyClosesRemain, ShuttingDown, TryShutDown
  <2> QED
    BY <1>3, <2>1, <2>2, ShutdownBegins
<1>5. ASSUME CallIs("shutDown")', Head(agenda').err = "nil"
      PROVE  AllWaited'
  <2>1. UNCHANGED agenda \/ AllWaited'
    BY <1>5, FreshShutDown
  <2> QED
    BY <1>2, <1>3, <1>5, <2>1 DEF OnlyClosesRemain, CallIs
<1> QED
  BY <1>4, <1>5 DEF OnlyClosesRemain

\* Nothing has put a close on the agenda that is not to be made in a shutdown.
LEMMA NextNoCloseYet ==
  ASSUME SharedHook = {}, TypeOK, IInv, IInv', ReadyCounted, SInv, [Next]_vars, ~Stopping'
  PROVE  NoCloseYet'
<1>1. /\ ShuttingDown => Begun
      /\ ~Begun /\ ~TryShutDown
  <2>1. ShuttingDown => Begun
    BY DEF SInv
  <2> QED
    BY <2>1, ShutdownBegins DEF Stopping
<1>2. NothingEndsEarly /\ ~ShuttingDown /\ (CallIs("shutDown") \/ NoCloseYet) /\ ~CallIs("shutDown")'
  BY <1>1 DEF SInv, Stopping
<1> SUFFICES ASSUME NEW c \in Elements(agenda'), c.op = "close"
             PROVE  c.nodes = {}
  BY DEF NoCloseYet, OnAgenda
<1>3. ASSUME ~CallIs("shutDown"), c \in OnAgenda
      PROVE  c.nodes = {}
  BY <1>2, <1>3 DEF NoCloseYet
<1>4. agenda # <<>> => /\ Tail(agenda) \in Seq(Calls) /\ Elements(Tail(agenda)) \subseteq OnAgenda
                       /\ Head(agenda) \in OnAgenda
  <2>1. agenda \in Seq(Calls)
    BY DEF TypeOK
  <2> QED
    BY <2>1, HeadTyped, ElementsOfTail DEF OnAgenda
<1>5. <<>> \in Seq(Calls) /\ Elements(<<>>) = {} /\ {} \in SUBSET LcNodes
  BY ElementsOfJoin, <<>> \in Seq(Calls)
<1>6. ReturnIsAllDone.nodes = {} /\ ReturnIsAllDone \in Calls
  BY CallsTyped, <1>5 DEF ReturnIsAllDone, Close, Call, Errors
<1>7. ASSUME UNCHANGED agenda
      PROVE  c.nodes = {}
  BY <1>2, <1>3, <1>7 DEF OnAgenda, CallIs
<1>8. CASE RunBegins
  <2>1. CASE agenda' = <<StartLeaves(Leaves)>>
    <3>1. agenda' = <<StartLeaves(Leaves)>> \o <<>> /\ StartLeaves(Leaves) \in Calls
      BY <2>1, CallsTyped DEF Leaves, Errors
    <3>2. Elements(agenda') = {StartLeaves(Leaves)} \cup {}
      <4>1. Elements(<<StartLeaves(Leaves)>> \o <<>>) = {StartLeaves(Leaves)} \cup Elements(<<>>)
        BY <1>5, <3>1, ElementsOfOne
      <4> QED
        BY <1>5, <3>1, <4>1
    <3>3. c = StartLeaves(Leaves)
      BY <3>2
    <3> QED
      BY <3>3 DEF StartLeaves, Call
  <2> QED
    BY <1>7, <1>8, <2>1 DEF RunBegins
<1>9. CASE StartNextLeaf \/ StartNextDependent
  <2>1. PICK n \in Head(agenda).nodes, call \in LoopsToStart :
           /\ n \in LcNodes /\ agenda # <<>> /\ Head(agenda) \in LoopsToStart
           /\ TryStartNode(n, <<call>> \o Tail(agenda))
    BY <1>9, LoopStarts
  <2>2. c \in {call} \cup Elements(Tail(agenda)) \/ c.nodes = {}
    <3>1. \A d \in Elements(agenda') : \/ d \in {call} \cup Elements(Tail(agenda))
                                       \/ d.op = "close" /\ d.nodes = {}
                                       \/ d.op \notin {"close", "shutDown"}
      BY <1>4, <2>1, TryStartElements
    <3> QED
      BY <3>1
  <2>3. call.op # "close" /\ ~CallIs("shutDown")
    BY <2>1 DEF LoopsToStart, CallIs
  <2> QED
    BY <1>3, <1>4, <2>1, <2>2, <2>3
<1>10. CASE LeavesStarted \/ ReturnFromCall
  <2>1. agenda # <<>> /\ ~CallIs("shutDown") /\ (agenda' = Tail(agenda) \/ agenda' = <<>>)
    BY <1>10 DEF LeavesStarted, ReturnFromCall, CallIs
  <2> QED
    BY <1>3, <1>4, <1>5, <2>1
<1>11. ASSUME NEW n \in LcNodes, NEW failed \in BOOLEAN, NEW phase, NEW rest \in Seq(Calls),
              HandleNodeWaited(n, failed, phase, rest)
       PROVE  c \in Elements(rest) \/ c.nodes = {}
  <2>1. CASE agenda' = <<ReturnIsAllDone>> \o rest
    BY <1>6, <2>1, ElementsOfOne
  <2>2. CASE agenda' = <<ShutDown("hook"), Close({n})>> \o rest \/ agenda' = <<ShutDown("nil")>> \o rest
    <3>1. ShutDown("hook") \in Calls /\ ShutDown("nil") \in Calls /\ Close({n}) \in Calls
      BY <1>5, CallsTyped DEF Errors
    <3>2. Head(agenda') \in {ShutDown("hook"), ShutDown("nil")} /\ agenda' # <<>>
      <4>1. CASE agenda' = <<ShutDown("hook"), Close({n})>> \o rest
        <5>1. agenda' = <<ShutDown("hook")>> \o (<<Close({n})>> \o rest) /\ <<Close({n})>> \o rest \in Seq(Calls)
          BY <3>1, <4>1, TwoInFront
        <5> QED
          BY <3>1, <5>1, HeadOfJoin
      <4>2. CASE agenda' = <<ShutDown("nil")>> \o rest
        BY <3>1, <4>2, HeadOfJoin
      <4> QED
        BY <2>2, <4>1, <4>2
    <3> QED
      BY <1>2, <3>2 DEF CallIs, ShutDown, Call
  <2> QED
    BY <1>2, <1>11, <2>1, <2>2 DEF HandleNodeWaited
<1>12. CASE WaitForStarted
  <2>1. PICK n \in Head(agenda).nodes : agenda # <<>> /\ TryWaitForNode(n, Tail(agenda)) /\ ~CallIs("shutDown")
    BY <1>12 DEF WaitForStarted, CallIs
  <2>2. n \in LcNodes /\ <<>> \o Tail(agenda) = Tail(agenda)
    BY <1>4, <2>1, HeadTyped
  <2>3. CASE agenda' = Tail(agenda)
    BY <1>3, <1>4, <2>1, <2>3
  <2>4. CASE agenda' = <<ReturnIsAllDone>> \o Tail(agenda)
    BY <1>3, <1>4, <1>6, <2>1, <2>4, ElementsOfOne
  <2>5. CASE HandleNodeWaited(n, FALSE, "skipped", Tail(agenda))
    BY <1>3, <1>4, <1>11, <2>1, <2>2, <2>5
  <2> QED
    BY <2>1, <2>2, <2>3, <2>4, <2>5 DEF TryWaitForNode
<1>13. CASE CloseStarted
  <2>1. agenda # <<>> /\ ~CallIs("shutDown") /\ agenda' = <<ReturnIsAllDone>> \o Tail(agenda)
    BY <1>2, <1>13 DEF CloseStarted, ToCloseAfterStart, CallIs, ReturnIsAllDone
  <2> QED
    BY <1>3, <1>4, <1>6, <2>1, ElementsOfOne
<1>14. CASE CloseNext
  BY <1>1, <1>14, ClosesAfter DEF CloseNext
<1>15. ASSUME NEW n \in LcNodes, ReceiveStartResult(n)
       PROVE  c.nodes = {}
  <2>1. CASE HandleNodeStarted(n, "completed", <<>>)
    <3>1. c \in {StartDependents(NextToStart(n)), Wait(n), CloseIfShuttingDown(n)}
      BY <1>5, <2>1, StartedElements
    <3> QED
      BY <3>1 DEF StartDependents, Wait, CloseIfShuttingDown, Call
  <2>2. CASE HandleNodeStartError(n, <<>>)
    <3>1. ShutDown("hook") \in Calls /\ Close(dependsOn[n]) \in Calls
      BY GraphTyped, CallsTyped DEF Errors
    <3>2. agenda' = <<ShutDown("hook")>> \o (<<Close(dependsOn[n])>> \o <<>>)
          /\ <<Close(dependsOn[n])>> \o <<>> \in Seq(Calls)
      BY <1>5, <2>2, <3>1, TwoInFront DEF HandleNodeStartError
    <3>3. Head(agenda') = ShutDown("hook") /\ agenda' # <<>>
      BY <3>1, <3>2, HeadOfJoin
    <3> QED
      BY <1>2, <3>3 DEF ShutDown, Call, CallIs
  <2> QED
    BY <1>15, <2>1, <2>2 DEF ReceiveStartResult
<1>16. ASSUME NEW n \in LcNodes, ReceiveWaitResult(n)
       PROVE  c.nodes = {}
  <2>1. HandleNodeWaited(n, RunFailed(n), "completed", <<>>) /\ RunFailed(n) \in BOOLEAN
    BY <1>16 DEF ReceiveWaitResult, RunFailed
  <2> QED
    BY <1>5, <1>11, <2>1
<1>17. ASSUME NEW n \in LcNodes, ReceiveClosed(n)
       PROVE  FALSE
  BY <1>2, <1>17 DEF ReceiveClosed, IInv, GoroutinesHavePhases, NothingEndsEarly, IsDone, Done
<1>18. CASE ReceiveCtxDone
  BY <1>2, <1>18 DEF ReceiveCtxDone, CallIs, ShutDown, Call
<1>19. ASSUME NEW n \in LcNodes, StartReturns(n) \/ WaitReturns(n) \/ CloseReturns(n) \/ StartTimesOut(n)
       PROVE  c.nodes = {}
  BY <1>7, <1>19 DEF StartReturns, WaitReturns, CloseReturns, StartTimesOut, session
<1>20. CASE CancelRunCtx \/ Finished \/ UNCHANGED vars
  BY <1>7, <1>20 DEF CancelRunCtx, Finished, session, vars
<1> QED
  BY <1>1, <1>8, <1>9, <1>10, <1>12, <1>13, <1>14, <1>15, <1>16, <1>17, <1>18, <1>19, <1>20 DEF Next, SessionStep

\* A shutdown finds no start left to be made, and none is added in it.
LEMMA NextNoStartLeft ==
  ASSUME SharedHook = {}, TypeOK, IInv, IInv', ReadyCounted, OneShutDown, SInv, [Next]_vars, Stopping'
  PROVE  NoStartLeft' /\ StartsAreWaitedFor'
<1>1. NodeStep /\ UNCHANGED graph /\ LcNodes' = LcNodes /\ Calls' = Calls /\ LoopsToStart' = LoopsToStart
  <2>1. NodeStep /\ UNCHANGED graph /\ LcNodes' = LcNodes /\ Calls' = Calls
    BY NextMoves, GraphFixed DEF NodeStep
  <2> QED
    BY <2>1 DEF LoopsToStart
<1>2. Begun \/ TryShutDown \/ CallIs("shutDown")'
  <2>1. ShuttingDown => Begun
    BY DEF SInv
  <2> QED
    BY <2>1, ShutdownBegins DEF Stopping, Begun
<1>3. (TryShutDown => Stopping) /\ (UNCHANGED agenda => Stopping)
  BY <1>2 DEF TryShutDown, Stopping, CallIs
<1>4. CallIs("shutDown")' => Stopping \/ agenda = <<>> \/ AllWaited'
  BY <1>2, <1>3, FreshShutDown
<1>5. Stopping \/ agenda = <<>> \/ AllWaited'
  BY <1>2, <1>3, <1>4 DEF Stopping
<1>6. /\ Stopping => NoStartLeft /\ StartsAreWaitedFor
      /\ agenda = <<>> => OnAgenda = {}
      /\ \A n \in LcNodes : Unwaited(n) => Wait(n) \in OnAgenda
  BY ElementsOfJoin, <<>> \in Seq(Calls) DEF SInv, WaitsAhead, OnAgenda
<1>7. \A n \in LcNodes : n \in Node /\ (start[n] # "none" => start'[n] # "none")
  BY <1>1, MovesStay, GraphTyped
<1>8. AllWaited' => \A n \in LcNodes : start'[n] # "none"
  BY <1>1 DEF AllWaited, IInv, StartFirst, Done
<1>9. \A c \in LoopsToStart : c.nodes \subseteq LcNodes
  BY DEF LoopsToStart, Calls
<1>10. NoStartLeft' <=> \A c \in Elements(agenda') \cap LoopsToStart : \A n \in c.nodes : start'[n] # "none"
  BY <1>1 DEF NoStartLeft, OnAgenda
<1>11. StartsAreWaitedFor' <=> \A n \in LcNodes : Unwaited(n)' => agenda' \in LateStart(n)
  BY <1>1 DEF StartsAreWaitedFor, LateStart, StartDependents, Wait, CloseIfShuttingDown, Call
\* Steps that start nothing.
<1>12. ASSUME NoNewStart PROVE NoStartLeft'
  <2>1. Elements(agenda') \cap LoopsToStart \subseteq OnAgenda
    BY <1>12 DEF NoNewStart
  <2>2. CASE Stopping
    BY <1>6, <1>7, <1>9, <1>10, <2>1, <2>2 DEF NoStartLeft
  <2>3. CASE agenda = <<>>
    BY <1>6, <1>10, <2>1, <2>3
  <2>4. CASE AllWaited'
    BY <1>8, <1>9, <1>10, <2>4
  <2> QED
    BY <1>5, <2>2, <2>3, <2>4
<1>13. CASE \/ LeavesStarted \/ WaitForStarted \/ CloseStarted \/ CloseNext \/ TryShutDown \/ ReturnFromCall
            \/ \E k \in LcNodes : \/ ReceiveWaitResult(k) \/ ReceiveClosed(k)
                                  \/ ReceiveStartResult(k) /\ startCall[k] = "failed"
            \/ ReceiveCtxDone
  <2>1. NoStartLeft'
    BY <1>12, <1>13, StepsAddNoStart
  <2>2. ASSUME NEW n \in LcNodes, Unwaited(n)'
        PROVE  agenda' \in LateStart(n)
    <3>1. Unwaited(n)
      BY <1>1, <1>13, <2>2, UnwaitedBefore
    <3>2. agenda # <<>> /\ ~AllWaited'
      BY <1>1, <1>6, <2>2, <3>1 DEF AllWaited, Unwaited, Done
    <3>3. agenda \in LateStart(n)
      BY <1>5, <1>6, <3>1, <3>2 DEF StartsAreWaitedFor
    <3>4. CASE agenda = <<Wait(n), CloseIfShuttingDown(n)>>
      <4>1. CallIs("wait") /\ Head(agenda).nodes = {n}
        BY <3>4 DEF CallIs, Wait, Call
      <4>2. WaitForStarted
        BY <1>13, <3>2, <4>1 DEF LeavesStarted, CloseStarted, CloseNext, TryShutDown, ReturnFromCall,
           ReceiveWaitResult, ReceiveClosed, ReceiveStartResult, ReceiveCtxDone, Receiving, CallIs
      <4>3. TryWaitForNode(n, Tail(agenda)) /\ wait[n] = "none" /\ wait \in [Node -> Phase] /\ n \in Node
        BY <1>7, <3>1, <4>1, <4>2 DEF WaitForStarted, Unwaited, TypeOK
      <4>4. wait'[n] # "none"
        BY <4>3 DEF TryWaitForNode, HandleNodeWaited
      <4> QED
        BY <2>2, <4>4 DEF Unwaited
    <3>5. CASE agenda = <<StartDependents({}), Wait(n), CloseIfShuttingDown(n)>>
      <4>1. CallIs("startDependents") /\ Tail(agenda) = <<Wait(n), CloseIfShuttingDown(n)>>
        BY <3>5 DEF CallIs, StartDependents, Call
      <4>2. ReturnFromCall
        BY <1>13, <3>2, <4>1 DEF LeavesStarted, CloseStarted, CloseNext, TryShutDown, WaitForStarted,
           ReceiveWaitResult, ReceiveClosed, ReceiveStartResult, ReceiveCtxDone, Receiving, CallIs
      <4>3. ~AllDone
        BY <3>1, AllDoneMeansOver DEF IInv, AllOver, IsDone, Unwaited, Done
      <4> QED
        BY <4>1, <4>2, <4>3 DEF ReturnFromCall, LateStart
    <3> QED
      BY <3>3, <3>4, <3>5 DEF LateStart
  <2> QED
    BY <1>11, <2>1, <2>2
<1>14. ASSUME UNCHANGED <<agenda, start, wait>>
       PROVE  NoStartLeft' /\ StartsAreWaitedFor'
  BY <1>3, <1>6, <1>10, <1>11, <1>14 DEF NoStartLeft, StartsAreWaitedFor, OnAgenda, Unwaited
<1>15. CASE RunBegins
  <2>1. ~Begun /\ ~CallIs("shutDown") /\ ~TryShutDown
    BY <1>15 DEF SInv, RunBegins, IInv, Quiet, CallIs, TryShutDown
  <2>2. CallIs("shutDown")' /\ UNCHANGED <<start, wait>>
    BY <1>2, <1>15, <2>1 DEF RunBegins, nodes
  <2>3. agenda' = agenda
    BY <1>15, <2>2 DEF RunBegins, CallIs, StartLeaves, Call
  <2> QED
    BY <1>14, <2>2, <2>3
<1>16. CASE StartNextLeaf \/ StartNextDependent
  <2>1. PICK k \in Head(agenda).nodes, call \in LoopsToStart :
           /\ k \in LcNodes /\ agenda # <<>> /\ Head(agenda) \in LoopsToStart /\ call.nodes = Head(agenda).nodes \ {k}
           /\ TryStartNode(k, <<call>> \o Tail(agenda))
    BY <1>16, LoopStarts
  <2>2. Tail(agenda) \in Seq(Calls) /\ agenda \in Seq(Calls)
    BY <2>1, HeadTyped DEF TypeOK
  <2>3. /\ \A c \in Elements(agenda') : \/ c \in {call} \cup Elements(Tail(agenda))
                                        \/ c.op = "close" /\ c.nodes = {}
                                        \/ c.op \notin {"close", "shutDown"} /\ start[k] = "none"
        /\ ~CallIs("shutDown")' /\ wait' = wait /\ onShutdownCalls' = onShutdownCalls
        /\ start[k] # "none" => start' = start
    BY <2>1, <2>2, TryStartElements
  <2>4. Stopping
    BY <2>3 DEF Stopping, Begun
  <2>5. Head(agenda) \in OnAgenda /\ Elements(Tail(agenda)) \subseteq OnAgenda
    BY <2>1, <2>2, ElementsOfTail DEF OnAgenda
  <2>6. \A n \in Head(agenda).nodes : start[n] # "none"
    BY <1>6, <2>1, <2>4, <2>5 DEF NoStartLeft
  <2>7. NoStartLeft'
    <3>1. ASSUME NEW c \in Elements(agenda') \cap LoopsToStart, NEW n \in c.nodes
          PROVE  start'[n] # "none"
      <4>1. c.op # "close" /\ (c = call \/ c \in Elements(Tail(agenda)))
        BY <2>1, <2>3, <2>6, <3>1 DEF LoopsToStart
      <4> QED
        BY <1>6, <2>1, <2>3, <2>4, <2>5, <2>6, <3>1, <4>1 DEF NoStartLeft
    <3> QED
      BY <1>10, <3>1
  <2>8. ASSUME NEW n \in LcNodes, Unwaited(n)'
        PROVE  FALSE
    <3>1. agenda \in LateStart(n)
      BY <1>6, <2>1, <2>3, <2>4, <2>6, <2>8 DEF StartsAreWaitedFor, Unwaited
    <3>2. Head(agenda) \in {StartDependents({}), Wait(n)}
      BY <3>1 DEF LateStart
    <3> QED
      BY <2>1, <3>2 DEF LoopsToStart, StartDependents, Wait, Call
  <2> QED
    BY <1>11, <2>7, <2>8
<1>17. ASSUME NEW k \in LcNodes, ReceiveStartResult(k), startCall[k] = "ok"
       PROVE  NoStartLeft' /\ StartsAreWaitedFor'
  <2>1. agenda = <<>> /\ HandleNodeStarted(k, "completed", <<>>) /\ start[k] = "active"
    BY <1>17 DEF ReceiveStartResult, Receiving, IInv, GoroutinesHavePhases
  <2>2. Elements(agenda') = {StartDependents(NextToStart(k)), Wait(k), CloseIfShuttingDown(k)}
        /\ Head(agenda') = StartDependents(NextToStart(k))
    BY <1>6, <2>1, StartedElements, <<>> \in Seq(Calls) DEF OnAgenda
  <2>3. Begun
    <3>1. ~CallIs("shutDown")' /\ ~TryShutDown
      BY <2>1, <2>2 DEF CallIs, StartDependents, Call, TryShutDown
    <3> QED
      BY <1>2, <3>1
  <2>4. ShuttingDown
    <3>1. wait[k] = "none"
      BY <2>1 DEF IInv, StartFirst, Done
    <3> QED
      BY <2>3, <3>1 DEF SInv, OnlyClosesRemain, AllWaited, Done
  <2>5. NextToStart(k) = {}
    BY <2>4 DEF NextToStart
  <2>6. agenda' \in LateStart(k)
    BY <2>1, <2>5 DEF HandleNodeStarted, LateStart
  <2>7. \A n \in LcNodes : Unwaited(n)' => n = k
    BY <1>6, <1>7, <2>1 DEF HandleNodeStarted, Unwaited, TypeOK
  <2>8. NoStartLeft'
    <3>1. \A c \in Elements(agenda') \cap LoopsToStart : c.nodes = {}
      BY <2>2, <2>5 DEF LoopsToStart, StartDependents, Wait, CloseIfShuttingDown, Call
    <3> QED
      BY <1>10, <3>1
  <2> QED
    BY <1>11, <2>6, <2>7, <2>8
<1>18. ASSUME NEW n \in LcNodes, StartReturns(n) \/ WaitReturns(n) \/ CloseReturns(n) \/ StartTimesOut(n)
       PROVE  UNCHANGED <<agenda, start, wait>>
  BY <1>18 DEF StartReturns, WaitReturns, CloseReturns, StartTimesOut, session
<1>19. ASSUME CancelRunCtx \/ Finished \/ UNCHANGED vars
       PROVE  UNCHANGED <<agenda, start, wait>>
  BY <1>19 DEF CancelRunCtx, Finished, session, vars, nodes
<1> QED
  BY <1>13, <1>14, <1>15, <1>16, <1>17, <1>18, <1>19 DEF Next, SessionStep, ReceiveStartResult

LEMMA NextSInv ==
  ASSUME SharedHook = {}, TypeOK, IInv, ReadyCounted, OneShutDown, SInv, [Next]_vars
  PROVE  SInv'
<1>1. IInv' /\ NodeStep /\ Timely
  BY NextIInv, NextMoves, TimelySteps
<1>2. (ShuttingDown => Begun)' /\ (pc = "run" => ~Begun)'
  <2>1. (ShuttingDown => Begun) /\ (pc = "run" => ~Begun)
    BY DEF SInv
  <2>2. CASE UNCHANGED <<shutdownErr, onShutdownCalls>>
    BY <2>1, <2>2, ShutdownBegins DEF ShuttingDown, Begun
  <2>3. CASE TryShutDown
    <3>1. Begun' /\ (pc' = "run" => UNCHANGED onShutdownCalls)
      BY <2>1, <2>3, ShutdownBegins
    <3> QED
      BY <2>1, <2>3, <3>1, ShutdownBegins DEF Begun
  <2> QED
    BY <2>1, <2>2, <2>3, ShutdownBegins
<1>3. (~Begun => NothingEndsEarly)'
  <2>1. ~Begun' => ~Begun
    BY ShutdownBegins DEF SInv
  <2> QED
    BY <1>1, <2>1, EndsLate DEF SInv
<1>4. (~Stopping => NoCloseYet)'
  BY <1>1, NextNoCloseYet
<1>5. (Stopping => NoStartLeft /\ StartsAreWaitedFor)'
  BY <1>1, NextNoStartLeft
<1>6. OnlyClosesRemain'
  BY <1>1, NextOnlyClosesRemain
<1>7. WaitsAhead'
  BY NextWaitsAhead DEF SInv
<1> QED
  BY <1>2, <1>3, <1>4, <1>5, <1>6, <1>7 DEF SInv

LEMMA InitSInv == Init => SInv
<1> SUFFICES ASSUME Init PROVE SInv
  OBVIOUS
<1>1. TypeOK /\ agenda = <<>> /\ shutdownErr = "nil" /\ onShutdownCalls = 0
  BY InitTyped DEF Init
<1>2. \A n \in LcNodes : start[n] = "none" /\ close[n] = "none" /\ closeCall[n] = "none"
  BY <1>1, GraphTyped DEF Init
<1>3. ~ShuttingDown /\ ~Begun /\ ~CallIs("shutDown") /\ ~Stopping /\ OnAgenda = {}
  <2>1. OnAgenda = {}
    BY <1>1, ElementsOfJoin, <<>> \in Seq(Calls) DEF OnAgenda
  <2> QED
    BY <1>1, <2>1 DEF ShuttingDown, Begun, CallIs, Stopping
<1> QED
  BY <1>2, <1>3 DEF SInv, NothingEndsEarly, NoCloseYet, OnlyClosesRemain, WaitsAhead, Unwaited, Done

\* Without hooks that another Runner may run, every start comes before the
\* shutdown and every close in it; the agenda holds the waits still to begin.
THEOREM StartsBeforeCloses == ASSUME SharedHook = {} PROVE Spec => [](SInv /\ ReadyCounted)
<1>1. Init => SInv /\ ReadyCounted
  BY InitSInv, InitReadyCounted
<1>2. TypeOK /\ IInv /\ RInv /\ SInv /\ ReadyCounted /\ [Next]_vars => SInv' /\ ReadyCounted'
  BY NextSInv, NextReadyCounted DEF RInv
<1> QED
  BY <1>1, <1>2, TypeInvariant, Inductive, CausesHaveReasons, PTL DEF Spec

-----------------------------------------------------------------------------
(* The session implements Lifecycle *)

Phases == [n \in LcNodes |-> PhaseOf(n)]

\* A move changes the phase of its node at most.
LEMMA OnePhaseMoves ==
  ASSUME TypeOK, UNCHANGED graph, NEW k \in LcNodes, OthersStay(k)
  PROVE  Phases' = [Phases EXCEPT ![k] = PhaseOf(k)']
<1>1. LcNodes' = LcNodes
  BY GraphFixed
<1>2. \A n \in LcNodes \ {k} : PhaseOf(n)' = PhaseOf(n)
  BY DEF OthersStay, PhaseOf, IsDone
<1> QED
  BY <1>1, <1>2 DEF Phases

\* What a move makes of the phase, and what it needs for that.
PhaseMoves(k) ==
    LET from == PhaseOf(k)
        to == PhaseOf(k)'
    IN  \/ to = from
        \/ /\ RunnerState = "active" /\ from = "idle" /\ to \in {"starting", "up"}
           /\ \A d \in dependsOn[k] : PhaseOf(d) \in {"up", "down"}
        \/ from = "starting" /\ to = "up"
        \/ /\ RunnerState = "stopping" /\ from \in {"idle", "up"} /\ to = "closing"
           /\ HasWaiter(k) => \A m \in Dependents(k) : PhaseOf(m) = "down"
        \/ /\ to = "down"
           /\ \/ from \in {"starting", "closing"}
              \/ from = "up" /\ HasWaiter(k)
              \/ from \in {"idle", "up"} /\ RunnerState = "stopping"

LEMMA StartsInPhase ==
  ASSUME TypeOK, IInv, SInv, Timely, NEW k \in LcNodes, Starts(k)
  PROVE  PhaseMoves(k)
<1>1. wait[k] = "none" /\ close[k] = "none" /\ wait'[k] = "none" /\ close'[k] = "none"
      /\ start'[k] \in {"skipped", "completed", "active"}
  BY DEF Starts, PhasesMove, IInv, StartFirst, Done
<1>2. ~Begun /\ pc \notin {"run", "returned"} /\ dependsOn[k] = ReadyDeps(k)
  BY <1>1 DEF Timely, Starts
<1>3. RunnerState = "active"
  BY <1>2 DEF RunnerState, Begun
<1>4. PhaseOf(k) = "idle" /\ PhaseOf(k)' \in {"starting", "up"}
  BY <1>1 DEF Starts, PhaseOf, IsDone, Done
<1>5. ASSUME NEW d \in dependsOn[k] PROVE PhaseOf(d) \in {"up", "down"}
  <2>1. d \in LcNodes /\ start[d] \in Done
    BY <1>2, <1>5, GraphTyped DEF ReadyDeps
  <2>2. close[d] = "none" \/ IsDone(d)
    BY <1>2, <2>1 DEF SInv, NothingEndsEarly
  <2> QED
    BY <2>1, <2>2 DEF PhaseOf, Done
<1> QED
  BY <1>3, <1>4, <1>5 DEF PhaseMoves

LEMMA WaitsInPhase ==
  ASSUME TypeOK, IInv, CallsFitPhases, NEW k \in LcNodes, ~IsDone(k), BeginsWait(k) \/ EndsWait(k)
  PROVE  PhaseMoves(k)
<1>1. start[k] \in Done /\ start'[k] = start[k]
  BY DEF BeginsWait, EndsWait, PhasesMove, IInv, StartFirst
<1>2. close[k] \in Phase /\ start[k] # "active"
  BY <1>1, GraphTyped DEF TypeOK, Done
<1>3. CASE BeginsWait(k)
  <2>1. close'[k] = close[k] /\ wait'[k] \in {"skipped", "active"}
    BY <1>3 DEF BeginsWait, PhasesMove
  <2> QED
    BY <1>1, <1>2, <2>1 DEF PhaseMoves, PhaseOf, IsDone, Done
<1>4. CASE EndsWait(k)
  <2>1. wait'[k] = "completed" /\ (close'[k] = close[k] \/ (close[k] = "none" /\ close'[k] = "skipped"))
    BY <1>4 DEF EndsWait, PhasesMove
  <2>2. HasWaiter(k)
    BY <1>4 DEF EndsWait, CallsFitPhases, CallFits
  <2> QED
    BY <1>1, <1>2, <2>1, <2>2 DEF PhaseMoves, PhaseOf, IsDone, Done
<1> QED
  BY <1>3, <1>4

LEMMA ClosesInPhase ==
  ASSUME TypeOK, IInv, SInv, CallsFitPhases, DoneDependentsExact, Timely,
         NEW k \in LcNodes, IsSkipped(k) \/ BeginsClose(k)
  PROVE  PhaseMoves(k)
<1>1. Begun /\ pc \notin {"run", "returned"} /\ ~Unwaited(k)
  BY DEF Timely, IsSkipped, BeginsClose, PhasesMove
<1>2. RunnerState = "stopping"
  BY <1>1 DEF RunnerState, Begun
<1>3. CASE IsSkipped(k)
  <2>1. wait[k] = "none" /\ close[k] = "none"
    BY <1>3 DEF IsSkipped, IInv, StartFirst, Done
  <2>2. PhaseOf(k) = "idle"
    BY <1>3, <2>1 DEF IsSkipped, PhaseOf, IsDone, Done
  <2>3. PhaseOf(k)' = "down" \/ (PhaseOf(k)' = "closing" /\ ~HasWaiter(k))
    BY <1>3 DEF IsSkipped, PhasesMove, PhaseOf, IsDone, Done
  <2> QED
    BY <1>2, <2>2, <2>3 DEF PhaseMoves
<1>4. CASE BeginsClose(k)
  <2>1. start[k] \in Done /\ close[k] = "none" /\ wait[k] # "none" /\ wait[k] \in Phase
        /\ start'[k] = start[k] /\ wait'[k] = wait[k]
    BY <1>1, <1>4, GraphTyped DEF BeginsClose, PhasesMove, Unwaited, TypeOK
  <2>2. PhaseOf(k) = "up"
    BY <2>1 DEF PhaseOf, IsDone, Done
  <2>3. wait[k] = "active" => HasWaiter(k)
    BY DEF CallsFitPhases, CallFits
  <2>4. CASE close'[k] = "skipped" /\ (~HasCloser(k) \/ wait[k] \in Done)
    <3>1. ~HasCloser(k) => ~HasWaiter(k)
      BY DEF HasCloser, HasWaiter
    <3>2. wait[k] \in Done
      BY <2>1, <2>3, <2>4, <3>1 DEF Phase
    <3>3. PhaseOf(k)' = "down"
      BY <2>1, <2>4, <3>2 DEF PhaseOf, IsDone, Done
    <3> QED
      BY <1>2, <2>2, <3>3 DEF PhaseMoves
  <2>5. CASE close'[k] = "completed" /\ HasWaiter(k) /\ wait[k] \notin Done /\ ~NeededByDependents(k)
    <3>1. wait[k] = "active" /\ ~(doneDependents[k] < Cardinality(Dependents(k)))
      BY <2>1, <2>5 DEF Phase, NeededByDependents
    <3>2. /\ Dependents(k) \subseteq Node /\ {m \in Dependents(k) : IsDone(m)} \in SUBSET Dependents(k)
          /\ doneDependents[k] = Cardinality({m \in Dependents(k) : IsDone(m)})
      BY GraphTyped DEF DoneDependentsExact, Dependents
    <3>3. IsFiniteSet(Dependents(k)) /\ Cardinality(Dependents(k)) \in Nat
          /\ Cardinality({m \in Dependents(k) : IsDone(m)}) \in Nat
      BY <3>2, GraphsAssumption, DependentsFinite, FS_Subset, FS_CardinalityType
    <3>4. {m \in Dependents(k) : IsDone(m)} = Dependents(k)
      BY <3>1, <3>2, <3>3, FS_Subset
    <3>5. \A m \in Dependents(k) : PhaseOf(m) = "down"
      BY <3>4 DEF PhaseOf
    <3>6. PhaseOf(k)' = "closing"
      BY <2>1, <2>5 DEF PhaseOf, IsDone, Done
    <3> QED
      BY <1>2, <2>2, <3>5, <3>6 DEF PhaseMoves
  <2>6. CASE close'[k] = "active" /\ ~HasWaiter(k)
    <3>1. PhaseOf(k)' = "closing"
      BY <2>6 DEF PhaseOf, IsDone, Done
    <3> QED
      BY <1>2, <2>2, <2>6, <3>1 DEF PhaseMoves
  <2> QED
    BY <1>4, <2>4, <2>5, <2>6 DEF BeginsClose, PhasesMove
<1> QED
  BY <1>3, <1>4

LEMMA MovesInPhase ==
  ASSUME SharedHook = {}, TypeOK, IInv, SInv, CallsFitPhases, DoneDependentsExact, Timely,
         NEW k \in LcNodes, Moves(k)
  PROVE  PhaseMoves(k)
<1>1. ~IsDone(k)
  BY DEF Moves
<1>2. CASE GetsReady(k) \/ FailsToStart(k)
  <2>1. start[k] = "active" /\ wait[k] = "none" /\ close[k] = "none"
    BY <1>2 DEF GetsReady, FailsToStart, IInv, StartFirst, Done
  <2>2. PhaseOf(k) = "starting" /\ PhaseOf(k)' \in {"up", "down"}
    BY <1>2, <2>1 DEF GetsReady, FailsToStart, PhasesMove, PhaseOf, IsDone, Done
  <2> QED
    BY <2>2 DEF PhaseMoves
<1>3. CASE EndsClosing(k)
  <2>1. PhaseOf(k) = "closing" /\ PhaseOf(k)' \in {"closing", "down"}
    BY <1>1, <1>3 DEF EndsClosing, PhasesMove, PhaseOf, IsDone, Done
  <2> QED
    BY <2>1 DEF PhaseMoves
<1>4. CASE CallReturns(k)
  <2>1. PhaseOf(k)' = PhaseOf(k)
    BY <1>4 DEF CallReturns, PhasesMove, PhaseOf, IsDone
  <2> QED
    BY <2>1 DEF PhaseMoves
<1> QED
  BY <1>1, <1>2, <1>3, <1>4, StartsInPhase, WaitsInPhase, ClosesInPhase DEF Moves

\* What the session's goroutine does of itself, while no node moves.
LEMMA RunnerMoves ==
  ASSUME TypeOK, IInv, SInv, [Next]_vars
  PROVE  \/ RunnerState' = RunnerState
         \/ RunnerState = "idle" /\ RunnerState' \in {"active", "returned"}
         \/ RunnerState = "active" /\ RunnerState' = "stopping"
         \/ RunnerState # "returned" /\ RunnerState' = "returned" /\ AllOver
<1>1. onShutdownCalls \in Nat
  BY DEF TypeOK
<1>2. CASE UNCHANGED <<pc, onShutdownCalls>>
  BY <1>2 DEF RunnerState
<1>3. CASE RunBegins
  <2>1. pc = "run" /\ pc' \in {"returned", "starting"} /\ onShutdownCalls' = onShutdownCalls /\ ~(onShutdownCalls > 0)
    BY <1>3 DEF RunBegins, SInv, Begun
  <2> QED
    BY <2>1 DEF RunnerState
<1>4. CASE LeavesStarted \/ ReceiveCtxDone
  <2>1. pc \notin {"run", "returned"} /\ pc' \notin {"run", "returned"} /\ onShutdownCalls' = onShutdownCalls
    BY <1>4, InPlay DEF LeavesStarted, ReceiveCtxDone, CallIs, observed
  <2> QED
    BY <2>1 DEF RunnerState
<1>5. CASE TryShutDown
  <2>1. pc \notin {"run", "returned"} /\ pc' = pc /\ Begun'
    BY <1>5, InPlay, ShutdownBegins DEF TryShutDown, CallIs, SInv
  <2> QED
    BY <2>1 DEF RunnerState, Begun
<1>6. CASE ReturnFromCall
  <2>1. pc \notin {"run", "returned"} /\ onShutdownCalls' = onShutdownCalls
    BY <1>6, InPlay DEF ReturnFromCall, CallIs, observed
  <2>2. CASE AllDone /\ pc' = "returned"
    BY <2>1, <2>2, AllDoneMeansOver, SMTT(30) DEF RunnerState, IInv
  <2> QED
    BY <1>2, <1>6, <2>1, <2>2 DEF ReturnFromCall
<1>7. ASSUME StartNextLeaf \/ StartNextDependent \/ WaitForStarted \/ CloseNext \/ CloseStarted
      PROVE  UNCHANGED <<pc, onShutdownCalls>>
  BY <1>7 DEF StartNextLeaf, StartNextDependent, WaitForStarted, CloseNext, CloseStarted, TryStartNode,
     HandleNodeStarted, HandleNodeStartError, TryWaitForNode, HandleNodeWaited, TryCloseNode, observed
<1>8. ASSUME NEW n \in LcNodes, ReceiveStartResult(n) \/ ReceiveWaitResult(n) \/ ReceiveClosed(n)
      PROVE  UNCHANGED <<pc, onShutdownCalls>>
  BY <1>8 DEF ReceiveStartResult, ReceiveWaitResult, ReceiveClosed, HandleNodeStarted, HandleNodeStartError,
     HandleNodeWaited, observed
<1>9. ASSUME NEW n \in LcNodes, StartReturns(n) \/ WaitReturns(n) \/ CloseReturns(n) \/ StartTimesOut(n)
      PROVE  UNCHANGED <<pc, onShutdownCalls>>
  BY <1>9 DEF StartReturns, WaitReturns, CloseReturns, StartTimesOut, session, observed
<1>10. ASSUME CancelRunCtx \/ Finished \/ UNCHANGED vars
       PROVE  UNCHANGED <<pc, onShutdownCalls>>
  BY <1>10 DEF CancelRunCtx, Finished, session, vars, observed
<1> QED
  BY <1>2, <1>3, <1>4, <1>5, <1>6, <1>7, <1>8, <1>9, <1>10 DEF Next, SessionStep

LEMMA StepImplements ==
  ASSUME SharedHook = {}, TypeOK, IInv, CallsFitPhases, DoneDependentsExact, SInv, ReadyCounted, [Next]_vars
  PROVE  [L!Next]_(L!vars)
<1> DEFINE Runs == {n \in LcNodes : HasWaiter(n)}
<1>1. NodeStep /\ Timely /\ UNCHANGED graph
  BY NextMoves, TimelySteps DEF NodeStep
<1>2. LcNodes' = LcNodes /\ dependsOn' = dependsOn /\ Runs' = Runs
  BY <1>1, GraphFixed DEF HasWaiter, graph
<1>3. ASSUME NEW k \in LcNodes, Moves(k), RunnerState' = RunnerState
      PROVE  [L!Next]_(L!vars)
  <2>1. Phases' = [Phases EXCEPT ![k] = PhaseOf(k)'] /\ PhaseMoves(k)
    BY <1>1, <1>3, OnePhaseMoves, MovesInPhase DEF Moves
  <2>2. Phases[k] = PhaseOf(k) /\ (\A m \in LcNodes : Phases[m] = PhaseOf(m)) /\ Phases = [n \in LcNodes |-> PhaseOf(n)]
    BY DEF Phases
  <2>3. k \in L!Hooks /\ L!Dependents(k) = Dependents(k) /\ Dependents(k) \subseteq LcNodes /\ dependsOn[k] \subseteq LcNodes
    BY GraphTyped DEF L!Hooks, L!Dependents, Dependents, LcNodes
  <2>4. \A to : PhaseOf(k)' = to => L!Move(k, to)
    BY <1>2, <1>3, <2>1 DEF L!Move, Phases
  <2>5. CASE PhaseOf(k)' = PhaseOf(k)
    <3>1. Phases' = Phases
      BY <2>1, <2>5 DEF Phases
    <3> QED
      BY <1>2, <1>3, <3>1 DEF L!vars, Phases
  <2>6. CASE /\ RunnerState = "active" /\ PhaseOf(k) = "idle" /\ PhaseOf(k)' \in {"starting", "up"}
             /\ \A d \in dependsOn[k] : PhaseOf(d) \in {"up", "down"}
    <3>1. L!Start(k)
      BY <2>2, <2>3, <2>4, <2>6 DEF L!Start, Phases
    <3> QED
      BY <2>3, <3>1 DEF L!Next
  <2>7. CASE PhaseOf(k) = "starting" /\ PhaseOf(k)' = "up"
    <3>1. L!Ready(k)
      BY <2>2, <2>4, <2>7 DEF L!Ready, Phases
    <3> QED
      BY <2>3, <3>1 DEF L!Next
  <2>8. CASE /\ RunnerState = "stopping" /\ PhaseOf(k) \in {"idle", "up"} /\ PhaseOf(k)' = "closing"
             /\ HasWaiter(k) => \A m \in Dependents(k) : PhaseOf(m) = "down"
    <3>1. L!Close(k)
      BY <2>2, <2>3, <2>4, <2>8 DEF L!Close, Phases
    <3> QED
      BY <2>3, <3>1 DEF L!Next
  <2>9. CASE /\ PhaseOf(k)' = "down"
             /\ \/ PhaseOf(k) \in {"starting", "closing"}
                \/ PhaseOf(k) = "up" /\ HasWaiter(k)
                \/ PhaseOf(k) \in {"idle", "up"} /\ RunnerState = "stopping"
    <3>1. L!End(k)
      BY <2>2, <2>4, <2>9 DEF L!End, Phases
    <3> QED
      BY <2>3, <3>1 DEF L!Next
  <2> QED
    BY <2>1, <2>5, <2>6, <2>7, <2>8, <2>9 DEF PhaseMoves
<1>4. ASSUME NothingMoves
      PROVE  [L!Next]_(L!vars)
  <2>1. Phases' = Phases
    BY <1>2, <1>4 DEF NothingMoves, Phases, PhaseOf, IsDone
  <2>2. \A to : RunnerState' = to => L!MoveRunner(to)
    BY <1>2, <2>1 DEF L!MoveRunner, Phases
  <2>3. CASE RunnerState' = RunnerState
    BY <1>2, <2>1, <2>3 DEF L!vars, Phases
  <2>4. CASE RunnerState = "idle" /\ RunnerState' \in {"active", "returned"}
    BY <2>2, <2>4 DEF L!Next, L!Begin, L!Return
  <2>5. CASE RunnerState = "active" /\ RunnerState' = "stopping"
    BY <2>2, <2>5 DEF L!Next, L!Stop
  <2>6. CASE RunnerState # "returned" /\ RunnerState' = "returned" /\ AllOver
    <3>1. \A n \in L!Hooks : [m \in LcNodes |-> PhaseOf(m)][n] = "down"
      BY <2>6 DEF L!Hooks, LcNodes, AllOver, PhaseOf
    <3> QED
      BY <2>2, <2>6, <3>1 DEF L!Next, L!Return
  <2> QED
    BY <2>3, <2>4, <2>5, <2>6, RunnerMoves
<1>5. ASSUME NEW k \in LcNodes, Moves(k), ~NothingMoves
      PROVE  RunnerState' = RunnerState
  BY <1>1, <1>5 DEF Timely, RunnerState
<1> QED
  BY <1>1, <1>3, <1>4, <1>5 DEF NodeStep

\* The session, whose hooks no other Runner runs, does what Lifecycle promises.
THEOREM SessionImplementsLifecycle == ASSUME SharedHook = {} PROVE Spec => ImplementsLifecycle
<1>1. Init => L!Init
  <2> SUFFICES ASSUME Init PROVE L!Init
    OBVIOUS
  <2>1. \A n \in LcNodes : start[n] = "none" /\ wait[n] = "none" /\ close[n] = "none"
    BY InitTyped, GraphTyped DEF Init
  <2>2. [n \in LcNodes |-> PhaseOf(n)] = [n \in L!Hooks |-> "idle"]
    BY <2>1 DEF PhaseOf, IsDone, Done, L!Hooks, LcNodes
  <2> QED
    BY <2>2 DEF L!Init, RunnerState, Init
<1>2. TypeOK /\ IInv /\ CallsFitPhases /\ DoneDependentsExact /\ SInv /\ ReadyCounted /\ [Next]_vars
        => [L!Next]_(L!vars)
  BY StepImplements
<1> QED
  BY <1>1, <1>2, TypeInvariant, Inductive, CallsFollowPhases, DependentsCounted, StartsBeforeCloses, PTL
     DEF Spec, ImplementsLifecycle, L!Spec

\* Where no other Runner runs the hooks, Start is called on dependencies that are
\* ready and have not been told to close.
THEOREM StartsAreOnOpenDependencies == ASSUME SharedHook = {} PROVE Spec => StartsOnOpenDependencies
<1> DEFINE Opens == \A n \in LcNodes : startCall[n] = "none" /\ startCall'[n] # "none" =>
                       \A d \in dependsOn[n] : /\ start[d] \in Done /\ closeCall[d] = "none"
                                               /\ HasStarter(d) => startCall[d] = "ok"
<1>1. TypeOK /\ IInv /\ CallsFitPhases /\ SInv /\ ReadyCounted /\ [Next]_vars => [Opens]_vars
  <2> SUFFICES ASSUME TypeOK, IInv, CallsFitPhases, SInv, ReadyCounted, [Next]_vars,
                      NEW n \in LcNodes, startCall[n] = "none", startCall'[n] # "none", NEW d \in dependsOn[n]
               PROVE  start[d] \in Done /\ closeCall[d] = "none" /\ (HasStarter(d) => startCall[d] = "ok")
    OBVIOUS
  <2>1. NodeStep /\ Timely
    BY NextMoves, TimelySteps
  <2>2. Starts(n)
    <3>1. PICK k \in LcNodes : Moves(k)
      BY <2>1 DEF NodeStep, NothingMoves
    <3>2. k = n
      BY <3>1 DEF Moves, OthersStay
    <3>3. start[n] # "active" /\ startCall[n] # "running"
      BY DEF CallsFitPhases, CallFits
    <3> QED
      BY <3>1, <3>2, <3>3 DEF Moves, GetsReady, FailsToStart, BeginsWait, EndsWait, IsSkipped, BeginsClose,
         EndsClosing, CallReturns, CallsStay, StartCallMoves, CloseCallMoves
  <2>3. ~Begun /\ dependsOn[n] = ReadyDeps(n)
    <3>1. start[n] = "none" /\ start'[n] # "none" /\ wait'[n] = "none"
      BY <2>2 DEF Starts, PhasesMove, IInv, StartFirst, Done
    <3> QED
      BY <2>1, <3>1 DEF Timely
  <2>4. d \in LcNodes /\ start[d] \in Done /\ startCall[d] # "failed"
    BY <2>3, GraphTyped DEF ReadyDeps
  <2>5. closeCall[d] = "none" /\ (start[d] = "skipped" => ~HasStarter(d))
    BY <2>3, <2>4 DEF SInv, NothingEndsEarly
  <2>6. start[d] = "completed" => startCall[d] \in {"ok", "failed"}
    BY <2>4 DEF CallsFitPhases, CallFits
  <2> QED
    BY <2>4, <2>5, <2>6 DEF Done
<1> QED
  BY <1>1, TypeInvariant, Inductive, CallsFollowPhases, StartsBeforeCloses, PTL DEF Spec, StartsOnOpenDependencies
-----------------------------------------------------------------------------
(* Readiness *)

\* Every node that has not started yet has a signal to give; once readiness is
\* reported, none is left to start.
SignalsCounted ==
    /\ remainingReadySignals >= Cardinality(Open(start))
    /\ onReadyCalls > 0 => pc = "returned" \/ Open(start) = {}
    /\ pc = "run" => onReadyCalls = 0

\* A step in which n gives its signal, and any other step.
GivesSignal(n) ==
    /\ start[n] \notin Done /\ \E phase \in Done : start' = [start EXCEPT ![n] = phase]
    /\ \A m \in LcNodes : startCall'[m] = "failed" => m # n /\ startCall[m] = "failed"
    /\ remainingReadySignals' = remainingReadySignals - 1
    /\ onReadyCalls' = IF ReportsReady THEN onReadyCalls + 1 ELSE onReadyCalls
    /\ UNCHANGED <<pc, closeCall>> /\ pc \notin {"run", "returned"} /\ ~CallIs("shutDown")
GivesNoSignal ==
    /\ UNCHANGED remainingReadySignals
    /\ onReadyCalls' = onReadyCalls \/ RunBegins
    /\ \/ CallIs("shutDown")' \/ CloseNext
       \/ \A m \in LcNodes : start'[m] \in Done => start[m] \in Done
    /\ pc = "returned" => pc' = "returned"
    /\ pc' = "run" => pc = "run"

LEMMA StartErrorShutsDown ==
  ASSUME TypeOK, NEW n \in LcNodes, NEW rest \in Seq(Calls), HandleNodeStartError(n, rest)
  PROVE  /\ CallIs("shutDown")'
         /\ Elements(agenda') = {ShutDown("hook"), Close(dependsOn[n])} \cup Elements(rest)
<1>1. ShutDown("hook") \in Calls /\ Close(dependsOn[n]) \in Calls
  BY GraphTyped, CallsTyped DEF Errors
<1>2. agenda' = <<ShutDown("hook"), Close(dependsOn[n])>> \o rest
  BY DEF HandleNodeStartError
<1>3. agenda' = <<ShutDown("hook")>> \o (<<Close(dependsOn[n])>> \o rest) /\ <<Close(dependsOn[n])>> \o rest \in Seq(Calls)
  BY <1>1, <1>2, TwoInFront
<1>4. Head(agenda') = ShutDown("hook") /\ agenda' # <<>>
  BY <1>1, <1>3, HeadOfJoin
<1>5. CallIs("shutDown")'
  BY <1>4 DEF CallIs, ShutDown, Call
<1>6. ASSUME NEW a \in Calls, NEW b \in Calls
      PROVE  Elements(<<a, b>> \o rest) = {a, b} \cup Elements(rest)
  BY <1>6, ElementsOfJoin
<1>7. Elements(<<ShutDown("hook"), Close(dependsOn[n])>> \o rest)
        = {ShutDown("hook"), Close(dependsOn[n])} \cup Elements(rest)
  BY <1>1, <1>6
<1> QED
  BY <1>2, <1>5, <1>7

LEMMA TryStartSignals ==
  ASSUME TypeOK, IInv, NEW n \in LcNodes, NEW rest \in Seq(Calls), TryStartNode(n, rest),
         pc \notin {"run", "returned"}, ~CallIs("shutDown")
  PROVE  GivesNoSignal \/ GivesSignal(n)
<1>1. n \in Node /\ startCall \in [Node -> {"none", "running", "ok", "failed"}] /\ \A m \in LcNodes : m \in Node
  BY GraphTyped DEF TypeOK
<1>2. CASE start[n] # "none" \/ ~DepsReady(n)
  BY <1>2 DEF TryStartNode, GivesNoSignal, stats, observed, HandleNodeStarted, HandleNodeStartError, GivesSignal
<1>3. CASE start[n] = "none" /\ ~HasStarter(n) /\ HandleNodeStarted(n, "skipped", rest) /\ UNCHANGED env
  <2>1. startCall[n] = "none" /\ UNCHANGED <<startCall, closeCall>>
    BY <1>3 DEF IInv, GoroutinesHavePhases, env, calls
  <2> QED
    BY <1>3, <2>1 DEF HandleNodeStarted, GivesSignal, Done
<1>4. CASE /\ start[n] = "none" /\ startCall' = [startCall EXCEPT ![n] = "ok"]
           /\ HandleNodeStarted(n, "completed", rest) /\ UNCHANGED closeCall
  BY <1>1, <1>4 DEF HandleNodeStarted, GivesSignal, Done
<1>5. CASE HandleNodeStartError(n, rest)
  BY <1>5, StartErrorShutsDown DEF HandleNodeStartError, GivesNoSignal, observed
<1>6. CASE /\ start' = [start EXCEPT ![n] = "active"]
           /\ UNCHANGED <<graph, pc, wait, close, doneCounters, stats, outcome, observed>>
  BY <1>1, <1>6 DEF GivesNoSignal, stats, observed, Done, TypeOK
<1> QED
  BY <1>2, <1>3, <1>4, <1>5, <1>6 DEF TryStartNode

LEMMA NextSignals ==
  ASSUME TypeOK, IInv, [Next]_vars
  PROVE  GivesNoSignal \/ \E n \in LcNodes : GivesSignal(n)
<1> USE DEF stats, observed, nodes
<1>1. CASE RunBegins \/ LeavesStarted \/ CloseStarted \/ TryShutDown \/ ReturnFromCall \/ ReceiveCtxDone
  BY <1>1, InPlay DEF RunBegins, LeavesStarted, CloseStarted, TryShutDown, ReturnFromCall, ReceiveCtxDone,
     GivesNoSignal, CallIs
<1>2. CASE StartNextLeaf \/ StartNextDependent
  <2>1. agenda # <<>> => \A n \in LcNodes : /\ <<StartLeaves(Head(agenda).nodes \ {n})>> \o Tail(agenda) \in Seq(Calls)
                                          /\ <<StartDependents(Head(agenda).nodes \ {n})>> \o Tail(agenda) \in Seq(Calls)
    BY HeadTyped, CallsTyped, AgendaTyped DEF Errors
  <2>2. /\ agenda # <<>> /\ ~CallIs("shutDown")
        /\ \E n \in Head(agenda).nodes : \E rest \in Seq(Calls) : n \in LcNodes /\ TryStartNode(n, rest)
    BY <1>2, <2>1, HeadTyped DEF StartNextLeaf, StartNextDependent, CallIs
  <2> QED
    BY <2>2, InPlay, TryStartSignals
<1>3. CASE WaitForStarted
  BY <1>3 DEF WaitForStarted, TryWaitForNode, HandleNodeWaited, GivesNoSignal
<1>4. CASE CloseNext
  BY <1>4 DEF CloseNext, TryCloseNode, GivesNoSignal
<1>5. ASSUME NEW n \in LcNodes, ReceiveStartResult(n)
      PROVE  GivesNoSignal \/ GivesSignal(n)
  <2>1. start[n] = "active" /\ pc \notin {"run", "returned"} /\ ~CallIs("shutDown") /\ UNCHANGED <<startCall, closeCall>>
    BY <1>5 DEF ReceiveStartResult, Receiving, CallIs, IInv, GoroutinesHavePhases, calls
  <2>2. CASE startCall[n] = "ok" /\ HandleNodeStarted(n, "completed", <<>>)
    BY <2>1, <2>2 DEF HandleNodeStarted, GivesSignal, Done
  <2>3. CASE HandleNodeStartError(n, <<>>)
    BY <2>3, StartErrorShutsDown, <<>> \in Seq(Calls) DEF HandleNodeStartError, GivesNoSignal
  <2> QED
    BY <1>5, <2>2, <2>3 DEF ReceiveStartResult
<1>6. ASSUME NEW n \in LcNodes, ReceiveWaitResult(n) \/ ReceiveClosed(n)
      PROVE  GivesNoSignal
  BY <1>6 DEF ReceiveWaitResult, ReceiveClosed, HandleNodeWaited, GivesNoSignal
<1>7. ASSUME \/ \E n \in LcNodes : StartReturns(n) \/ WaitReturns(n) \/ CloseReturns(n) \/ StartTimesOut(n)
             \/ CancelRunCtx
      PROVE  GivesNoSignal
  BY <1>7 DEF StartReturns, WaitReturns, CloseReturns, StartTimesOut, CancelRunCtx, session, GivesNoSignal
<1>8. CASE UNCHANGED vars
  BY <1>8 DEF vars, GivesNoSignal
<1> QED
  BY <1>1, <1>2, <1>3, <1>4, <1>5, <1>6, <1>7, <1>8 DEF Next, SessionStep, Finished

\* What a signal does to the count of nodes that have not started.
LEMMA SignalClosesStart ==
  ASSUME TypeOK, NEW n \in LcNodes, GivesSignal(n), UNCHANGED graph
  PROVE  /\ Cardinality(Open(start)) \in Nat /\ n \in Open(start) /\ Open(start)' = Open(start')
         /\ IsFiniteSet(Open(start')) /\ Cardinality(Open(start')) = Cardinality(Open(start)) - 1
<1>1. start \in [Node -> Phase]
  BY DEF TypeOK
<1>2. PICK phase \in Done : start' = [start EXCEPT ![n] = phase]
  BY DEF GivesSignal
<1>3. n \in Open(start) /\ Open(start)' = Open(start')
  BY GraphFixed DEF GivesSignal, Open
<1>4. Cardinality(Open(start')) = Cardinality(Open(start)) - 1
  BY <1>1, <1>2, CountDown DEF GivesSignal
<1> QED
  BY <1>3, <1>4, OpenFinite

LEMMA NextSignalsCounted ==
  ASSUME TypeOK, IInv, SignalsCounted, [Next]_vars
  PROVE  SignalsCounted'
<1>1. NodeStep /\ UNCHANGED graph /\ LcNodes' = LcNodes
  BY NextMoves, GraphFixed DEF NodeStep
<1>2. remainingReadySignals \in Int /\ onReadyCalls \in Nat
  BY DEF TypeOK
<1>3. CASE GivesNoSignal
  <2>1. \A m \in LcNodes : start[m] \in Done => start'[m] \in Done
    <3>1. CASE NothingMoves
      BY <3>1 DEF NothingMoves
    <3>2. ASSUME NEW k \in LcNodes, Moves(k), NEW m \in LcNodes, start[m] \in Done
          PROVE  start'[m] \in Done
      BY <3>2 DEF Moves, OthersStay, Starts, GetsReady, FailsToStart, BeginsWait, EndsWait, IsSkipped,
         BeginsClose, EndsClosing, CallReturns, PhasesMove, Done
    <3> QED
      BY <1>1, <3>1, <3>2 DEF NodeStep
  <2>2. Open(start)' \subseteq Open(start)
    BY <1>1, <2>1 DEF Open
  <2>3. Cardinality(Open(start)') <= Cardinality(Open(start)) /\ Cardinality(Open(start)') \in Nat
        /\ Cardinality(Open(start)) \in Nat
    BY <2>2, OpenFinite, FS_Subset, FS_CardinalityType
  <2>4. CASE UNCHANGED onReadyCalls
    BY <1>2, <1>3, <2>2, <2>3, <2>4 DEF GivesNoSignal, SignalsCounted
  <2>5. CASE RunBegins
    BY <1>2, <1>3, <2>3, <2>5 DEF GivesNoSignal, SignalsCounted, RunBegins
  <2> QED
    BY <1>3, <2>4, <2>5 DEF GivesNoSignal
<1>4. ASSUME NEW n \in LcNodes, GivesSignal(n)
      PROVE  SignalsCounted'
  <2>1. /\ Cardinality(Open(start)) \in Nat /\ n \in Open(start) /\ Open(start)' = Open(start')
        /\ IsFiniteSet(Open(start')) /\ Cardinality(Open(start')) = Cardinality(Open(start)) - 1
    BY <1>1, <1>4, SignalClosesStart
  <2>2. onReadyCalls = 0
    BY <1>2, <1>4, <2>1 DEF SignalsCounted, GivesSignal
  <2>3. ReportsReady => Open(start') = {}
    <3>1. ReportsReady => Cardinality(Open(start')) = 0
      BY <1>2, <2>1, FS_CardinalityType DEF ReportsReady, LastToGetReady, SignalsCounted
    <3> QED
      BY <2>1, <3>1, FS_EmptySet
  <2> QED
    <3>1. remainingReadySignals' >= Cardinality(Open(start)')
      BY <1>2, <1>4, <2>1 DEF SignalsCounted, GivesSignal
    <3>2. onReadyCalls' > 0 => Open(start)' = {}
      <4>1. ~ReportsReady => onReadyCalls' = 0
        BY <1>4, <2>2 DEF GivesSignal
      <4> QED
        BY <2>1, <2>3, <4>1
    <3>3. pc' # "run"
      BY <1>4 DEF GivesSignal
    <3> QED
      BY <3>1, <3>2, <3>3 DEF SignalsCounted
<1> QED
  BY <1>3, <1>4, NextSignals

\* A graph of hooks without leaves is a cycle through all of them (see NoCycleOfHooks).
HasALeaf(g) == DOMAIN g.dependsOn = {} \/ \E n \in DOMAIN g.dependsOn : g.dependsOn[n] = {}
SomeLeaf == Leaves = {} => LcNodes = {}

\* The ready callback runs once, when every hook has been started successfully and
\* none told to close, if no other Runner runs the hooks and some hook is a leaf.
THEOREM ReadinessIsTrue ==
  ASSUME SharedHook = {}, \A g \in Graphs : HasALeaf(g)
  PROVE  Spec => ReadyWhenAllAreUp
<1> DEFINE AllUp == onReadyCalls' # onReadyCalls =>
                      /\ onReadyCalls = 0
                      /\ \A n \in LcNodes : /\ start'[n] \in Done
                                            /\ startCall'[n] # "failed" /\ closeCall[n] = "none"
<1>1. Init => SignalsCounted /\ SomeLeaf
  <2> SUFFICES ASSUME Init PROVE SignalsCounted /\ SomeLeaf
    OBVIOUS
  <2>1. SomeLeaf
    BY DEF Init, HasALeaf, SomeLeaf, Leaves, LcNodes
  <2>2. Open(start) = LcNodes
    BY InitTyped, GraphTyped DEF Init, Open, Done
  <2>3. Cardinality(LcNodes) \in Nat
    BY <2>2, InitTyped, OpenFinite
  <2> QED
    BY <2>1, <2>2, <2>3 DEF Init, SignalsCounted
<1>2. TypeOK /\ IInv /\ SignalsCounted /\ SomeLeaf /\ [Next]_vars => SignalsCounted' /\ SomeLeaf'
  <2>1. UNCHANGED graph /\ SomeLeaf => SomeLeaf'
    BY GraphFixed DEF SomeLeaf, Leaves, graph
  <2> QED
    BY <2>1, NextSignalsCounted, NextMoves DEF NodeStep
<1>3. TypeOK /\ IInv /\ RInv /\ SInv /\ SignalsCounted /\ SomeLeaf /\ [Next]_vars => [AllUp]_vars
  <2> SUFFICES ASSUME TypeOK, IInv, RInv, SInv, SignalsCounted, SomeLeaf, [Next]_vars,
                      onReadyCalls' # onReadyCalls
               PROVE  AllUp
    OBVIOUS
  <2>1. CASE RunBegins
    BY <2>1 DEF RunBegins, SignalsCounted, SomeLeaf
  <2>2. ASSUME NEW n \in LcNodes, GivesSignal(n)
        PROVE  AllUp
    <3>1. /\ Cardinality(Open(start)) \in Nat /\ n \in Open(start)
          /\ IsFiniteSet(Open(start')) /\ Cardinality(Open(start')) = Cardinality(Open(start)) - 1
      BY <2>2, NextMoves, SignalClosesStart DEF NodeStep
    <3>2. ReportsReady /\ onReadyCalls = 0
      BY <2>2, <3>1 DEF GivesSignal, SignalsCounted, TypeOK
    <3>3. \A m \in LcNodes : start'[m] \in Done
      <4>1. Cardinality(Open(start')) = 0
        BY <3>1, <3>2, FS_CardinalityType DEF ReportsReady, LastToGetReady, SignalsCounted
      <4> QED
        BY <3>1, <4>1, FS_EmptySet DEF Open
    <3>4. Cause = "nil"
      BY <2>2, <3>2 DEF GivesSignal, ReportsReady, Cause, AboutToShutDown, ShuttingDown
    <3>5. ASSUME NEW m \in LcNodes PROVE startCall'[m] # "failed"
      <4> SUFFICES ASSUME m # n, startCall[m] = "failed" PROVE FALSE
        BY <2>2 DEF GivesSignal
      <4>1. start[m] = "active"
        BY <3>4 DEF RInv, FailuresAreNoticed, IInv, GoroutinesHavePhases
      <4>2. start'[m] = "active"
        BY <2>2, <4>1, GraphTyped DEF GivesSignal, TypeOK
      <4> QED
        BY <3>3, <4>2 DEF Done
    <3>6. ~Begun
      <4>1. Begun => wait[n] \in Done
        BY <3>2 DEF SInv, OnlyClosesRemain, ReportsReady, AllWaited
      <4> QED
        BY <2>2, <4>1 DEF GivesSignal, IInv, StartFirst, Done
    <3> QED
      BY <3>2, <3>3, <3>5, <3>6 DEF SInv, NothingEndsEarly
  <2>3. CASE GivesNoSignal
    BY <2>1, <2>3 DEF GivesNoSignal
  <2> QED
    BY <2>2, <2>3, NextSignals
<1> QED
  BY <1>1, <1>2, <1>3, TypeInvariant, Inductive, CausesHaveReasons, StartsBeforeCloses, PTL
     DEF Spec, ReadyWhenAllAreUp

-----------------------------------------------------------------------------
(* The loop never waits for nothing. Six facts say what is still ahead: the    *)
(* call that lets Run return, the shutdown that follows the last wait, the     *)
(* starts of the leaves, the counts that start all other nodes, the report of  *)
(* readiness and, in the shutdown, the closes, from the roots on.              *)

InProgress == pc \notin {"run", "returned"}
Returning == {"startDependents", "close", "closeIfShuttingDown", "shutDown"}
ReturnAhead == \E c \in OnAgenda : c.op \in Returning
ReturnsWhenDone == AllDone /\ InProgress => ReturnAhead
LastWaitShutsDown == AllWaited /\ InProgress => Stopping \/ AllDone

Known == TypeOK /\ IInv /\ CallsFitPhases /\ RInv /\ SInv /\ ReadyCounted /\ SignalsCounted

LEMMA NextKnown == ASSUME SharedHook = {}, Known, [Next]_vars PROVE Known'
<1>1. TypeOK' /\ IInv' /\ CallsFitPhases' /\ RInv'
  BY NextTyped, NextIInv, NextMoves, MovesFitPhases, NextKeepsCause DEF Known
<1>2. SInv' /\ ReadyCounted' /\ SignalsCounted'
  BY NextSInv, NextReadyCounted, NextSignalsCounted DEF Known, RInv
<1> QED
  BY <1>1, <1>2 DEF Known

LEMMA AgendaParts ==
  ASSUME TypeOK, agenda # <<>>
  PROVE  /\ Head(agenda) \in Calls /\ Tail(agenda) \in Seq(Calls) /\ agenda = <<Head(agenda)>> \o Tail(agenda)
         /\ Head(agenda).nodes \subseteq LcNodes /\ OnAgenda = {Head(agenda)} \cup Elements(Tail(agenda))
<1>1. agenda \in Seq(Calls)
  BY DEF TypeOK
<1> QED
  BY <1>1, HeadTyped, ElementsOfTail DEF OnAgenda

LEMMA NothingOnAgenda == agenda = <<>> => OnAgenda = {}
BY ElementsOfJoin, <<>> \in Seq(Calls) DEF OnAgenda

LEMMA OpsAre ==
  /\ \A ns : /\ Close(ns).op = "close" /\ Close(ns).nodes = ns
             /\ StartDependents(ns).op = "startDependents" /\ StartDependents(ns).nodes = ns
             /\ StartLeaves(ns).op = "startLeaves" /\ StartLeaves(ns).nodes = ns
  /\ \A err : ShutDown(err).op = "shutDown"
  /\ \A n : Wait(n).op = "wait" /\ CloseIfShuttingDown(n).op = "closeIfShuttingDown"
BY DEF Close, StartDependents, StartLeaves, ShutDown, Wait, CloseIfShuttingDown, Call

\* Without shared hooks a start fails only when its result is received.
LEMMA StartsUnshared ==
  ASSUME SharedHook = {}, NEW n \in LcNodes, NEW rest, TryStartNode(n, rest)
  PROVE  /\ UNCHANGED <<graph, pc, wait, close, doneCounters, remaining, outcome, onShutdownCalls>>
         /\ \/ UNCHANGED start /\ (start[n] # "none" \/ ~DepsReady(n))
            \/ start[n] = "none" /\ DepsReady(n)
               /\ \E phase \in {"skipped", "completed", "active"} : start' = [start EXCEPT ![n] = phase]
BY DEF TryStartNode, HandleNodeStarted, stats, observed, env, calls

-----------------------------------------------------------------------------
(* Run returns when all is done *)

\* After a step, too, the counters are zero exactly if all phases are over.
LEMMA DoneNext ==
  ASSUME TypeOK, IInv', UNCHANGED graph
  PROVE  /\ AllDone' <=> \A n \in LcNodes : wait'[n] \in Done /\ close'[n] \in Done
         /\ remainingWaits' = 0 <=> \A n \in LcNodes : wait'[n] \in Done
         /\ remainingWaits' >= 0 /\ remainingCloses' >= 0
<1>1. remainingWaits' = Cardinality(Open(wait')) /\ remainingCloses' = Cardinality(Open(close'))
  BY GraphFixed DEF IInv, CountersExact, Open
<1>2. /\ Cardinality(Open(wait')) \in Nat /\ Cardinality(Open(close')) \in Nat
      /\ Cardinality(Open(wait')) = 0 <=> Open(wait') = {}
      /\ Cardinality(Open(close')) = 0 <=> Open(close') = {}
  BY OpenFinite, FS_EmptySet
<1>3. /\ Open(wait') = {} <=> \A n \in LcNodes : wait'[n] \in Done
      /\ Open(close') = {} <=> \A n \in LcNodes : close'[n] \in Done
  BY DEF Open
<1>4. AllDone' <=> remainingWaits' = 0 /\ remainingCloses' = 0
  BY <1>1, <1>2 DEF AllDone
<1> QED
  BY <1>1, <1>2, <1>3, <1>4

LEMMA FirstReturns ==
  ASSUME NEW a \in Calls, NEW rest \in Seq(Calls), a.op \in Returning,
         agenda' = <<a>> \o rest \/ \E b \in Calls : agenda' = <<a, b>> \o rest
  PROVE  ReturnAhead'
<1>1. CASE agenda' = <<a>> \o rest
  BY <1>1, ElementsOfOne DEF ReturnAhead, OnAgenda
<1>2. ASSUME NEW b \in Calls, agenda' = <<a, b>> \o rest
      PROVE  ReturnAhead'
  <2>1. Elements(agenda') = {a, b} \cup Elements(rest)
    BY <1>2, ElementsOfJoin
  <2> QED
    BY <2>1 DEF ReturnAhead, OnAgenda
<1> QED
  BY <1>1, <1>2

LEMMA WaitedReturns ==
  ASSUME TypeOK, NEW n \in LcNodes, NEW failed, NEW phase, NEW rest \in Seq(Calls), HandleNodeWaited(n, failed, phase, rest)
  PROVE  ReturnAhead'
<1>1. /\ Close({n}) \in Calls /\ ReturnIsAllDone \in Calls /\ ShutDown("hook") \in Calls /\ ShutDown("nil") \in Calls
      /\ {Close({n}).op, ReturnIsAllDone.op, ShutDown("hook").op, ShutDown("nil").op} \subseteq Returning
  BY CallsTyped, OpsAre DEF Errors, ReturnIsAllDone, Returning
<1> QED
  BY <1>1, FirstReturns DEF HandleNodeWaited

LEMMA NextReturns ==
  ASSUME SharedHook = {}, Known, Known', ReturnsWhenDone, [Next]_vars
  PROVE  ReturnsWhenDone'
<1> USE DEF Known
<1> SUFFICES ASSUME AllDone', InProgress'
             PROVE  ReturnAhead'
  BY DEF ReturnsWhenDone
<1>1. UNCHANGED graph /\ LcNodes' = LcNodes
  BY NextMoves, GraphFixed DEF NodeStep
<1>2. \A n \in LcNodes : wait'[n] \in Done /\ close'[n] \in Done
  BY <1>1, DoneNext
<1>3. AllDone => \A n \in LcNodes : wait[n] \in Done /\ close[n] \in Done
  BY AllDoneMeansOver DEF IInv, AllOver, IsDone
<1>4. UNCHANGED remaining => AllDone
  BY DEF AllDone, remaining
<1>5. AllDone /\ InProgress => ReturnAhead /\ agenda # <<>>
  BY NothingOnAgenda DEF ReturnsWhenDone, ReturnAhead
<1>6. {} \in SUBSET LcNodes /\ Roots \in SUBSET LcNodes /\ <<>> \in Seq(Calls) /\ "close" \in Returning /\ "shutDown" \in Returning
  BY DEF Roots, Returning
<1>7. agenda # <<>> => InProgress
  BY InPlay DEF InProgress
<1>8. CASE RunBegins
  <2>1. UNCHANGED remaining /\ Leaves # {} /\ NothingStarted
    BY <1>8 DEF RunBegins, InProgress, stats, IInv, Quiet
  <2> QED
    BY <1>3, <1>4, <2>1 DEF NothingStarted, IInv, StartFirst, Leaves, Done
<1>9. CASE StartNextLeaf \/ StartNextDependent
  <2>1. PICK n \in Head(agenda).nodes, call \in LoopsToStart :
           /\ n \in LcNodes /\ agenda # <<>> /\ call.op = Head(agenda).op
           /\ TryStartNode(n, <<call>> \o Tail(agenda))
    BY <1>9, LoopStarts
  <2>2. UNCHANGED remaining /\ {call} \cup Elements(Tail(agenda)) \subseteq Elements(agenda')
    BY <2>1, AgendaParts, StartsUnshared, TryStartElements
  <2>3. ReturnAhead
    BY <1>4, <1>5, <1>7, <2>1, <2>2
  <2> QED
    BY <2>1, <2>2, <2>3, AgendaParts DEF ReturnAhead, OnAgenda
<1>10. CASE LeavesStarted
  <2>1. ReturnAhead /\ agenda # <<>> /\ Head(agenda).op = "startLeaves" /\ agenda' = Tail(agenda)
    BY <1>4, <1>5, <1>7, <1>10 DEF LeavesStarted, CallIs, stats
  <2> QED
    BY <2>1, AgendaParts DEF ReturnAhead, Returning, OnAgenda
<1>11. CASE WaitForStarted
  <2>1. PICK n \in Head(agenda).nodes : agenda # <<>> /\ TryWaitForNode(n, Tail(agenda))
    BY <1>11 DEF WaitForStarted, CallIs
  <2>2. n \in LcNodes /\ Tail(agenda) \in Seq(Calls) /\ ReturnIsAllDone \in Calls /\ ReturnIsAllDone.op \in Returning
    BY <2>1, AgendaParts, <1>6, CallsTyped, OpsAre DEF Errors, ReturnIsAllDone
  <2>3. CASE HandleNodeWaited(n, FALSE, "skipped", Tail(agenda))
    BY <2>2, <2>3, WaitedReturns
  <2>4. CASE agenda' = <<ReturnIsAllDone>> \o Tail(agenda)
    BY <2>2, <2>4, FirstReturns
  <2>5. wait'[n] \in Done
    BY <1>2, <2>2
  <2> QED
    BY <1>3, <1>4, <2>1, <2>2, <2>3, <2>4, <2>5 DEF TryWaitForNode, nodes, stats, Done
<1>12. CASE CloseStarted \/ TryShutDown
  <2>1. agenda # <<>> /\ \E ns \in SUBSET LcNodes : agenda' = <<Close(ns)>> \o Tail(agenda)
    BY <1>6, <1>12, AgendaParts DEF CloseStarted, TryShutDown, ToCloseAfterStart, CallIs, ReturnIsAllDone
  <2>2. \A ns \in SUBSET LcNodes : Close(ns) \in Calls /\ Close(ns).op = "close"
    BY CallsTyped, OpsAre DEF Errors
  <2> QED
    BY <1>6, <2>1, <2>2, AgendaParts, FirstReturns
<1>13. CASE CloseNext
  <2>1. PICK n \in Head(agenda).nodes :
           agenda # <<>> /\ TryCloseNode(n, <<Close(Head(agenda).nodes \ {n})>> \o Tail(agenda))
    BY <1>13 DEF CloseNext, CallIs
  <2> DEFINE more == Close(Head(agenda).nodes \ {n})
             rest == <<more>> \o Tail(agenda)
  <2>2. n \in LcNodes /\ more \in Calls /\ more.op = "close" /\ Tail(agenda) \in Seq(Calls)
    BY <2>1, AgendaParts, CallsTyped, OpsAre DEF Errors
  <2>3. rest \in Seq(Calls) /\ Elements(rest) = {more} \cup Elements(Tail(agenda))
    <3> HIDE DEF more
    <3> QED
      BY <2>2, AgendaTyped, ElementsOfOne
  <2>4. Elements(rest) \subseteq Elements(agenda')
    BY <2>1, <2>2, <2>3, TryCloseAddsNoStart, NothingNamed
  <2> HIDE DEF more, rest
  <2> QED
    BY <1>6, <2>2, <2>3, <2>4 DEF ReturnAhead, OnAgenda
<1>14. CASE ReturnFromCall
  BY <1>4, <1>14 DEF ReturnFromCall, InProgress, stats
<1>15. ASSUME NEW n \in LcNodes, ReceiveStartResult(n)
       PROVE  ReturnAhead'
  <2>1. CASE HandleNodeStarted(n, "completed", <<>>)
    BY <1>4, <1>5, <1>15, <2>1 DEF ReceiveStartResult, Receiving, InProgress, HandleNodeStarted
  <2>2. CASE HandleNodeStartError(n, <<>>)
    <3>1. ShutDown("hook") \in Elements(agenda')
      BY <1>6, <2>2, StartErrorShutsDown
    <3> QED
      BY <1>6, <3>1, OpsAre DEF ReturnAhead, OnAgenda
  <2> QED
    BY <1>15, <2>1, <2>2 DEF ReceiveStartResult
<1>16. ASSUME NEW n \in LcNodes, ReceiveWaitResult(n)
       PROVE  ReturnAhead'
  BY <1>6, <1>16, WaitedReturns DEF ReceiveWaitResult
<1>17. ASSUME NEW n \in LcNodes, ReceiveClosed(n)
       PROVE  ReturnAhead'
  <2>1. agenda' = <<Close(dependsOn[n])>> \o <<>>
    BY <1>2, <1>17 DEF ReceiveClosed, HandleNodeClosed, EndsNode
  <2>2. Close(dependsOn[n]) \in Calls /\ Close(dependsOn[n]).op = "close"
    BY GraphTyped, CallsTyped, OpsAre DEF Errors
  <2> QED
    BY <1>6, <2>1, <2>2, FirstReturns
<1>18. CASE ReceiveCtxDone
  <2>1. agenda' = <<ShutDown("ctx")>> \o <<>> /\ ShutDown("ctx") \in Calls /\ ShutDown("ctx").op = "shutDown"
    BY <1>18, CallsTyped, OpsAre DEF ReceiveCtxDone, Errors
  <2> QED
    BY <1>6, <2>1, FirstReturns
<1>19. ASSUME NEW n \in LcNodes, StartReturns(n) \/ WaitReturns(n) \/ CloseReturns(n) \/ StartTimesOut(n)
       PROVE  ReturnAhead'
  BY <1>4, <1>5, <1>19 DEF StartReturns, WaitReturns, CloseReturns, StartTimesOut, session, stats, InProgress, ReturnAhead, OnAgenda
<1>20. CASE CancelRunCtx \/ Finished \/ UNCHANGED vars
  BY <1>4, <1>5, <1>20 DEF CancelRunCtx, Finished, session, vars, stats, InProgress, ReturnAhead, OnAgenda
<1> QED
  BY <1>8, <1>9, <1>10, <1>11, <1>12, <1>13, <1>14, <1>15, <1>16, <1>17, <1>18, <1>19, <1>20 DEF Next, SessionStep

-----------------------------------------------------------------------------
(* The last wait begins the shutdown *)

LEMMA StoppingStays ==
  ASSUME Known, [Next]_vars, Stopping
  PROVE  Stopping'
<1> USE DEF Known
<1>1. Begun \/ TryShutDown => Begun'
  BY ShutdownBegins DEF SInv
<1>2. CASE CallIs("shutDown") /\ ~TryShutDown
  <2>1. UNCHANGED agenda
    BY <1>2 DEF Next, SessionStep, CallIs, RunBegins, StartNextLeaf, LeavesStarted, StartNextDependent, WaitForStarted,
       CloseStarted, CloseNext, ReturnFromCall, ReceiveStartResult, ReceiveWaitResult, ReceiveClosed, ReceiveCtxDone,
       Receiving, IInv, Quiet, StartReturns, WaitReturns, CloseReturns, StartTimesOut, CancelRunCtx, Finished, session, vars
  <2> QED
    BY <1>2, <2>1 DEF CallIs, Stopping
<1> QED
  BY <1>1, <1>2 DEF Stopping

\* Before the shutdown nothing is closed.
LEMMA NotStopping ==
  ASSUME Known, [Next]_vars, ~Stopping'
  PROVE  /\ ~Stopping /\ ~Begun /\ ~ShuttingDown /\ ~TryShutDown /\ ~CallIs("shutDown")'
         /\ NothingEndsEarly /\ NoCloseYet /\ ~(CloseNext /\ Head(agenda).nodes # {})
<1> USE DEF Known
<1>1. ~Stopping /\ ~Begun /\ ~CallIs("shutDown")'
  BY StoppingStays DEF Stopping
<1>2. ~TryShutDown /\ ~ShuttingDown /\ NothingEndsEarly /\ NoCloseYet
  BY <1>1 DEF SInv, TryShutDown, Stopping
<1>3. ~(CloseNext /\ Head(agenda).nodes # {})
  BY <1>1, ClosesAfter DEF CloseNext
<1> QED
  BY <1>1, <1>2, <1>3

LEMMA StaysInProgress ==
  ASSUME Known, [Next]_vars, InProgress'
  PROVE  InProgress \/ (RunBegins /\ pc = "run" /\ agenda = <<>> /\ NothingStarted)
<1> USE DEF Known
<1>1. GivesNoSignal \/ \E n \in LcNodes : GivesSignal(n)
  BY NextSignals
<1>2. pc = "returned" => pc' = "returned"
  BY <1>1 DEF GivesNoSignal, GivesSignal
<1>3. pc = "run" /\ ~RunBegins => pc' = "run"
  BY DEF Next, SessionStep, CallIs, StartNextLeaf, LeavesStarted, StartNextDependent, WaitForStarted, TryShutDown,
       CloseStarted, CloseNext, ReturnFromCall, ReceiveStartResult, ReceiveWaitResult, ReceiveClosed, ReceiveCtxDone,
       Receiving, IInv, Quiet, StartReturns, WaitReturns, CloseReturns, StartTimesOut, CancelRunCtx, Finished, session, vars
<1> QED
  BY <1>2, <1>3 DEF InProgress, IInv, Quiet

\* Without a shutdown, the wait that ends is not the last before the closes.
LEMMA WaitedIsNotLast ==
  ASSUME TypeOK, ~ShuttingDown, ~CallIs("shutDown")', NEW n \in LcNodes, NEW failed, NEW phase, NEW rest \in Seq(Calls),
         HandleNodeWaited(n, failed, phase, rest)
  PROVE  ~OnlyClosesLeft
<1>1. ShutDown("hook") \in Calls /\ ShutDown("nil") \in Calls /\ Close({n}) \in Calls
  BY CallsTyped DEF Errors
<1>2. CASE agenda' = <<ShutDown("hook"), Close({n})>> \o rest
  <2>1. agenda' = <<ShutDown("hook")>> \o (<<Close({n})>> \o rest) /\ <<Close({n})>> \o rest \in Seq(Calls)
    BY <1>1, <1>2, TwoInFront
  <2> QED
    BY <1>1, <2>1, HeadOfJoin, OpsAre DEF CallIs
<1>3. CASE agenda' = <<ShutDown("nil")>> \o rest
  BY <1>1, <1>3, HeadOfJoin, OpsAre DEF CallIs
<1> QED
  BY <1>2, <1>3 DEF HandleNodeWaited

LEMMA NextLastWait ==
  ASSUME SharedHook = {}, Known, Known', LastWaitShutsDown, [Next]_vars
  PROVE  LastWaitShutsDown'
<1> USE DEF Known
<1> SUFFICES ASSUME AllWaited', InProgress', ~Stopping'
             PROVE  AllDone'
  BY DEF LastWaitShutsDown
<1>1. NodeStep /\ UNCHANGED graph /\ LcNodes' = LcNodes /\ \A n \in LcNodes : wait'[n] \in Done
  BY NextMoves, GraphFixed DEF NodeStep, AllWaited
<1>2. ~Stopping /\ ~Begun /\ ~ShuttingDown /\ ~TryShutDown /\ ~CallIs("shutDown")'
  BY NotStopping
<1>3. InProgress
  <2>1. ASSUME RunBegins, NothingStarted
        PROVE  FALSE
    <3>1. Leaves # {} /\ wait' = wait
      BY <2>1 DEF RunBegins, InProgress, nodes
    <3> QED
      BY <1>1, <2>1, <3>1 DEF NothingStarted, IInv, StartFirst, Leaves, Done
  <2> QED
    BY <2>1, StaysInProgress
<1>4. CASE AllWaited
  <2>1. AllDone
    BY <1>2, <1>3, <1>4 DEF LastWaitShutsDown
  <2>2. \A n \in LcNodes : IsDone(n)
    BY <2>1, AllDoneMeansOver DEF IInv, AllOver
  <2>3. UNCHANGED <<wait, close>>
    BY <1>1, <2>2 DEF NodeStep, Moves, NothingMoves
  <2> QED
    BY <1>1, <2>2, <2>3, DoneNext DEF IsDone
<1>5. ASSUME NEW n \in LcNodes, wait[n] \notin Done
      PROVE  AllDone'
  <2>0. wait'[n] \in Done /\ (\A m \in LcNodes : m \in Node) /\ wait \in [Node -> Phase]
    BY <1>1, GraphTyped DEF TypeOK
  <2>1. ASSUME UNCHANGED wait PROVE FALSE
    BY <1>5, <2>0, <2>1
  <2>2. ASSUME NEW k \in LcNodes, NEW failed, NEW phase, NEW rest \in Seq(Calls), HandleNodeWaited(k, failed, phase, rest)
        PROVE  AllDone'
    <3>1. ~OnlyClosesLeft
      BY <1>2, <2>2, WaitedIsNotLast
    <3>2. remainingWaits' = 0 /\ remainingCloses' >= 0 /\ remainingCloses' \in Int
      BY <1>1, DoneNext DEF TypeOK
    <3>3. ~(remainingCloses' > 0)
      BY <3>1, <3>2 DEF OnlyClosesLeft
    <3>4. remainingCloses' = 0
      BY <3>2, <3>3
    <3> QED
      BY <3>2, <3>4 DEF AllDone
  <2>3. CASE RunBegins \/ LeavesStarted \/ CloseStarted \/ ReturnFromCall \/ ReceiveCtxDone
    BY <2>1, <2>3 DEF RunBegins, LeavesStarted, CloseStarted, ReturnFromCall, ReceiveCtxDone, nodes
  <2>4. CASE StartNextLeaf \/ StartNextDependent
    BY <2>1, <2>4, LoopStarts, StartsUnshared
  <2>5. CASE WaitForStarted
    <3>1. PICK k \in Head(agenda).nodes : agenda # <<>> /\ TryWaitForNode(k, Tail(agenda))
      BY <2>5 DEF WaitForStarted, CallIs
    <3>2. k \in LcNodes /\ Tail(agenda) \in Seq(Calls)
      BY <3>1, AgendaParts
    <3>3. ~UNCHANGED nodes /\ wait' # [wait EXCEPT ![k] = "active"]
      BY <1>5, <2>0, <2>1 DEF nodes, Done
    <3> QED
      BY <2>2, <3>1, <3>2, <3>3 DEF TryWaitForNode
  <2>6. CASE CloseNext
    BY <1>2, <2>6, NotStopping DEF CloseNext
  <2>7. ASSUME NEW k \in LcNodes, ReceiveStartResult(k)
        PROVE  FALSE
    <3>1. CASE HandleNodeStarted(k, "completed", <<>>)
      BY <2>1, <3>1 DEF HandleNodeStarted
    <3>2. CASE HandleNodeStartError(k, <<>>)
      BY <1>2, <3>2, StartErrorShutsDown, <<>> \in Seq(Calls)
    <3> QED
      BY <2>7, <3>1, <3>2 DEF ReceiveStartResult
  <2>8. ASSUME NEW k \in LcNodes, ReceiveWaitResult(k) \/ ReceiveClosed(k)
        PROVE  AllDone'
    BY <2>1, <2>2, <2>8, <<>> \in Seq(Calls) DEF ReceiveWaitResult, ReceiveClosed
  <2>9. ASSUME NEW k \in LcNodes, StartReturns(k) \/ WaitReturns(k) \/ CloseReturns(k) \/ StartTimesOut(k)
        PROVE  FALSE
    BY <2>1, <2>9 DEF StartReturns, WaitReturns, CloseReturns, StartTimesOut, session
  <2>10. CASE CancelRunCtx \/ Finished \/ UNCHANGED vars
    BY <2>1, <2>10 DEF CancelRunCtx, Finished, session, vars, nodes
  <2> QED
    BY <1>2, <2>3, <2>4, <2>5, <2>6, <2>7, <2>8, <2>9, <2>10 DEF Next, SessionStep
<1> QED
  BY <1>4, <1>5 DEF AllWaited

-----------------------------------------------------------------------------
(* Leaves are started, readiness is reported *)

LeavesAhead ==
    InProgress => \A n \in Leaves : start[n] = "none" => \E c \in OnAgenda : c.op = "startLeaves" /\ n \in c.nodes
SignalsExact ==
    ~Stopping => /\ remainingReadySignals = Cardinality(Open(start))
                 /\ Open(start) = {} /\ InProgress => onReadyCalls = 1

\* The steps that leave every start as it is.
LEMMA StartsStay ==
  ASSUME UNCHANGED graph, [Next]_vars,
         \/ RunBegins \/ LeavesStarted \/ WaitForStarted \/ CloseStarted \/ TryShutDown \/ ReturnFromCall \/ ReceiveCtxDone
         \/ \E n \in LcNodes : \/ ReceiveWaitResult(n) \/ ReceiveClosed(n)
                               \/ StartReturns(n) \/ WaitReturns(n) \/ CloseReturns(n) \/ StartTimesOut(n)
         \/ CancelRunCtx \/ Finished \/ UNCHANGED vars
  PROVE  UNCHANGED <<start, readyDeps>>
BY DEF RunBegins, LeavesStarted, WaitForStarted, CloseStarted, TryShutDown, ReturnFromCall, ReceiveCtxDone,
   ReceiveWaitResult, ReceiveClosed, StartReturns, WaitReturns, CloseReturns, StartTimesOut, CancelRunCtx, Finished,
   TryWaitForNode, HandleNodeWaited, nodes, session, vars

LEMMA NextLeavesAhead ==
  ASSUME SharedHook = {}, Known, LeavesAhead, [Next]_vars
  PROVE  LeavesAhead'
<1> USE DEF Known
<1>1. NodeStep /\ UNCHANGED graph /\ LcNodes' = LcNodes /\ Leaves' = Leaves /\ Leaves \subseteq LcNodes
  BY NextMoves, GraphFixed DEF NodeStep, Leaves, graph
<1> SUFFICES ASSUME NEW n \in Leaves, start'[n] = "none", InProgress'
             PROVE  \E c \in Elements(agenda') : c.op = "startLeaves" /\ n \in c.nodes
  BY <1>1 DEF LeavesAhead, OnAgenda
<1>2. n \in LcNodes /\ n \in Node /\ start[n] = "none" /\ ~AllDone
  <2>1. n \in LcNodes /\ n \in Node /\ start[n] = "none"
    BY <1>1, MovesStay, GraphTyped
  <2> QED
    BY <2>1, AllDoneMeansOver DEF IInv, AllOver, IsDone, StartFirst, Done
<1>3. CASE RunBegins
  <2>1. agenda' = <<StartLeaves(Leaves)>> \o <<>> /\ StartLeaves(Leaves) \in Calls /\ <<>> \in Seq(Calls)
    BY <1>1, <1>3, CallsTyped DEF RunBegins, InProgress, Errors
  <2>2. StartLeaves(Leaves) \in Elements(agenda')
    BY <2>1, ElementsOfOne
  <2> QED
    BY <2>2, OpsAre
<1>4. CASE ~RunBegins
  <2>1. PICK c \in OnAgenda : c.op = "startLeaves" /\ n \in c.nodes
    BY <1>2, <1>4, StaysInProgress DEF LeavesAhead
  <2>2. agenda # <<>> /\ OnAgenda = {Head(agenda)} \cup Elements(Tail(agenda)) /\ Tail(agenda) \in Seq(Calls)
    BY <2>1, NothingOnAgenda, AgendaParts
  <2>3. CASE StartNextLeaf \/ StartNextDependent
    <3>1. PICK k \in Head(agenda).nodes, call \in LoopsToStart :
             /\ k \in LcNodes /\ call.nodes = Head(agenda).nodes \ {k} /\ call.op = Head(agenda).op
             /\ TryStartNode(k, <<call>> \o Tail(agenda)) /\ readyDeps' \in [Node -> Nat]
      BY <2>3, LoopStarts
    <3>2. {call} \cup Elements(Tail(agenda)) \subseteq Elements(agenda')
      BY <2>2, <3>1, TryStartElements
    <3>3. k # n
      <4>1. DepsReady(n)
        <5>1. Cardinality(dependsOn[n]) = 0 /\ readyDeps'[n] \in Nat
          BY <1>2, <3>1, FS_EmptySet DEF Leaves
        <5> QED
          BY <5>1 DEF DepsReady
      <4>2. start \in [Node -> Phase]
        BY DEF TypeOK
      <4> QED
        BY <1>2, <3>1, <4>1, <4>2, StartsUnshared
    <3> QED
      BY <2>1, <2>2, <3>1, <3>2, <3>3
  <2>4. CASE LeavesStarted
    <3>1. NoNewStart /\ c # Head(agenda)
      BY <2>1, <2>4, StepsAddNoStart DEF LeavesStarted
    <3> QED
      BY <1>2, <2>1, <3>1 DEF NoNewStart, Ends
  <2>5. CASE WaitForStarted \/ CloseStarted \/ CloseNext \/ TryShutDown \/ ReturnFromCall
    <3>1. ~CallIs("startLeaves") /\ ~StartNextLeaf
      BY <2>5 DEF WaitForStarted, CloseStarted, CloseNext, TryShutDown, ReturnFromCall, CallIs, StartNextLeaf
    <3> QED
      BY <1>2, <2>1, <2>2, <2>5, <3>1, StepsAddNoStart DEF NoNewStart, Ends, CallIs
  <2>6. ~ReceiveCtxDone /\ \A k \in LcNodes : ~ReceiveStartResult(k) /\ ~ReceiveWaitResult(k) /\ ~ReceiveClosed(k)
    BY <2>2 DEF ReceiveCtxDone, ReceiveStartResult, ReceiveWaitResult, ReceiveClosed, Receiving
  <2>7. CASE UNCHANGED agenda
    BY <2>1, <2>7 DEF OnAgenda
  <2> QED
    BY <1>4, <2>3, <2>4, <2>5, <2>6, <2>7 DEF Next, SessionStep, StartReturns, WaitReturns, CloseReturns, StartTimesOut,
       CancelRunCtx, Finished, session, vars
<1> QED
  BY <1>3, <1>4

LEMMA StartsStayDone ==
  ASSUME NodeStep, NEW n \in LcNodes
  PROVE  start[n] \in Done => start'[n] \in Done
<1>1. CASE NothingMoves
  BY <1>1 DEF NothingMoves
<1>2. ASSUME NEW k \in LcNodes, Moves(k), k # n
      PROVE  start[n] \in Done => start'[n] \in Done
  BY <1>2 DEF Moves, OthersStay
<1>3. ASSUME Moves(n)
      PROVE  start[n] \in Done => start'[n] \in Done
  BY <1>3 DEF Moves, Starts, GetsReady, FailsToStart, BeginsWait, EndsWait, IsSkipped,
     BeginsClose, EndsClosing, CallReturns, PhasesMove, Done
<1> QED
  BY <1>1, <1>2, <1>3 DEF NodeStep

LEMMA NextSignalsExact ==
  ASSUME SharedHook = {}, Known, SignalsExact, [Next]_vars
  PROVE  SignalsExact'
<1> USE DEF Known
<1>1. NodeStep /\ UNCHANGED graph /\ LcNodes' = LcNodes
  BY NextMoves, GraphFixed DEF NodeStep
<1> SUFFICES ASSUME ~Stopping'
             PROVE  /\ remainingReadySignals' = Cardinality(Open(start)')
                    /\ Open(start)' = {} /\ InProgress' => onReadyCalls' = 1
  BY DEF SignalsExact
<1>2. /\ ~Stopping /\ ~ShuttingDown /\ ~CallIs("shutDown")' /\ ~(CloseNext /\ Head(agenda).nodes # {})
      /\ remainingReadySignals = Cardinality(Open(start)) /\ (Open(start) = {} /\ InProgress => onReadyCalls = 1)
  BY NotStopping DEF SignalsExact
<1>3. CASE GivesNoSignal
  <2>1. \A m \in LcNodes : start'[m] \in Done <=> start[m] \in Done
    BY <1>1, <1>2, <1>3, StartsStayDone DEF GivesNoSignal, CloseNext
  <2>2. Open(start)' = Open(start)
    BY <1>1, <2>1 DEF Open
  <2>3. Open(start) = {} /\ RunBegins => ~InProgress'
    BY DEF RunBegins, InProgress, Open, Leaves, IInv, Quiet, NothingStarted, Done
  <2> QED
    BY <1>2, <1>3, <2>2, <2>3, StaysInProgress DEF GivesNoSignal
<1>4. ASSUME NEW n \in LcNodes, GivesSignal(n)
      PROVE  /\ remainingReadySignals' = Cardinality(Open(start)')
             /\ Open(start)' = {} /\ InProgress' => onReadyCalls' = 1
  <2>1. /\ Cardinality(Open(start)) \in Nat /\ n \in Open(start) /\ Open(start)' = Open(start')
        /\ IsFiniteSet(Open(start')) /\ Cardinality(Open(start')) = Cardinality(Open(start)) - 1
    BY <1>1, <1>4, SignalClosesStart
  <2>2. remainingReadySignals' = remainingReadySignals - 1 /\ pc # "returned"
        /\ onReadyCalls' = IF ReportsReady THEN onReadyCalls + 1 ELSE onReadyCalls
    BY <1>4 DEF GivesSignal
  <2>3. onReadyCalls = 0
    BY <2>1, <2>2 DEF SignalsCounted, TypeOK
  <2>4. Open(start') = {} => ReportsReady
    <3>1. Open(start') = {} => Cardinality(Open(start')) = 0
      BY FS_EmptySet
    <3> QED
      BY <1>2, <2>1, <3>1 DEF ReportsReady, LastToGetReady
  <2> QED
    BY <1>2, <2>1, <2>2, <2>3, <2>4
<1> QED
  BY <1>3, <1>4, NextSignals

-----------------------------------------------------------------------------
(* No node is forgotten: what a node has not counted of its ready dependencies *)
(* is on the agenda, and a node that has not started waits for one more.       *)

NoneForgotten ==
    ~Stopping => \A n \in LcNodes : start[n] = "none" =>
        /\ readyDeps[n] + Cardinality(Below(agenda, n)) = Cardinality(ReadyDeps(n))
        /\ dependsOn[n] # {} => readyDeps[n] < Cardinality(dependsOn[n])

\* A start that failed is not forgiven.
LEMMA FailuresStay ==
  ASSUME TypeOK, IInv, NodeStep, NEW n \in LcNodes, startCall[n] = "failed"
  PROVE  startCall'[n] = "failed"
<1>1. CASE NothingMoves
  BY <1>1 DEF NothingMoves
<1>2. ASSUME NEW k \in LcNodes, Moves(k), k # n
      PROVE  startCall'[n] = "failed"
  BY <1>2 DEF Moves, OthersStay
<1>3. ASSUME Moves(n)
      PROVE  startCall'[n] = "failed"
  BY <1>3 DEF Moves, Starts, GetsReady, FailsToStart, BeginsWait, EndsWait, IsSkipped, BeginsClose, EndsClosing,
     CallReturns, CallsStay, StartCallMoves, CloseCallMoves, IInv, GoroutinesHavePhases
<1> QED
  BY <1>1, <1>2, <1>3 DEF NodeStep

\* Dependencies get ready only by getting started.
LEMMA ReadyStays ==
  ASSUME TypeOK, IInv, NodeStep, NEW n \in LcNodes, \A d \in LcNodes : start'[d] \in Done => start[d] \in Done
  PROVE  ReadyDeps(n)' = ReadyDeps(n)
<1>1. dependsOn' = dependsOn /\ dependsOn[n] \subseteq LcNodes
  BY GraphTyped DEF NodeStep, graph
<1>2. ReadyDeps(n)' \subseteq ReadyDeps(n)
  BY <1>1, FailuresStay DEF ReadyDeps
<1> QED
  BY <1>2, ReadyGrows

\* A node that gets ready tells all its dependents, if one of the others has not started.
LEMMA StartedTells ==
  ASSUME Known, SignalsExact, NodeStep, ~Stopping, NEW n \in LcNodes, start[n] = "none",
         NEW k \in LcNodes, k # n, NEW phase \in Done, NEW rest \in Seq(Calls),
         HandleNodeStarted(k, phase, rest), start[k] \notin Done, startCall'[k] # "failed"
  PROVE  /\ Cardinality(Below(agenda', n)) \in Nat /\ Cardinality(Below(rest, n)) \in Nat
         /\ Cardinality(Below(agenda', n)) - Cardinality(Below(rest, n))
              = Cardinality(ReadyDeps(n)') - Cardinality(ReadyDeps(n))
<1> USE DEF Known
<1>1. dependsOn' = dependsOn /\ dependsOn[n] \subseteq LcNodes
  BY GraphTyped DEF NodeStep, graph
<1>2. NextToStart(k) = Dependents(k)
  <2>1. ~ShuttingDown
    BY DEF SInv, Stopping
  <2>2. PICK both : both = {k} \cup {n}
    OBVIOUS
  <2>3. ASSUME Cardinality(Open(start)) = 1
        PROVE  FALSE
    <3>1. both \subseteq Open(start)
      BY <2>2 DEF Open, Done
    <3>2. Cardinality(both) <= Cardinality(Open(start))
      BY <3>1, OpenFinite, FS_Subset
    <3>3. Cardinality({k}) = 1 /\ IsFiniteSet({k})
      BY FS_Singleton
    <3>4. PICK first : first = {k}
      OBVIOUS
    <3>5. n \notin first /\ IsFiniteSet(first) /\ Cardinality(first) = 1 /\ both = first \cup {n}
      BY <2>2, <3>3, <3>4
    <3>6. Cardinality(first \cup {n}) = Cardinality(first) + 1
      BY <3>5, FS_AddElement
    <3>7. Cardinality(both) = 2
      BY <3>5, <3>6
    <3> QED
      BY <2>3, <3>2, <3>7
  <2>4. ~LastToGetReady
    BY <2>3 DEF LastToGetReady, SignalsExact
  <2> QED
    BY <2>1, <2>4 DEF NextToStart
<1>3. start' = [start EXCEPT ![k] = phase] /\ start \in [Node -> Phase] /\ k \in Node
  BY GraphTyped DEF HandleNodeStarted, TypeOK
<1>4. /\ Cardinality(Below(rest, n)) \in Nat
      /\ Cardinality(Below(agenda', n)) = Cardinality(Below(rest, n)) + (IF n \in Dependents(k) THEN 1 ELSE 0)
  BY <1>2, StartedBelow
<1>5. IsFiniteSet(ReadyDeps(n)) /\ Cardinality(ReadyDeps(n)) \in Nat /\ ReadyDeps(n) \subseteq ReadyDeps(n)'
  BY ReadyFinite, ReadyGrows
<1>6. k \notin ReadyDeps(n) /\ (n \in Dependents(k) <=> k \in dependsOn[n])
  BY DEF ReadyDeps, Dependents
<1>7. ReadyDeps(n)' \subseteq ReadyDeps(n) \cup {k}
  <2> SUFFICES ASSUME NEW d \in ReadyDeps(n)', d # k
               PROVE  d \in ReadyDeps(n)
    OBVIOUS
  <2>1. d \in dependsOn[n] /\ start'[d] \in Done /\ startCall'[d] # "failed" /\ d \in LcNodes
    BY <1>1 DEF ReadyDeps
  <2>2. d \in Node /\ start[d] \in Done
    BY <1>3, <2>1, GraphTyped
  <2> QED
    BY <2>1, <2>2, FailuresStay DEF ReadyDeps
<1>8. CASE k \in dependsOn[n]
  <2>1. k \in ReadyDeps(n)'
    BY <1>1, <1>3, <1>8 DEF ReadyDeps
  <2>2. ReadyDeps(n)' = ReadyDeps(n) \cup {k}
    BY <1>5, <1>7, <2>1
  <2>3. Cardinality(ReadyDeps(n) \cup {k}) = Cardinality(ReadyDeps(n)) + 1
    BY <1>5, <1>6, FS_AddElement
  <2>4. Cardinality(ReadyDeps(n)') = Cardinality(ReadyDeps(n)) + 1
    BY <2>2, <2>3
  <2> QED
    BY <1>4, <1>5, <1>6, <1>8, <2>4
<1>9. CASE k \notin dependsOn[n]
  <2>1. k \notin ReadyDeps(n)'
    BY <1>1, <1>9 DEF ReadyDeps
  <2>2. ReadyDeps(n)' = ReadyDeps(n)
    BY <1>5, <1>7, <2>1
  <2>3. Cardinality(ReadyDeps(n)') = Cardinality(ReadyDeps(n))
    BY <2>2
  <2> QED
    BY <1>4, <1>5, <1>6, <1>9, <2>3
<1> QED
  BY <1>8, <1>9

\* A start puts nothing but such counts on the agenda.
LEMMA TryStartTells ==
  ASSUME SharedHook = {}, Known, SignalsExact, ~Stopping, NEW n \in LcNodes, start[n] = "none", start'[n] = "none",
         NEW k \in LcNodes, NEW rest \in Seq(Calls), TryStartNode(k, rest), UNCHANGED graph, NodeStep
  PROVE  /\ Cardinality(Below(agenda', n)) \in Nat /\ Cardinality(Below(rest, n)) \in Nat
         /\ Cardinality(Below(agenda', n)) - Cardinality(Below(rest, n))
              = Cardinality(ReadyDeps(n)') - Cardinality(ReadyDeps(n))
<1> USE DEF Known
<1>1. start \in [Node -> Phase] /\ (\A m \in LcNodes : m \in Node) /\ k \in Node
      /\ startCall \in [Node -> {"none", "running", "ok", "failed"}]
  BY GraphTyped DEF TypeOK
<1>2. ASSUME AddsNoStart(rest), \A d \in LcNodes : start'[d] \in Done => start[d] \in Done
      PROVE  /\ Cardinality(Below(agenda', n)) \in Nat /\ Cardinality(Below(rest, n)) \in Nat
             /\ Cardinality(Below(agenda', n)) - Cardinality(Below(rest, n))
                  = Cardinality(ReadyDeps(n)') - Cardinality(ReadyDeps(n))
  <2>1. Cardinality(Below(agenda', n)) = Cardinality(Below(rest, n)) /\ Cardinality(Below(rest, n)) \in Nat
    BY <1>2, NothingNamed, BelowFinite
  <2>2. Cardinality(ReadyDeps(n)') = Cardinality(ReadyDeps(n)) /\ Cardinality(ReadyDeps(n)) \in Nat
    <3>1. ReadyDeps(n)' = ReadyDeps(n)
      BY <1>2, ReadyStays
    <3> QED
      BY <3>1, ReadyFinite
  <2> QED
    BY <2>1, <2>2
<1>3. CASE /\ agenda' = (IF start[k] \in Done THEN <<ReturnIsAllDone>> ELSE <<>>) \o rest
           /\ start' = start
  <2>1. <<>> \o rest = rest /\ {} \in SUBSET LcNodes /\ "hook" \in Errors
    BY DEF Errors
  <2>2. ReturnIsAllDone \in Calls \ LoopsToStart
    BY <2>1, OthersAre
  <2>3. AddsNoStart(rest)
    BY <1>3, <2>1, <2>2 DEF AddsNoStart
  <2> QED
    BY <1>2, <1>3, <2>3
<1>4. CASE agenda' = rest /\ start' = [start EXCEPT ![k] = "active"]
  <2>1. \A d \in LcNodes : start'[d] \in Done => start[d] \in Done
    BY <1>1, <1>4 DEF Done
  <2> QED
    BY <1>2, <1>4, <2>1 DEF AddsNoStart
<1>5. ASSUME NEW phase \in Done, HandleNodeStarted(k, phase, rest), start[k] = "none", startCall'[k] # "failed"
      PROVE  /\ Cardinality(Below(agenda', n)) \in Nat /\ Cardinality(Below(rest, n)) \in Nat
             /\ Cardinality(Below(agenda', n)) - Cardinality(Below(rest, n))
                  = Cardinality(ReadyDeps(n)') - Cardinality(ReadyDeps(n))
  <2>1. k # n /\ start[k] \notin Done
    BY <1>1, <1>5 DEF HandleNodeStarted, Done
  <2> QED
    BY <1>5, <2>1, StartedTells
<1>6. CASE start[k] = "none" /\ HandleNodeStarted(k, "skipped", rest) /\ UNCHANGED env
  <2>1. startCall'[k] = "none" /\ "skipped" \in Done
    BY <1>6 DEF IInv, GoroutinesHavePhases, env, calls, Done
  <2> QED
    BY <1>5, <1>6, <2>1
<1>7. CASE start[k] = "none" /\ HandleNodeStarted(k, "completed", rest) /\ startCall' = [startCall EXCEPT ![k] = "ok"]
  <2>1. startCall'[k] = "ok" /\ "completed" \in Done
    BY <1>1, <1>7 DEF Done
  <2> QED
    BY <1>5, <1>7, <2>1
<1> QED
  BY <1>3, <1>4, <1>6, <1>7 DEF TryStartNode

LEMMA NextNoneForgotten ==
  ASSUME SharedHook = {}, Known, Known', NoneForgotten, SignalsExact, [Next]_vars
  PROVE  NoneForgotten'
<1> USE DEF Known
<1>1. NodeStep /\ UNCHANGED graph /\ LcNodes' = LcNodes /\ dependsOn' = dependsOn
  BY NextMoves, GraphFixed DEF NodeStep, graph
<1> SUFFICES ASSUME ~Stopping', NEW n \in LcNodes, start'[n] = "none"
             PROVE  /\ readyDeps'[n] + Cardinality(Below(agenda', n)) = Cardinality(ReadyDeps(n)')
                    /\ dependsOn[n] # {} => readyDeps'[n] < Cardinality(dependsOn[n])
  BY <1>1 DEF NoneForgotten
<1>2. /\ ~Stopping /\ ~CallIs("shutDown")' /\ ~TryShutDown /\ start[n] = "none" /\ n \in Node
      /\ ~(CloseNext /\ Head(agenda).nodes # {})
  BY <1>1, NotStopping, MovesStay, GraphTyped
<1>3. /\ readyDeps[n] + Cardinality(Below(agenda, n)) = Cardinality(ReadyDeps(n))
      /\ dependsOn[n] # {} => readyDeps[n] < Cardinality(dependsOn[n])
  BY <1>2 DEF NoneForgotten
<1>4. /\ readyDeps[n] \in Nat /\ Cardinality(ReadyDeps(n)) \in Nat /\ Cardinality(Below(agenda, n)) \in Nat
      /\ Cardinality(ReadyDeps(n)') \in Nat /\ agenda \in Seq(Calls)
  BY <1>1, <1>2, ReadyFinite, ReadyGrows, BelowFinite DEF TypeOK
<1>5. ~Ends
  BY <1>2, AllDoneMeansOver DEF Ends, IInv, AllOver, IsDone, StartFirst, Done
<1>6. ASSUME UNCHANGED <<start, readyDeps>>, Cardinality(Below(agenda', n)) = Cardinality(Below(agenda, n))
      PROVE  /\ readyDeps'[n] + Cardinality(Below(agenda', n)) = Cardinality(ReadyDeps(n)')
             /\ dependsOn[n] # {} => readyDeps'[n] < Cardinality(dependsOn[n])
  <2>1. ReadyDeps(n)' = ReadyDeps(n)
    BY <1>1, <1>6, ReadyStays
  <2> QED
    BY <1>3, <1>6, <2>1
<1>7. ASSUME NEW rest, readyDeps'[n] \in Nat,
              readyDeps'[n] + Cardinality(Below(rest, n)) = readyDeps[n] + Cardinality(Below(agenda, n)),
              Cardinality(Below(agenda', n)) \in Nat, Cardinality(Below(rest, n)) \in Nat,
              Cardinality(Below(agenda', n)) - Cardinality(Below(rest, n)) = Cardinality(ReadyDeps(n)') - Cardinality(ReadyDeps(n))
       PROVE  readyDeps'[n] + Cardinality(Below(agenda', n)) = Cardinality(ReadyDeps(n)')
  <2> DEFINE told == Cardinality(Below(agenda, n))
             ready == Cardinality(ReadyDeps(n))
             told2 == Cardinality(Below(agenda', n))
             ready2 == Cardinality(ReadyDeps(n)')
             others == Cardinality(Below(rest, n))
  <2>1. readyDeps[n] + told = ready
    BY <1>3
  <2>2. told \in Nat /\ ready \in Nat /\ ready2 \in Nat /\ readyDeps[n] \in Nat
    BY <1>4
  <2>3. readyDeps'[n] + others = readyDeps[n] + told /\ others \in Nat
    BY <1>7
  <2>4. told2 \in Nat /\ told2 - others = ready2 - ready
    BY <1>7
  <2> HIDE DEF told, ready, told2, ready2, others
  <2>5. readyDeps'[n] + told2 = ready2
    BY <1>7, <2>1, <2>2, <2>3, <2>4
  <2> QED
    BY <2>5 DEF told2, ready2
<1>8. CASE RunBegins
  <2>1. UNCHANGED <<start, readyDeps>> /\ agenda = <<>>
    BY <1>8 DEF RunBegins, nodes, IInv, Quiet
  <2>2. CASE agenda' = <<StartLeaves(Leaves)>>
    <3>1. StartLeaves(Leaves) \in Calls /\ agenda' = <<StartLeaves(Leaves)>> \o <<>> /\ ~Names(StartLeaves(Leaves), n)
      BY <2>2, CallsTyped DEF Leaves, Errors, Names, StartLeaves, Call
    <3>2. Cardinality(Below(agenda', n)) = Cardinality(Below(agenda, n)) + 0
      BY <1>4, <2>1, <3>1, BelowJoin
    <3> QED
      BY <1>4, <1>6, <2>1, <3>2
  <2> QED
    BY <1>6, <1>8, <2>1, <2>2 DEF RunBegins
<1>9. CASE StartNextLeaf \/ StartNextDependent
  <2>1. PICK k \in Head(agenda).nodes, call \in LoopsToStart :
           /\ k \in LcNodes /\ agenda # <<>> /\ TryStartNode(k, <<call>> \o Tail(agenda))
           /\ readyDeps' \in [Node -> Nat] /\ \A m \in LcNodes \ {k} : readyDeps'[m] = readyDeps[m]
           /\ readyDeps'[n] + Cardinality(Below(<<call>> \o Tail(agenda), n)) = readyDeps[n] + Cardinality(Below(agenda, n))
    BY <1>9, LoopStarts
  <2> DEFINE rest == <<call>> \o Tail(agenda)
  <2>2. rest \in Seq(Calls) /\ readyDeps'[n] \in Nat
    BY <1>2, <2>1, AgendaParts, AgendaTyped DEF LoopsToStart
  <2>3. TryStartNode(k, rest) /\ readyDeps'[n] + Cardinality(Below(rest, n)) = readyDeps[n] + Cardinality(Below(agenda, n))
    BY <2>1
  <2> HIDE DEF rest
  <2>4. /\ Cardinality(Below(agenda', n)) \in Nat /\ Cardinality(Below(rest, n)) \in Nat
        /\ Cardinality(Below(agenda', n)) - Cardinality(Below(rest, n))
             = Cardinality(ReadyDeps(n)') - Cardinality(ReadyDeps(n))
    BY <1>1, <1>2, <2>1, <2>2, <2>3, TryStartTells
  <2>5. readyDeps'[n] + Cardinality(Below(agenda', n)) = Cardinality(ReadyDeps(n)')
    BY <1>7, <2>2, <2>3, <2>4
  <2>6. n = k => ~DepsReady(n)
    <3>1. start \in [Node -> Phase]
      BY DEF TypeOK
    <3> QED
      BY <1>2, <2>3, <3>1, StartsUnshared
  <2>7. dependsOn[n] # {} => readyDeps'[n] < Cardinality(dependsOn[n])
    <3>1. Cardinality(dependsOn[n]) \in Nat
      BY ReadyFinite
    <3> QED
      BY <1>3, <2>1, <2>2, <2>6, <3>1 DEF DepsReady
  <2> QED
    BY <2>5, <2>7
<1>10. CASE LeavesStarted \/ WaitForStarted \/ CloseStarted \/ ReturnFromCall \/ ReceiveCtxDone
  <2>1. NoNewStart /\ UNCHANGED <<start, readyDeps>>
    BY <1>1, <1>10, StepsAddNoStart, StartsStay
  <2> QED
    BY <1>5, <1>6, <2>1 DEF NoNewStart
<1>11. ASSUME NEW k \in LcNodes, ReceiveWaitResult(k) \/ ReceiveClosed(k)
       PROVE  /\ readyDeps'[n] + Cardinality(Below(agenda', n)) = Cardinality(ReadyDeps(n)')
              /\ dependsOn[n] # {} => readyDeps'[n] < Cardinality(dependsOn[n])
  <2>1. NoNewStart /\ UNCHANGED <<start, readyDeps>>
    BY <1>1, <1>11, StepsAddNoStart, StartsStay
  <2> QED
    BY <1>5, <1>6, <2>1 DEF NoNewStart
<1>12. ASSUME NEW k \in LcNodes, ReceiveStartResult(k)
       PROVE  /\ readyDeps'[n] + Cardinality(Below(agenda', n)) = Cardinality(ReadyDeps(n)')
              /\ dependsOn[n] # {} => readyDeps'[n] < Cardinality(dependsOn[n])
  <2>1. ~HandleNodeStartError(k, <<>>)
    BY <1>2, StartErrorShutsDown, <<>> \in Seq(Calls)
  <2>2. /\ agenda = <<>> /\ UNCHANGED <<readyDeps, startCall>> /\ HandleNodeStarted(k, "completed", <<>>)
        /\ startCall[k] = "ok" /\ start[k] = "active"
    BY <1>12, <2>1 DEF ReceiveStartResult, Receiving, calls, IInv, GoroutinesHavePhases
  <2>3. k # n /\ start[k] \notin Done /\ "completed" \in Done /\ <<>> \in Seq(Calls)
    BY <1>2, <2>2 DEF Done
  <2>4. /\ Cardinality(Below(agenda', n)) \in Nat /\ Cardinality(Below(<<>>, n)) \in Nat
        /\ Cardinality(Below(agenda', n)) - Cardinality(Below(<<>>, n))
             = Cardinality(ReadyDeps(n)') - Cardinality(ReadyDeps(n))
    BY <1>1, <1>2, <2>2, <2>3, StartedTells
  <2>5. /\ readyDeps'[n] = readyDeps[n] /\ readyDeps'[n] \in Nat
        /\ readyDeps'[n] + Cardinality(Below(<<>>, n)) = readyDeps[n] + Cardinality(Below(agenda, n))
    BY <1>4, <2>2
  <2>6. readyDeps'[n] + Cardinality(Below(agenda', n)) = Cardinality(ReadyDeps(n)')
    BY <1>7, <2>4, <2>5
  <2> QED
    BY <1>3, <2>5, <2>6
<1>13. ASSUME NEW k \in LcNodes, StartReturns(k) \/ WaitReturns(k) \/ CloseReturns(k) \/ StartTimesOut(k)
       PROVE  /\ readyDeps'[n] + Cardinality(Below(agenda', n)) = Cardinality(ReadyDeps(n)')
              /\ dependsOn[n] # {} => readyDeps'[n] < Cardinality(dependsOn[n])
  BY <1>6, <1>13 DEF StartReturns, WaitReturns, CloseReturns, StartTimesOut, session
<1>14. CASE CancelRunCtx \/ Finished \/ UNCHANGED vars
  BY <1>6, <1>14 DEF CancelRunCtx, Finished, session, vars, nodes
<1>15. ~CloseNext
  BY <1>2 DEF CloseNext
<1> QED
  BY <1>2, <1>8, <1>9, <1>10, <1>11, <1>12, <1>13, <1>14, <1>15 DEF Next, SessionStep

-----------------------------------------------------------------------------
(* The closes reach every node. V are the nodes that the shutdown has come to: *)
(* it is about to close them or, if not, they have something under way that    *)
(* makes them be closed later, or are done and have passed it on.              *)

ClosedBy(c) == IF c.op = "close" THEN c.nodes ELSE {}
Closing(s) == UNION {ClosedBy(c) : c \in Elements(s)}
ToClose == Closing(agenda)

Attended(n) == "active" \in {start[n], wait[n], close[n]} \/ Unwaited(n) \/ IsDone(n)
ClosedDeps(n, V) == {d \in dependsOn[n] \cap V : close[d] \in Done}
Reached(V) ==
    /\ Roots \cup ToClose \subseteq V
    /\ \A n \in V \ ToClose : Attended(n) /\ (IsDone(n) => dependsOn[n] \subseteq V)
    /\ \A n \in LcNodes : close[n] = "active" => n \in V
    /\ \A n \in LcNodes : closedDependencies[n] <= Cardinality(ClosedDeps(n, V))
Reaches == \E V \in SUBSET LcNodes : Reached(V)
ClosesReach ==
    IF Begun THEN pc # "returned" => Reaches
             ELSE \A n \in LcNodes : closedDependencies[n] = 0

LEMMA ClosingJoin ==
  ASSUME NEW s \in Seq(Calls)
  PROVE  /\ Closing(<<>>) = {} /\ Closing(<<>> \o s) = Closing(s)
         /\ \A a \in Calls : Closing(<<a>> \o s) = ClosedBy(a) \cup Closing(s)
         /\ \A a, b \in Calls : Closing(<<a, b>> \o s) = ClosedBy(a) \cup ClosedBy(b) \cup Closing(s)
         /\ \A a, b, c \in Calls :
               Closing(<<a, b, c>> \o s) = ClosedBy(a) \cup ClosedBy(b) \cup ClosedBy(c) \cup Closing(s)
BY ElementsOfJoin DEF Closing

LEMMA ToCloseNext ==
  ASSUME NEW s \in Seq(Calls)
  PROVE  /\ agenda' = s => ToClose' = Closing(s)
         /\ \A a \in Calls : agenda' = <<a>> \o s => ToClose' = ClosedBy(a) \cup Closing(s)
         /\ \A a, b \in Calls : agenda' = <<a, b>> \o s => ToClose' = ClosedBy(a) \cup ClosedBy(b) \cup Closing(s)
         /\ \A a, b, c \in Calls : agenda' = <<a, b, c>> \o s =>
               ToClose' = ClosedBy(a) \cup ClosedBy(b) \cup ClosedBy(c) \cup Closing(s)
<1>1. ToClose' = Closing(agenda')
  BY DEF ToClose
<1>2. ASSUME NEW a \in Calls, agenda' = <<a>> \o s
      PROVE  ToClose' = ClosedBy(a) \cup Closing(s)
  <2>1. Closing(<<a>> \o s) = ClosedBy(a) \cup Closing(s)
    BY ClosingJoin
  <2> QED
    BY <1>1, <1>2, <2>1
<1>3. ASSUME NEW a \in Calls, NEW b \in Calls, agenda' = <<a, b>> \o s
      PROVE  ToClose' = ClosedBy(a) \cup ClosedBy(b) \cup Closing(s)
  <2>1. Closing(<<a, b>> \o s) = ClosedBy(a) \cup ClosedBy(b) \cup Closing(s)
    BY ClosingJoin
  <2> QED
    BY <1>1, <1>3, <2>1
<1>4. ASSUME NEW a \in Calls, NEW b \in Calls, NEW c \in Calls, agenda' = <<a, b, c>> \o s
      PROVE  ToClose' = ClosedBy(a) \cup ClosedBy(b) \cup ClosedBy(c) \cup Closing(s)
  <2>1. Closing(<<a, b, c>> \o s) = ClosedBy(a) \cup ClosedBy(b) \cup ClosedBy(c) \cup Closing(s)
    BY ClosingJoin
  <2> QED
    BY <1>1, <1>4, <2>1
<1> QED
  BY <1>1, <1>2, <1>3, <1>4

LEMMA ClosingNothing == Closing(<<>>) = {}
BY ClosingJoin, <<>> \in Seq(Calls)

LEMMA ClosedByCalls ==
  ASSUME NEW ns
  PROVE  /\ ClosedBy(Close(ns)) = ns /\ ClosedBy(ReturnIsAllDone) = {}
         /\ ClosedBy(StartDependents(ns)) = {} /\ ClosedBy(StartLeaves(ns)) = {} /\ ClosedBy(ShutDown(ns)) = {}
         /\ ClosedBy(Wait(ns)) = {} /\ ClosedBy(CloseIfShuttingDown(ns)) = {}
BY DEF ClosedBy, Close, ReturnIsAllDone, StartDependents, StartLeaves, ShutDown, Wait, CloseIfShuttingDown, Call

LEMMA ClosingHead ==
  ASSUME TypeOK, agenda # <<>>
  PROVE  /\ ToClose = ClosedBy(Head(agenda)) \cup Closing(Tail(agenda))
         /\ Tail(agenda) \in Seq(Calls) /\ Head(agenda) \in Calls
<1>1. Head(agenda) \in Calls /\ Tail(agenda) \in Seq(Calls) /\ agenda = <<Head(agenda)>> \o Tail(agenda)
  BY AgendaParts
<1>2. Closing(<<Head(agenda)>> \o Tail(agenda)) = ClosedBy(Head(agenda)) \cup Closing(Tail(agenda))
  BY <1>1, ClosingJoin
<1> QED
  BY <1>1, <1>2 DEF ToClose

LEMMA ClosedDepsFinite ==
  ASSUME TypeOK, NEW n \in LcNodes, NEW V
  PROVE  /\ IsFiniteSet(ClosedDeps(n, V)) /\ Cardinality(ClosedDeps(n, V)) \in Nat
         /\ ClosedDeps(n, V) \subseteq dependsOn[n]
<1>1. IsFiniteSet(dependsOn[n]) /\ ClosedDeps(n, V) \subseteq dependsOn[n]
  BY ReadyFinite DEF ClosedDeps
<1> QED
  BY <1>1, FS_Subset, FS_CardinalityType

\* One node moves, and the nodes W are put on the agenda to be closed.
LEMMA ReachGoesOn ==
  ASSUME TypeOK, UNCHANGED graph, NEW V \in SUBSET LcNodes, Reached(V), NEW k, NEW W \in SUBSET LcNodes,
         \A m \in LcNodes \ {k} : UNCHANGED <<start[m], wait[m], close[m]>>,
         ToClose' \subseteq ToClose \cup W, W \subseteq ToClose', ToClose \ {k} \subseteq ToClose',
         k \in V /\ k \notin ToClose' => Attended(k)' /\ (IsDone(k)' => dependsOn[k] \subseteq V \cup W),
         k \in LcNodes /\ close'[k] = "active" => k \in V \/ close[k] = "active",
         \/ UNCHANGED closedDependencies /\ (close[k] \in Done => close'[k] \in Done)
         \/ /\ closedDependencies' = Increment(closedDependencies, Dependents(k))
            /\ k \in V /\ close[k] \notin Done /\ close'[k] \in Done
  PROVE  Reaches'
<1>1. /\ LcNodes' = LcNodes /\ Roots' = Roots
      /\ \A n \in LcNodes : dependsOn'[n] = dependsOn[n] /\ n \in Node /\ dependsOn[n] \subseteq LcNodes
  BY GraphFixed, GraphTyped DEF Roots
<1>2. PICK U \in SUBSET LcNodes : U = V \cup W
  OBVIOUS
<1>3. (Roots \cup ToClose)' \subseteq U
  BY <1>1, <1>2 DEF Reached
<1>4. ASSUME NEW n \in U, n \notin ToClose'
      PROVE  Attended(n)' /\ (IsDone(n)' => dependsOn'[n] \subseteq U)
  <2>1. n \in V /\ n \in LcNodes
    BY <1>2, <1>4
  <2>2. CASE n = k
    BY <1>1, <1>2, <1>4, <2>1, <2>2
  <2>3. CASE n # k
    <3>1. Attended(n) /\ (IsDone(n) => dependsOn[n] \subseteq V)
      BY <1>4, <2>1, <2>3 DEF Reached
    <3>2. start'[n] = start[n] /\ wait'[n] = wait[n] /\ close'[n] = close[n]
      BY <2>1, <2>3
    <3> QED
      BY <1>1, <1>2, <2>1, <3>1, <3>2 DEF Attended, Unwaited, IsDone
  <2> QED
    BY <2>2, <2>3
<1>5. ASSUME NEW n \in LcNodes, close'[n] = "active"
      PROVE  n \in U
  BY <1>2, <1>5 DEF Reached
<1>6. ASSUME NEW n \in LcNodes
      PROVE  closedDependencies'[n] <= Cardinality(ClosedDeps(n, U)')
  <2> DEFINE before == ClosedDeps(n, V)
             after == {d \in dependsOn[n] \cap U : close'[d] \in Done}
  <2>1. ClosedDeps(n, U)' = after
    BY <1>1 DEF ClosedDeps
  <2>2. IsFiniteSet(before) /\ Cardinality(before) \in Nat /\ closedDependencies[n] <= Cardinality(before)
    BY ClosedDepsFinite DEF Reached
  <2>3. IsFiniteSet(after) /\ Cardinality(after) \in Nat
    <3>1. IsFiniteSet(dependsOn[n]) /\ after \subseteq dependsOn[n]
      BY ReadyFinite
    <3> QED
      BY <3>1, FS_Subset, FS_CardinalityType
  <2>4. closedDependencies \in [Node -> Nat] /\ closedDependencies[n] \in Nat
    BY <1>1 DEF TypeOK
  <2>5. before \subseteq after
    BY <1>1, <1>2 DEF ClosedDeps
  <2>6. Cardinality(before) <= Cardinality(after)
    BY <2>3, <2>5, FS_Subset
  <2>7. CASE closedDependencies'[n] = closedDependencies[n]
    <3> HIDE DEF before, after
    <3> QED
      BY <2>1, <2>2, <2>3, <2>4, <2>6, <2>7
  <2>8. CASE closedDependencies'[n] # closedDependencies[n]
    <3>1. closedDependencies'[n] = closedDependencies[n] + 1 /\ k \in dependsOn[n] /\ k \in V
          /\ close[k] \notin Done /\ close'[k] \in Done
      BY <1>1, <2>4, <2>8 DEF Increment, Dependents
    <3>2. k \notin before /\ before \cup {k} \subseteq after
      BY <1>2, <2>5, <3>1 DEF ClosedDeps
    <3>3. Cardinality(before \cup {k}) = Cardinality(before) + 1 /\ Cardinality(before \cup {k}) <= Cardinality(after)
      BY <2>2, <2>3, <3>2, FS_AddElement, FS_Subset
    <3> HIDE DEF before, after
    <3> QED
      BY <2>1, <2>2, <2>3, <2>4, <3>1, <3>3
  <2> QED
    BY <2>7, <2>8
<1>7. Reached(U)'
  BY <1>1, <1>3, <1>4, <1>5, <1>6 DEF Reached
<1> QED
  BY <1>1, <1>7 DEF Reaches

\* No node moves.
LEMMA StillReached ==
  ASSUME TypeOK, UNCHANGED <<graph, start, wait, close, closedDependencies>>, Reaches, NEW W \in SUBSET LcNodes,
         ToClose' = ToClose \cup W
  PROVE  Reaches'
<1>1. PICK V \in SUBSET LcNodes : Reached(V)
  BY DEF Reaches
<1>2. ASSUME NEW k, k \in V, k \notin ToClose'
      PROVE  Attended(k)' /\ (IsDone(k)' => dependsOn[k] \subseteq V \cup W)
  BY <1>1, <1>2 DEF Reached, Attended, Unwaited, IsDone
<1>3. PICK k : k \notin V \/ k \in V
  OBVIOUS
<1> QED
  BY <1>1, <1>2, ReachGoesOn

\* handleNodeClosed passes the close on to the dependencies when the node has come to its end.
LEMMA ClosedReaches ==
  ASSUME TypeOK, UNCHANGED graph, NEW V \in SUBSET LcNodes, Reached(V), NEW k \in V, NEW phase \in Done,
         NEW rest \in Seq(Calls), ToClose \ {k} \subseteq Closing(rest), Closing(rest) \subseteq ToClose,
         HandleNodeClosed(k, phase, rest), close[k] \notin Done, start'[k] \in Done, wait'[k] \in Phase,
         \A m \in LcNodes \ {k} : UNCHANGED <<start[m], wait[m]>>
  PROVE  Reaches'
<1>1. k \in LcNodes /\ k \in Node /\ dependsOn[k] \in SUBSET LcNodes /\ close \in [Node -> Phase] /\ \A m \in LcNodes : m \in Node
  BY GraphTyped DEF TypeOK
<1>2. /\ close'[k] = phase /\ close'[k] # "active" /\ \A m \in LcNodes \ {k} : close'[m] = close[m]
      /\ closedDependencies' = Increment(closedDependencies, Dependents(k))
  BY <1>1 DEF HandleNodeClosed, Done
<1>3. Close(dependsOn[k]) \in Calls
  BY <1>1, CallsTyped DEF Errors
<1>4. CASE EndsNode(k)
  <2>1. ToClose' = dependsOn[k] \cup Closing(rest)
    <3>1. agenda' = <<Close(dependsOn[k])>> \o rest
      BY <1>4 DEF HandleNodeClosed
    <3>2. Closing(<<Close(dependsOn[k])>> \o rest) = ClosedBy(Close(dependsOn[k])) \cup Closing(rest)
      BY <1>3, ClosingJoin
    <3> QED
      BY <3>1, <3>2, ClosedByCalls DEF ToClose
  <2>2. Attended(k)'
    BY <1>2, <1>4 DEF Attended, IsDone, EndsNode
  <2>3. PICK W \in SUBSET LcNodes : W = dependsOn[k]
    BY <1>1
  <2> QED
    BY <1>1, <1>2, <2>1, <2>2, <2>3, ReachGoesOn
<1>5. CASE ~EndsNode(k)
  <2>1. ToClose' = Closing(rest)
    BY <1>5 DEF HandleNodeClosed, ToClose
  <2>2. Attended(k)' /\ ~IsDone(k)'
    BY <1>2, <1>5 DEF Attended, Unwaited, IsDone, EndsNode, Phase
  <2>3. PICK W \in SUBSET LcNodes : W = {}
    OBVIOUS
  <2>4. /\ ToClose' \subseteq ToClose \cup W /\ W \subseteq ToClose' /\ ToClose \ {k} \subseteq ToClose'
        /\ \A m \in LcNodes \ {k} : UNCHANGED <<start[m], wait[m], close[m]>>
    BY <1>2, <2>1, <2>3
  <2> QED
    BY <1>1, <1>2, <2>2, <2>4, ReachGoesOn
<1> QED
  BY <1>4, <1>5

\* A close of one node, at the head of the agenda.
LEMMA CloseReaches ==
  ASSUME Known, Begun, NEW V \in SUBSET LcNodes, Reached(V), CloseNext
  PROVE  Reaches'
<1> USE DEF Known
<1>1. PICK k \in Head(agenda).nodes :
         agenda # <<>> /\ Head(agenda).op = "close" /\ TryCloseNode(k, <<Close(Head(agenda).nodes \ {k})>> \o Tail(agenda))
  BY DEF CloseNext, CallIs
<1>2. /\ k \in LcNodes /\ k \in Node /\ Close(Head(agenda).nodes \ {k}) \in Calls /\ Tail(agenda) \in Seq(Calls)
      /\ dependsOn[k] \in SUBSET LcNodes /\ \A m \in LcNodes : m \in Node
  BY <1>1, AgendaParts, CallsTyped, GraphTyped DEF Errors
<1>3. PICK rest \in Seq(Calls) : rest = <<Close(Head(agenda).nodes \ {k})>> \o Tail(agenda)
  BY <1>2, AgendaTyped
<1>4. /\ ToClose = Head(agenda).nodes \cup Closing(Tail(agenda))
      /\ Closing(rest) = (Head(agenda).nodes \ {k}) \cup Closing(Tail(agenda))
  <2>1. ToClose = Head(agenda).nodes \cup Closing(Tail(agenda))
    BY <1>1, ClosingHead DEF ClosedBy
  <2>2. Closing(rest) = ClosedBy(Close(Head(agenda).nodes \ {k})) \cup Closing(Tail(agenda))
    BY <1>2, <1>3, ClosingJoin
  <2> QED
    BY <2>1, <2>2, ClosedByCalls
<1>5. /\ k \in V /\ ToClose \ {k} \subseteq Closing(rest) /\ Closing(rest) \subseteq ToClose
      /\ TryCloseNode(k, rest) /\ UNCHANGED graph
  BY <1>1, <1>3, <1>4 DEF Reached, TryCloseNode
<1>6. /\ start \in [Node -> Phase] /\ wait \in [Node -> Phase] /\ close \in [Node -> Phase]
      /\ start[k] \notin Done => wait[k] = "none" /\ close[k] = "none"
  BY <1>2 DEF TypeOK, IInv, StartFirst
<1>7. PICK W \in SUBSET LcNodes : W = {}
  OBVIOUS
<1>8. ASSUME agenda' = rest, UNCHANGED <<start, wait, closedDependencies>>, Attended(k)', ~IsDone(k)',
             close' = close \/ (close' = [close EXCEPT ![k] = "active"] /\ close[k] = "none")
      PROVE  Reaches'
  <2>1. ToClose' \subseteq ToClose \cup W /\ W \subseteq ToClose' /\ ToClose \ {k} \subseteq ToClose'
    BY <1>5, <1>7, <1>8 DEF ToClose
  <2>2. /\ \A m \in LcNodes \ {k} : UNCHANGED <<start[m], wait[m], close[m]>>
        /\ close[k] \in Done => close'[k] \in Done
    BY <1>2, <1>6, <1>8 DEF Done
  <2> QED
    BY <1>5, <1>8, <2>1, <2>2, ReachGoesOn, ZenonT(60)
<1>9. ASSUME NEW phase \in Done, HandleNodeClosed(k, phase, rest), close[k] = "none", start'[k] \in Done,
             wait'[k] \in Phase, \A m \in LcNodes \ {k} : UNCHANGED <<start[m], wait[m]>>
      PROVE  Reaches'
  <2>1. close[k] \notin Done
    BY <1>9 DEF Done
  <2> QED
    BY <1>5, <1>9, <2>1, ClosedReaches
<1>10. ASSUME CloseHook(k, rest), close[k] = "none", start'[k] \in Done,
              wait'[k] \in Phase, \A m \in LcNodes \ {k} : UNCHANGED <<start[m], wait[m]>>
       PROVE  Reaches'
  <2>1. {"skipped", "completed"} \subseteq Done
    BY DEF Done
  <2>2. CASE HandleNodeClosed(k, "skipped", rest) \/ HandleNodeClosed(k, "completed", rest)
    BY <1>9, <1>10, <2>1, <2>2
  <2>3. CASE close' = [close EXCEPT ![k] = "active"] /\ agenda' = rest /\ UNCHANGED closedDependencies
    <3>1. ToClose' \subseteq ToClose \cup W /\ W \subseteq ToClose' /\ ToClose \ {k} \subseteq ToClose'
      BY <1>5, <1>7, <2>3 DEF ToClose
    <3>2. /\ close'[k] = "active" /\ close[k] \notin Done
          /\ \A m \in LcNodes \ {k} : UNCHANGED <<start[m], wait[m], close[m]>>
      BY <1>2, <1>6, <1>10, <2>3 DEF Done
    <3>3. Attended(k)' /\ ~IsDone(k)'
      BY <3>2 DEF Attended, IsDone, Done
    <3> QED
      BY <1>5, <2>3, <3>1, <3>2, <3>3, ReachGoesOn
  <2> QED
    BY <1>10, <2>2, <2>3 DEF CloseHook, doneCounters
<1>11. CASE /\ UnderWay(k) \/ (close[k] = "none" /\ start[k] # "none" /\ NeededByDependents(k))
            /\ agenda' = rest /\ UNCHANGED <<start, wait, close, doneCounters>>
  <2>1. Attended(k)' /\ ~IsDone(k)'
    BY <1>6, <1>11 DEF UnderWay, NeededByDependents, Attended, IsDone, Done
  <2> QED
    BY <1>8, <1>11, <2>1 DEF doneCounters
<1>12. CASE /\ ~UnderWay(k) /\ close[k] \in Done
            /\ agenda' = <<Close(IF closedDependencies[k] < Cardinality(dependsOn[k]) THEN dependsOn[k] ELSE {})>> \o rest
            /\ UNCHANGED <<start, wait, close, doneCounters>>
  <2>1. PICK more \in SUBSET LcNodes :
           more = IF closedDependencies[k] < Cardinality(dependsOn[k]) THEN dependsOn[k] ELSE {}
    BY <1>2
  <2>2. ToClose' = more \cup Closing(rest)
    <3>1. Close(more) \in Calls /\ agenda' = <<Close(more)>> \o rest
      BY <1>12, <2>1, CallsTyped DEF Errors
    <3> QED
      BY <3>1, ClosingJoin, ClosedByCalls DEF ToClose
  <2>3. Attended(k)'
    BY <1>2, <1>6, <1>12 DEF Attended, Unwaited, IsDone, Phase, Done
  <2>4. dependsOn[k] \subseteq V \cup more
    <3>1. CASE closedDependencies[k] < Cardinality(dependsOn[k])
      BY <2>1, <3>1
    <3>2. CASE ~(closedDependencies[k] < Cardinality(dependsOn[k]))
      <4>1. /\ closedDependencies[k] \in Nat /\ Cardinality(dependsOn[k]) \in Nat /\ IsFiniteSet(dependsOn[k])
            /\ IsFiniteSet(ClosedDeps(k, V)) /\ Cardinality(ClosedDeps(k, V)) \in Nat /\ ClosedDeps(k, V) \subseteq dependsOn[k]
        BY <1>2, ReadyFinite, ClosedDepsFinite DEF TypeOK
      <4>2. closedDependencies[k] <= Cardinality(ClosedDeps(k, V))
        BY <1>2 DEF Reached
      <4>3. Cardinality(ClosedDeps(k, V)) >= Cardinality(dependsOn[k])
        BY <3>2, <4>1, <4>2
      <4>4. ClosedDeps(k, V) = dependsOn[k]
        BY <4>1, <4>3, FS_Subset
      <4> QED
        BY <4>4 DEF ClosedDeps
    <3> QED
      BY <3>1, <3>2
  <2>5. /\ ToClose' \subseteq ToClose \cup more /\ more \subseteq ToClose' /\ ToClose \ {k} \subseteq ToClose'
        /\ \A m \in LcNodes \ {k} : UNCHANGED <<start[m], wait[m], close[m]>>
        /\ close[k] \in Done => close'[k] \in Done
        /\ close'[k] = "active" => close[k] = "active"
    BY <1>5, <1>12, <2>2
  <2> QED
    BY <1>5, <1>12, <2>3, <2>4, <2>5, ReachGoesOn DEF doneCounters
<1>13. CASE /\ close[k] = "none" /\ start[k] = "none"
            /\ start' = [start EXCEPT ![k] = "skipped"] /\ wait' = [wait EXCEPT ![k] = "skipped"]
            /\ HandleNodeClosed(k, "skipped", rest) \/ CloseHook(k, rest)
  <2>1. /\ start'[k] \in Done /\ wait'[k] \in Done /\ wait'[k] \in Phase /\ "skipped" \in Done
        /\ \A m \in LcNodes \ {k} : UNCHANGED <<start[m], wait[m]>>
    BY <1>2, <1>6, <1>13 DEF Done, Phase
  <2> QED
    BY <1>9, <1>10, <1>13, <2>1
<1>14. CASE /\ ~UnderWay(k) /\ close[k] = "none" /\ start[k] # "none" /\ UNCHANGED <<start, wait>> /\ CloseHook(k, rest)
  <2>1. start'[k] \in Done /\ wait'[k] \in Phase
    BY <1>2, <1>6, <1>14 DEF UnderWay, Phase
  <2> QED
    BY <1>10, <1>14, <2>1
<1> QED
  BY <1>5, <1>11, <1>12, <1>13, <1>14 DEF TryCloseNode

LEMMA ReceiveReaches ==
  ASSUME Known, Begun, NEW V \in SUBSET LcNodes, Reached(V), NEW k \in LcNodes,
         ReceiveStartResult(k) \/ ReceiveWaitResult(k) \/ ReceiveClosed(k)
  PROVE  Reaches'
<1> USE DEF Known
<1>1. /\ agenda = <<>> /\ <<>> \in Seq(Calls) /\ ToClose = {} /\ k \in Node /\ dependsOn[k] \in SUBSET LcNodes
      /\ \A m \in LcNodes : m \in Node
  BY ClosingJoin, GraphTyped, <<>> \in Seq(Calls) DEF ReceiveStartResult, ReceiveWaitResult, ReceiveClosed, Receiving, ToClose
<1>2. /\ start \in [Node -> Phase] /\ wait \in [Node -> Phase] /\ close \in [Node -> Phase]
      /\ start[k] \notin Done => wait[k] = "none" /\ close[k] = "none"
  BY <1>1 DEF TypeOK, IInv, StartFirst
<1>3. PICK nothing \in SUBSET LcNodes : nothing = {}
  OBVIOUS
<1>4. CASE ReceiveStartResult(k) /\ HandleNodeStarted(k, "completed", <<>>)
  <2>1. start[k] = "active" /\ wait[k] = "none" /\ close[k] = "none"
    BY <1>2, <1>4 DEF ReceiveStartResult, IInv, GoroutinesHavePhases, Done
  <2>2. ToClose' = {}
    <3>1. NextToStart(k) \in SUBSET LcNodes
      BY GraphTyped DEF NextToStart
    <3>2. StartDependents(NextToStart(k)) \in Calls /\ Wait(k) \in Calls /\ CloseIfShuttingDown(k) \in Calls
      BY <3>1, CallsTyped DEF Errors
    <3>3. agenda' = <<StartDependents(NextToStart(k)), Wait(k), CloseIfShuttingDown(k)>> \o <<>>
      BY <1>4 DEF HandleNodeStarted
    <3> QED
      <4>1. ToClose' = ClosedBy(StartDependents(NextToStart(k))) \cup ClosedBy(Wait(k))
                         \cup ClosedBy(CloseIfShuttingDown(k)) \cup Closing(<<>>)
        BY <1>1, <3>2, <3>3, ToCloseNext
      <4> QED
        BY <4>1, ClosingNothing, ClosedByCalls
  <2>3. Attended(k)' /\ ~IsDone(k)'
    BY <1>1, <1>2, <1>4, <2>1 DEF HandleNodeStarted, Attended, Unwaited, IsDone, Done
  <2>4. /\ UNCHANGED <<graph, close, closedDependencies>>
        /\ \A m \in LcNodes \ {k} : UNCHANGED <<start[m], wait[m], close[m]>>
    BY <1>1, <1>2, <1>4 DEF HandleNodeStarted, doneCounters
  <2> QED
    BY <1>1, <1>3, <2>1, <2>2, <2>3, <2>4, ReachGoesOn
<1>5. CASE ReceiveStartResult(k) /\ HandleNodeStartError(k, <<>>)
  <2>1. ToClose' = dependsOn[k]
    <3>1. ShutDown("hook") \in Calls /\ Close(dependsOn[k]) \in Calls
      BY <1>1, CallsTyped DEF Errors
    <3>2. agenda' = <<ShutDown("hook"), Close(dependsOn[k])>> \o <<>>
      BY <1>5 DEF HandleNodeStartError
    <3>3. ToClose' = ClosedBy(ShutDown("hook")) \cup ClosedBy(Close(dependsOn[k])) \cup Closing(<<>>)
      BY <1>1, <3>1, <3>2, ToCloseNext
    <3> QED
      BY <3>3, ClosingNothing, ClosedByCalls
  <2>2. Attended(k)'
    BY <1>1, <1>2, <1>5 DEF HandleNodeStartError, Attended, IsDone, Done
  <2>3. /\ UNCHANGED <<graph, closedDependencies>> /\ close'[k] \in Done /\ close'[k] # "active"
        /\ \A m \in LcNodes \ {k} : UNCHANGED <<start[m], wait[m], close[m]>>
    BY <1>1, <1>2, <1>5 DEF HandleNodeStartError, Done
  <2>4. PICK W \in SUBSET LcNodes : W = dependsOn[k]
    BY <1>1
  <2> QED
    BY <1>1, <2>1, <2>2, <2>3, <2>4, ReachGoesOn
<1>6. CASE ReceiveWaitResult(k)
  <2>1. wait[k] = "active" /\ ShuttingDown
    BY <1>6 DEF ReceiveWaitResult, IInv, GoroutinesHavePhases, SInv, OnlyClosesRemain, AllWaited, Done
  <2>2. ToClose' = {k}
    <3>1. Close({k}) \in Calls /\ agenda' = <<Close({k})>> \o <<>>
      BY <1>6, <2>1, CallsTyped DEF ReceiveWaitResult, HandleNodeWaited, Errors
    <3>2. ToClose' = ClosedBy(Close({k})) \cup Closing(<<>>)
      BY <1>1, <3>1, ToCloseNext
    <3> QED
      BY <3>2, ClosingNothing, ClosedByCalls
  <2>3. close' = close \/ (close' = [close EXCEPT ![k] = "skipped"] /\ close[k] = "none")
    BY <1>6 DEF ReceiveWaitResult, HandleNodeWaited, EndsClose
  <2>4. /\ UNCHANGED <<graph, closedDependencies>> /\ (close[k] \in Done => close'[k] \in Done)
        /\ close'[k] = "active" => close[k] = "active"
        /\ \A m \in LcNodes \ {k} : UNCHANGED <<start[m], wait[m], close[m]>>
    BY <1>1, <1>2, <1>6, <2>3 DEF ReceiveWaitResult, HandleNodeWaited, Done
  <2>5. PICK W \in SUBSET LcNodes : W = {k}
    OBVIOUS
  <2> QED
    BY <1>1, <2>2, <2>4, <2>5, ReachGoesOn
<1>7. CASE ReceiveClosed(k)
  <2>1. /\ close[k] = "active" /\ start'[k] \in Done /\ wait'[k] \in Phase /\ UNCHANGED <<graph, start, wait>>
        /\ HandleNodeClosed(k, "completed", <<>>)
    BY <1>1, <1>2, <1>7 DEF ReceiveClosed, IInv, GoroutinesHavePhases
  <2>2. k \in V /\ close[k] \notin Done /\ "completed" \in Done
    BY <2>1 DEF Reached, Done
  <2>3. Closing(<<>>) = {}
    BY <1>1, ClosingJoin
  <2> QED
    BY <1>1, <2>1, <2>2, <2>3, ClosedReaches
<1> QED
  BY <1>4, <1>5, <1>6, <1>7 DEF ReceiveStartResult

\* Before the shutdown nothing is closed: the counts of closes stay zero.
LEMMA NothingClosedYet ==
  ASSUME Known, ~Begun, [Next]_vars
  PROVE  UNCHANGED closedDependencies
<1> USE DEF Known
<1>1. ~CloseNext
  <2>1. ASSUME CloseNext PROVE CallIs("close") /\ Head(agenda).nodes # {}
    BY <2>1 DEF CloseNext
  <2> QED
    BY <2>1, ClosesAfter
<1>2. ASSUME NEW k \in LcNodes PROVE ~ReceiveClosed(k)
  BY DEF ReceiveClosed, IInv, GoroutinesHavePhases, SInv, NothingEndsEarly, IsDone, Done
<1>3. ASSUME NEW k, NEW rest, TryStartNode(k, rest) PROVE UNCHANGED closedDependencies
  BY <1>3 DEF TryStartNode, HandleNodeStarted, HandleNodeStartError, doneCounters
<1>4. ASSUME NEW k, NEW rest, TryWaitForNode(k, rest) PROVE UNCHANGED closedDependencies
  BY <1>4 DEF TryWaitForNode, HandleNodeWaited, nodes, doneCounters
<1>5. CASE StartNextLeaf \/ StartNextDependent
  BY <1>3, <1>5 DEF StartNextLeaf, StartNextDependent
<1>6. CASE WaitForStarted
  BY <1>4, <1>6 DEF WaitForStarted
<1>7. ASSUME NEW k \in LcNodes, ReceiveStartResult(k) \/ ReceiveWaitResult(k)
      PROVE  UNCHANGED closedDependencies
  BY <1>7 DEF ReceiveStartResult, ReceiveWaitResult, HandleNodeStarted, HandleNodeStartError, HandleNodeWaited, doneCounters
<1>8. CASE RunBegins \/ LeavesStarted \/ CloseStarted \/ TryShutDown \/ ReturnFromCall \/ ReceiveCtxDone
  BY <1>8 DEF RunBegins, LeavesStarted, CloseStarted, TryShutDown, ReturnFromCall, ReceiveCtxDone, nodes, doneCounters
<1>9. ASSUME NEW k \in LcNodes, StartReturns(k) \/ WaitReturns(k) \/ CloseReturns(k) \/ StartTimesOut(k)
      PROVE  UNCHANGED closedDependencies
  BY <1>9 DEF StartReturns, WaitReturns, CloseReturns, StartTimesOut, session, doneCounters
<1>10. CASE CancelRunCtx \/ Finished \/ UNCHANGED vars
  BY <1>10 DEF CancelRunCtx, Finished, session, vars, nodes, doneCounters
<1> QED
  BY <1>1, <1>2, <1>5, <1>6, <1>7, <1>8, <1>9, <1>10 DEF Next, SessionStep

\* The shutdown begins at the roots.
LEMMA ShutdownReaches ==
  ASSUME Known, ~Begun, TryShutDown, \A n \in LcNodes : closedDependencies[n] = 0, UNCHANGED closedDependencies
  PROVE  Reaches'
<1> USE DEF Known
<1>1. /\ LcNodes' = LcNodes /\ Roots' = Roots /\ Roots \in SUBSET LcNodes /\ ~ShuttingDown /\ agenda # <<>>
      /\ close' = close /\ UNCHANGED graph
  BY GraphFixed DEF Roots, TryShutDown, SInv, CallIs
<1>2. Tail(agenda) \in Seq(Calls) /\ agenda \in Seq(Calls) /\ Close(Roots) \in Calls /\ agenda' = <<Close(Roots)>> \o Tail(agenda)
  BY <1>1, AgendaParts, CallsTyped DEF TryShutDown, Errors, TypeOK
<1>3. ToClose' = Roots \cup Closing(Tail(agenda))
  <2>1. ToClose' = ClosedBy(Close(Roots)) \cup Closing(Tail(agenda))
    BY <1>2, ToCloseNext
  <2> QED
    BY <2>1, ClosedByCalls
<1>4. Closing(Tail(agenda)) \subseteq LcNodes
  <2>1. \A c \in Elements(Tail(agenda)) : c \in Calls
    BY <1>2 DEF Elements
  <2> QED
    BY <2>1 DEF Closing, ClosedBy, Calls
<1>5. PICK V \in SUBSET LcNodes : V = Roots \cup Closing(Tail(agenda))
  BY <1>1, <1>4
<1>6. \A n \in LcNodes : close'[n] # "active"
  BY <1>1 DEF SInv, NothingEndsEarly, IsDone, Done
<1>7. ASSUME NEW n \in LcNodes
      PROVE  closedDependencies'[n] <= Cardinality(ClosedDeps(n, V)')
  <2>1. closedDependencies'[n] = 0
    OBVIOUS
  <2>2. ClosedDeps(n, V)' \subseteq dependsOn[n] /\ IsFiniteSet(dependsOn[n])
    BY <1>1, GraphFixed, ReadyFinite DEF ClosedDeps
  <2>3. Cardinality(ClosedDeps(n, V)') \in Nat
    BY <2>2, FS_Subset, FS_CardinalityType
  <2> QED
    BY <2>1, <2>3
<1>8. Reached(V)'
  BY <1>1, <1>3, <1>5, <1>6, <1>7 DEF Reached
<1> QED
  BY <1>1, <1>8 DEF Reaches

\* The steps that neither move a node nor take one off the agenda unclosed.
LEMMA QuietReaches ==
  ASSUME Known, Begun, Reaches,
         LeavesStarted \/ CloseStarted \/ TryShutDown \/ (ReturnFromCall /\ pc' # "returned") \/ ReceiveCtxDone
  PROVE  Reaches'
<1> USE DEF Known
<1>1. UNCHANGED <<graph, start, wait, close, closedDependencies>>
  BY DEF LeavesStarted, CloseStarted, TryShutDown, ReturnFromCall, ReceiveCtxDone, nodes, doneCounters
<1>2. /\ agenda # <<>> => /\ ToClose = ClosedBy(Head(agenda)) \cup Closing(Tail(agenda))
                          /\ Tail(agenda) \in Seq(Calls) /\ Head(agenda).nodes \in SUBSET LcNodes
      /\ agenda = <<>> => ToClose = {}
      /\ <<>> \in Seq(Calls) /\ {} \in SUBSET LcNodes /\ Roots \in SUBSET LcNodes
  BY ClosingHead, AgendaParts, ClosingNothing, <<>> \in Seq(Calls) DEF ToClose, Roots
<1>3. CASE LeavesStarted \/ (ReturnFromCall /\ pc' # "returned")
  <2>1. agenda # <<>> /\ agenda' = Tail(agenda) /\ ClosedBy(Head(agenda)) = {}
    BY <1>3 DEF LeavesStarted, ReturnFromCall, CallIs, ClosedBy
  <2>2. ToClose' = ToClose \cup {}
    BY <1>2, <2>1, ToCloseNext
  <2> QED
    BY <1>1, <1>2, <2>2, StillReached
<1>4. CASE CloseStarted \/ TryShutDown
  <2>1. PICK W \in SUBSET LcNodes : agenda' = <<Close(W)>> \o Tail(agenda)
    BY <1>2, <1>4 DEF CloseStarted, TryShutDown, ToCloseAfterStart, ReturnIsAllDone, CallIs
  <2>2. agenda # <<>> /\ ClosedBy(Head(agenda)) = {} /\ Close(W) \in Calls
    BY <1>4, CallsTyped DEF CloseStarted, TryShutDown, CallIs, ClosedBy, Errors
  <2>3. ToClose' = ClosedBy(Close(W)) \cup Closing(Tail(agenda))
    BY <1>2, <2>1, <2>2, ToCloseNext
  <2>4. ToClose' = ToClose \cup W
    BY <1>2, <2>2, <2>3, ClosedByCalls
  <2> QED
    BY <1>1, <2>4, StillReached
<1>5. CASE ReceiveCtxDone
  <2>1. agenda = <<>> /\ agenda' = <<ShutDown("ctx")>> \o <<>> /\ ShutDown("ctx") \in Calls
    BY <1>2, <1>5, CallsTyped DEF ReceiveCtxDone, Receiving, Errors
  <2>2. ToClose' = ClosedBy(ShutDown("ctx")) \cup Closing(<<>>)
    BY <1>2, <2>1, ToCloseNext
  <2>3. ToClose' = ToClose \cup {}
    BY <1>2, <2>1, <2>2, ClosedByCalls, ClosingNothing
  <2> QED
    BY <1>1, <1>2, <2>3, StillReached
<1> QED
  BY <1>3, <1>4, <1>5

\* In a shutdown the loops over leaves and dependents find their nodes started.
LEMMA StartLoopReaches ==
  ASSUME Known, Begun, Reaches, StartNextLeaf \/ StartNextDependent
  PROVE  Reaches'
<1> USE DEF Known
<1>1. PICK k \in Head(agenda).nodes, call \in LoopsToStart :
         agenda # <<>> /\ Head(agenda) \in LoopsToStart /\ TryStartNode(k, <<call>> \o Tail(agenda)) /\ k \in LcNodes
  BY LoopStarts
<1>2. start[k] # "none"
  BY <1>1, StartsBefore DEF Stopping
<1>3. /\ agenda' = (IF start[k] \in Done THEN <<ReturnIsAllDone>> ELSE <<>>) \o (<<call>> \o Tail(agenda))
      /\ UNCHANGED <<graph, start, wait, close, closedDependencies>>
  BY <1>1, <1>2 DEF TryStartNode, doneCounters
<1>4. /\ ToClose = ClosedBy(Head(agenda)) \cup Closing(Tail(agenda)) /\ Tail(agenda) \in Seq(Calls)
      /\ ClosedBy(Head(agenda)) = {} /\ ClosedBy(call) = {} /\ call \in Calls
  BY <1>1, ClosingHead DEF LoopsToStart, ClosedBy
<1>5. PICK rest \in Seq(Calls) : rest = <<call>> \o Tail(agenda)
  BY <1>4, AgendaTyped
<1>6. Closing(rest) = ToClose
  <2>1. Closing(<<call>> \o Tail(agenda)) = ClosedBy(call) \cup Closing(Tail(agenda))
    BY <1>4, ClosingJoin
  <2> QED
    BY <1>4, <1>5, <2>1
<1>7. {} \in SUBSET LcNodes /\ ReturnIsAllDone \in Calls /\ <<>> \o rest = rest
  BY CallsTyped DEF Errors
<1>8. agenda' = <<ReturnIsAllDone>> \o rest \/ agenda' = rest
  BY <1>3, <1>5, <1>7
<1>9. ToClose' = ToClose \cup {}
  <2>1. CASE agenda' = <<ReturnIsAllDone>> \o rest
    <3>1. ToClose' = ClosedBy(ReturnIsAllDone) \cup Closing(rest)
      BY <1>7, <2>1, ToCloseNext
    <3> QED
      BY <1>6, <3>1, ClosedByCalls
  <2>2. CASE agenda' = rest
    BY <1>6, <2>2, ToCloseNext
  <2> QED
    BY <1>8, <2>1, <2>2
<1> QED
  BY <1>3, <1>7, <1>9, StillReached

LEMMA WaitReaches ==
  ASSUME Known, Begun, NEW V \in SUBSET LcNodes, Reached(V), WaitForStarted
  PROVE  Reaches'
<1> USE DEF Known
<1>1. PICK k \in Head(agenda).nodes : agenda # <<>> /\ Head(agenda).op = "wait" /\ TryWaitForNode(k, Tail(agenda))
  BY DEF WaitForStarted, CallIs
<1>2. /\ ToClose = Closing(Tail(agenda)) /\ Tail(agenda) \in Seq(Calls) /\ k \in LcNodes /\ k \in Node
      /\ \A m \in LcNodes : m \in Node
  BY <1>1, ClosingHead, AgendaParts, GraphTyped DEF ClosedBy
<1>3. PICK rest \in Seq(Calls) : rest = Tail(agenda)
  BY <1>2
<1>4. {} \in SUBSET LcNodes /\ ReturnIsAllDone \in Calls /\ <<>> \o rest = rest /\ Reaches /\ wait \in [Node -> Phase]
  <2>1. <<>> \o rest = rest /\ {} \in SUBSET LcNodes /\ "nil" \in Errors
    BY DEF Errors
  <2>2. Reaches /\ wait \in [Node -> Phase]
    BY DEF Reaches, TypeOK
  <2> QED
    BY <2>1, <2>2, CallsTyped
<1>5. CASE agenda' = (IF wait[k] \in Done THEN <<ReturnIsAllDone>> ELSE <<>>) \o rest /\ UNCHANGED <<graph, nodes>>
  <2>1. agenda' = <<ReturnIsAllDone>> \o rest \/ agenda' = rest
    BY <1>4, <1>5
  <2>2. ToClose' = ToClose \cup {}
    <3>1. CASE agenda' = <<ReturnIsAllDone>> \o rest
      <4>1. ToClose' = ClosedBy(ReturnIsAllDone) \cup Closing(rest)
        BY <1>4, <3>1, ToCloseNext
      <4> QED
        BY <1>2, <1>3, <4>1, ClosedByCalls
    <3>2. CASE agenda' = rest
      BY <1>2, <1>3, <3>2, ToCloseNext
    <3> QED
      BY <2>1, <3>1, <3>2
  <2> QED
    BY <1>4, <1>5, <2>2, StillReached DEF nodes, doneCounters
<1>6. CASE wait[k] = "none" /\ HandleNodeWaited(k, FALSE, "skipped", rest)
  <2>1. ShuttingDown
    BY <1>2, <1>6 DEF SInv, OnlyClosesRemain, AllWaited, Done
  <2>2. Close({k}) \in Calls /\ agenda' = <<Close({k})>> \o rest
    BY <1>2, <1>6, <2>1, CallsTyped DEF HandleNodeWaited, Errors
  <2>3. ToClose' = ClosedBy(Close({k})) \cup Closing(rest)
    BY <2>2, ToCloseNext
  <2>4. ToClose' = {k} \cup ToClose
    BY <1>2, <1>3, <2>3, ClosedByCalls
  <2>5. /\ UNCHANGED <<graph, close, closedDependencies>>
        /\ \A m \in LcNodes \ {k} : UNCHANGED <<start[m], wait[m], close[m]>>
    BY <1>2, <1>4, <1>6 DEF HandleNodeWaited, EndsClose
  <2>6. PICK W \in SUBSET LcNodes : W = {k}
    BY <1>2
  <2> QED
    BY <1>2, <2>4, <2>5, <2>6, ReachGoesOn
<1>7. CASE wait' = [wait EXCEPT ![k] = "active"] /\ agenda' = rest /\ UNCHANGED <<graph, start, close, doneCounters>>
  <2>1. ToClose' = ToClose
    BY <1>2, <1>3, <1>7 DEF ToClose
  <2>2. Attended(k)' /\ ~IsDone(k)'
    BY <1>2, <1>4, <1>7 DEF Attended, IsDone, Done
  <2>3. \A m \in LcNodes \ {k} : UNCHANGED <<start[m], wait[m], close[m]>>
    BY <1>2, <1>4, <1>7
  <2>4. PICK W \in SUBSET LcNodes : W = {}
    OBVIOUS
  <2>5. /\ ToClose' \subseteq ToClose \cup W /\ W \subseteq ToClose' /\ ToClose \ {k} \subseteq ToClose'
        /\ UNCHANGED <<graph, close, closedDependencies>>
    BY <1>7, <2>1, <2>4 DEF doneCounters
  <2> QED
    BY <2>2, <2>3, <2>5, ReachGoesOn
<1> QED
  BY <1>1, <1>3, <1>5, <1>6, <1>7 DEF TryWaitForNode

LEMMA NextClosesReach ==
  ASSUME Known, ClosesReach, [Next]_vars
  PROVE  ClosesReach'
<1> USE DEF Known
<1>1. UNCHANGED graph /\ LcNodes' = LcNodes
  BY NextMoves, GraphFixed DEF NodeStep
<1>2. /\ UNCHANGED onShutdownCalls \/ TryShutDown
      /\ Begun => Begun'
  BY ShutdownBegins DEF SInv
<1>3. CASE ~Begun
  <2>1. UNCHANGED closedDependencies /\ \A n \in LcNodes : closedDependencies[n] = 0
    BY <1>3, NothingClosedYet DEF ClosesReach
  <2>2. CASE TryShutDown
    BY <1>1, <1>3, <2>1, <2>2, ShutdownReaches DEF ClosesReach
  <2>3. CASE UNCHANGED onShutdownCalls
    BY <1>1, <1>3, <2>1, <2>3 DEF ClosesReach, Begun
  <2> QED
    BY <1>2, <2>2, <2>3
<1>4. CASE Begun /\ pc' # "returned"
  <2>1. pc # "returned"
    BY <1>4, NextSignals DEF GivesNoSignal, GivesSignal
  <2>2. Reaches
    BY <1>4, <2>1 DEF ClosesReach
  <2>3. PICK V \in SUBSET LcNodes : Reached(V)
    BY <2>2 DEF Reaches
  <2>4. ~RunBegins
    BY <1>4 DEF RunBegins, SInv
  <2>5. ASSUME UNCHANGED <<graph, agenda, start, wait, close, closedDependencies>>
        PROVE  Reaches'
    <3>1. ToClose' = ToClose \cup {} /\ {} \in SUBSET LcNodes
      BY <2>5 DEF ToClose
    <3> QED
      BY <2>2, <2>5, <3>1, StillReached
  <2>6. ASSUME NEW k \in LcNodes, StartReturns(k) \/ WaitReturns(k) \/ CloseReturns(k) \/ StartTimesOut(k)
        PROVE  Reaches'
    <3>1. UNCHANGED <<graph, agenda, start, wait, close, closedDependencies>>
      BY <2>6 DEF StartReturns, WaitReturns, CloseReturns, StartTimesOut, session, doneCounters
    <3> QED
      BY <2>5, <3>1
  <2>7. ASSUME CancelRunCtx \/ Finished \/ UNCHANGED vars
        PROVE  Reaches'
    <3>1. UNCHANGED <<graph, agenda, start, wait, close, closedDependencies>>
      BY <2>7 DEF CancelRunCtx, Finished, session, vars, nodes, doneCounters
    <3> QED
      BY <2>5, <3>1
  <2>8. Reaches'
    BY <1>4, <2>2, <2>3, <2>4, <2>6, <2>7, QuietReaches, StartLoopReaches, WaitReaches, CloseReaches, ReceiveReaches
       DEF Next, SessionStep
  <2> QED
    BY <1>2, <1>4, <2>8 DEF ClosesReach
<1>5. CASE Begun /\ pc' = "returned"
  BY <1>2, <1>5 DEF ClosesReach
<1> QED
  BY <1>3, <1>4, <1>5

-----------------------------------------------------------------------------
(* The graph has no cycle: what is refused to the hooks of the components      *)
(* otherwise (lcNodesGraph.go). Every set of nodes has one without dependencies *)
(* in it and one without dependents in it.                                     *)

Acyclic(g) == \A S \in SUBSET DOMAIN g.dependsOn : S # {} => \E n \in S : g.dependsOn[n] \cap S = {}
AcyclicGraph == \A S \in SUBSET LcNodes : S # {} => \E n \in S : dependsOn[n] \cap S = {}

LEMMA Least ==
  ASSUME NEW S \in SUBSET Nat, S # {}
  PROVE  \E x \in S : \A y \in S : x <= y
<1> DEFINE R == OpToRel(<, Nat)
<1>1. \A x, y \in Nat : <<y, x>> \in R <=> y < x
  BY DEF OpToRel
<1>2. PICK x \in S : \A y \in S : ~(<<y, x>> \in R)
  <2> HIDE DEF R
  <2>1. IsWellFoundedOn(R, Nat)
    BY NatLessThanWellFounded DEF R
  <2> QED
    BY <2>1, WFMin
<1> HIDE DEF R
<1>3. ASSUME NEW y \in S PROVE x <= y
  <2>1. ~(y < x)
    BY <1>1, <1>2, Zenon
  <2> QED
    BY <2>1
<1> QED
  BY <1>3

LEMMA HasARoot ==
  ASSUME TypeOK, AcyclicGraph, NEW S \in SUBSET LcNodes, S # {}
  PROVE  \E n \in S : Dependents(n) \cap S = {}
<1> DEFINE Rootless == {T \in SUBSET LcNodes : T # {} /\ \A n \in T : Dependents(n) \cap T # {}}
           Sizes == {Cardinality(T) : T \in Rootless}
<1> SUFFICES ASSUME Rootless # {} PROVE FALSE
  OBVIOUS
<1>1. \A T \in SUBSET LcNodes : IsFiniteSet(T) /\ Cardinality(T) \in Nat
  BY GraphsAssumption, FS_Subset, FS_CardinalityType DEF TypeOK
<1>2. PICK T \in Rootless : \A U \in Rootless : Cardinality(T) <= Cardinality(U)
  <2>1. Sizes \in SUBSET Nat /\ Sizes # {}
    BY <1>1
  <2>2. PICK x \in Sizes : \A y \in Sizes : x <= y
    BY <2>1, Least
  <2> QED
    BY <2>2
<1>3. PICK n \in T : dependsOn[n] \cap T = {}
  BY <1>2 DEF AcyclicGraph
<1>4. Cardinality(T \ {n}) = Cardinality(T) - 1
  BY <1>1, <1>2, FS_RemoveElement
<1>5. T \ {n} \in SUBSET LcNodes
  BY <1>2
<1>6. T \ {n} \notin Rootless
  <2> HIDE DEF Rootless
  <2>1. Cardinality(T) \in Nat
    BY <1>1, <1>2 DEF Rootless
  <2>2. T \ {n} \in Rootless => Cardinality(T) <= Cardinality(T \ {n})
    BY <1>2
  <2> QED
    BY <1>4, <2>1, <2>2
<1>7. T \ {n} # {}
  <2>1. PICK m \in T : m \in Dependents(n)
    BY <1>2
  <2>2. m # n
    BY <1>3, <2>1 DEF Dependents
  <2> QED
    BY <2>1, <2>2
<1>8. PICK m \in T \ {n} : Dependents(m) \cap (T \ {n}) = {}
  BY <1>5, <1>6, <1>7
<1>9. n \notin Dependents(m)
  BY <1>3, <1>8 DEF Dependents
<1> QED
  BY <1>2, <1>8, <1>9

\* From the roots along the dependencies one gets everywhere.
LEMMA RootsReachAll ==
  ASSUME TypeOK, AcyclicGraph, NEW V \in SUBSET LcNodes, Roots \subseteq V, \A n \in V : dependsOn[n] \subseteq V
  PROVE  V = LcNodes
<1> SUFFICES ASSUME LcNodes \ V # {} PROVE FALSE
  OBVIOUS
<1>1. PICK n \in LcNodes \ V : Dependents(n) \cap (LcNodes \ V) = {}
  BY HasARoot
<1>2. PICK m \in Dependents(n) : TRUE
  BY <1>1 DEF Roots
<1> QED
  BY <1>1, <1>2 DEF Dependents

-----------------------------------------------------------------------------
(* The loop never stalls *)

\* A start under way runs or has a result to be received.
StartsAreReported == \A n \in LcNodes : start[n] = "active" => startCall[n] = "running" \/ n \in startResults

LEMMA NextStartsReported ==
  ASSUME TypeOK, IInv, StartsAreReported, [Next]_vars
  PROVE  StartsAreReported'
<1>1. UNCHANGED graph /\ LcNodes' = LcNodes /\ \A n \in LcNodes : n \in Node
  BY NextMoves, GraphFixed, GraphTyped DEF NodeStep
<1>2. start \in [Node -> Phase] /\ startCall \in [Node -> {"none", "running", "ok", "failed"}]
  BY DEF TypeOK
<1>3. CASE UNCHANGED <<start, startCall, startResults>>
  BY <1>1, <1>3 DEF StartsAreReported
<1>4. ASSUME NEW k \in LcNodes, StartReturns(k)
      PROVE  StartsAreReported'
  BY <1>1, <1>2, <1>4 DEF StartReturns, StartsAreReported, session
<1>5. ASSUME NEW k \in LcNodes, ReceiveStartResult(k)
      PROVE  StartsAreReported'
  <2>1. /\ start' = [start EXCEPT ![k] = "completed"] /\ startResults' = startResults \ {k} /\ UNCHANGED startCall
    BY <1>5 DEF ReceiveStartResult, HandleNodeStarted, HandleNodeStartError, calls
  <2> QED
    BY <1>1, <1>2, <2>1 DEF StartsAreReported
<1>6. ASSUME NEW k \in LcNodes, NEW rest, TryStartNode(k, rest)
      PROVE  StartsAreReported'
  <2>1. UNCHANGED startResults
    BY <1>6 DEF TryStartNode, env, channels
  <2>2. \/ UNCHANGED <<start, startCall>>
        \/ /\ start[k] = "none" /\ startCall' \in [Node -> {"none", "running", "ok", "failed"}]
           /\ \A m \in LcNodes \ {k} : start'[m] = start[m] /\ startCall'[m] = startCall[m]
           /\ start'[k] # "active" \/ startCall'[k] = "running"
    BY <1>1, <1>2, <1>6 DEF TryStartNode, HandleNodeStarted, HandleNodeStartError, env, calls
  <2> QED
    BY <1>1, <2>1, <2>2 DEF StartsAreReported
<1>7. CASE StartNextLeaf \/ StartNextDependent
  <2>1. agenda # <<>> => Head(agenda).nodes \subseteq LcNodes
    BY HeadTyped
  <2> QED
    BY <1>6, <1>7, <2>1 DEF StartNextLeaf, StartNextDependent, CallIs
<1>8. CASE CloseNext
  <2>1. UNCHANGED <<startCall, startResults>>
    BY <1>8 DEF CloseNext, TryCloseNode, channels
  <2>2. start' = start \/ \E k : start' = [start EXCEPT ![k] = "skipped"]
    BY <1>8 DEF CloseNext, TryCloseNode
  <2>3. \A m \in LcNodes : start'[m] = "active" => start[m] = "active"
    BY <1>1, <1>2, <2>2
  <2> QED
    BY <1>1, <2>1, <2>3 DEF StartsAreReported
<1>9. CASE WaitForStarted
  BY <1>3, <1>9 DEF WaitForStarted, TryWaitForNode, HandleNodeWaited, nodes, env, calls, channels
<1>10. CASE RunBegins \/ LeavesStarted \/ CloseStarted \/ TryShutDown \/ ReturnFromCall \/ ReceiveCtxDone
  BY <1>3, <1>10 DEF RunBegins, LeavesStarted, CloseStarted, TryShutDown, ReturnFromCall, ReceiveCtxDone, nodes, env,
     calls, channels
<1>11. ASSUME NEW k \in LcNodes, ReceiveWaitResult(k) \/ ReceiveClosed(k)
       PROVE  StartsAreReported'
  BY <1>3, <1>11 DEF ReceiveWaitResult, ReceiveClosed, HandleNodeWaited, calls
<1>12. ASSUME NEW k \in LcNodes, WaitReturns(k) \/ CloseReturns(k) \/ StartTimesOut(k)
       PROVE  StartsAreReported'
  BY <1>3, <1>12 DEF WaitReturns, CloseReturns, StartTimesOut, session, env, calls, channels
<1>13. CASE CancelRunCtx \/ Finished \/ UNCHANGED vars
  BY <1>3, <1>13 DEF CancelRunCtx, Finished, session, vars, nodes, env, calls, channels
<1> QED
  BY <1>4, <1>5, <1>7, <1>8, <1>9, <1>10, <1>11, <1>12, <1>13 DEF Next, SessionStep

NInv ==
    /\ Known
    /\ ReturnsWhenDone /\ LastWaitShutsDown /\ LeavesAhead /\ SignalsExact /\ NoneForgotten /\ ClosesReach
    /\ StartsAreReported /\ AcyclicGraph

LEMMA InitNInv ==
  ASSUME \A g \in Graphs : Acyclic(g), Init
  PROVE  ReturnsWhenDone /\ LastWaitShutsDown /\ LeavesAhead /\ SignalsExact /\ NoneForgotten /\ ClosesReach
         /\ StartsAreReported /\ AcyclicGraph /\ SignalsCounted
<1>1. TypeOK /\ (\A n \in LcNodes : n \in Node) /\ pc = "run" /\ agenda = <<>> /\ onShutdownCalls = 0 /\ onReadyCalls = 0
  BY InitTyped, GraphTyped DEF Init
<1>2. ~InProgress /\ ~Begun
  BY <1>1 DEF InProgress, Begun
<1>3. AcyclicGraph
  BY DEF Init, AcyclicGraph, Acyclic, LcNodes
<1>4. Open(start) = LcNodes
  BY <1>1 DEF Init, Open, Done
<1>5. SignalsExact /\ SignalsCounted
  <2>1. remainingReadySignals = Cardinality(Open(start)) /\ Cardinality(Open(start)) \in Nat
    BY <1>1, <1>4, OpenFinite DEF Init
  <2> QED
    BY <1>1, <1>2, <2>1 DEF SignalsExact, SignalsCounted
<1>6. NoneForgotten
  <2> SUFFICES ASSUME NEW n \in LcNodes
               PROVE  /\ readyDeps[n] + Cardinality(Below(agenda, n)) = Cardinality(ReadyDeps(n))
                      /\ dependsOn[n] # {} => readyDeps[n] < Cardinality(dependsOn[n])
    BY DEF NoneForgotten
  <2>1. readyDeps[n] = 0 /\ dependsOn[n] \subseteq LcNodes
    BY <1>1, GraphTyped DEF Init
  <2>2. ReadyDeps(n) = {}
    BY <1>1, <2>1 DEF Init, ReadyDeps, Done
  <2>3. Below(agenda, n) = {}
    BY <1>1 DEF Below
  <2>4. dependsOn[n] # {} => Cardinality(dependsOn[n]) # 0 /\ Cardinality(dependsOn[n]) \in Nat
    BY <1>1, ReadyFinite, FS_EmptySet
  <2>5. Cardinality(ReadyDeps(n)) = 0 /\ Cardinality(Below(agenda, n)) = 0
    BY <2>2, <2>3, FS_EmptySet
  <2> QED
    BY <2>1, <2>4, <2>5
<1>7. ClosesReach /\ StartsAreReported
  BY <1>1, <1>2 DEF Init, ClosesReach, StartsAreReported
<1> QED
  BY <1>2, <1>3, <1>5, <1>6, <1>7 DEF ReturnsWhenDone, LastWaitShutsDown, LeavesAhead

LEMMA NextNInv ==
  ASSUME SharedHook = {}, NInv, [Next]_vars
  PROVE  NInv'
<1>1. Known /\ Known'
  BY NextKnown DEF NInv
<1>2. ReturnsWhenDone' /\ LastWaitShutsDown' /\ LeavesAhead' /\ SignalsExact'
  BY <1>1, NextReturns, NextLastWait, NextLeavesAhead, NextSignalsExact DEF NInv
<1>3. NoneForgotten' /\ ClosesReach'
  BY <1>1, NextNoneForgotten, NextClosesReach DEF NInv
<1>4. StartsAreReported'
  BY NextStartsReported DEF NInv, Known
<1>5. AcyclicGraph'
  BY NextMoves, GraphFixed DEF NInv, Known, NodeStep, AcyclicGraph
<1> QED
  BY <1>1, <1>2, <1>3, <1>4, <1>5 DEF NInv

\* When the loop waits and no start is under way, the session is stopping or all nodes are ready.
LEMMA AllStarted ==
  ASSUME NInv, Receiving, ~Stopping, \A n \in LcNodes : start[n] # "active"
  PROVE  Open(start) = {}
<1> USE DEF NInv, Known
<1> SUFFICES ASSUME Open(start) # {} PROVE FALSE
  OBVIOUS
<1>1. Open(start) \in SUBSET LcNodes /\ start \in [Node -> Phase]
  BY DEF Open, TypeOK
<1>2. PICK n \in Open(start) : dependsOn[n] \cap Open(start) = {}
  BY <1>1 DEF AcyclicGraph
<1>3. n \in LcNodes /\ n \in Node /\ start[n] = "none" /\ dependsOn[n] \subseteq LcNodes
  BY <1>1, <1>2, GraphTyped DEF Open, Phase
<1>4. agenda = <<>> /\ OnAgenda = {} /\ InProgress
  BY NothingOnAgenda DEF Receiving, InProgress
<1>5. dependsOn[n] # {}
  BY <1>3, <1>4 DEF LeavesAhead, Leaves
<1>6. ASSUME NEW d \in dependsOn[n]
      PROVE  start[d] \in Done /\ startCall[d] # "failed"
  <2>1. d \in LcNodes /\ start[d] \in Done
    BY <1>2, <1>3, <1>6 DEF Open
  <2>2. d \notin startResults
    BY <2>1 DEF IInv, GoroutinesHavePhases, Done
  <2>3. Cause = "nil"
    BY DEF Cause, AboutToShutDown, Stopping, SInv
  <2> QED
    BY <2>1, <2>2, <2>3 DEF RInv, FailuresAreNoticed
<1>7. ReadyDeps(n) = dependsOn[n]
  BY <1>6 DEF ReadyDeps
<1>8. Below(agenda, n) = {}
  BY <1>4 DEF Below
<1>9. Cardinality(Below(agenda, n)) = 0 /\ Cardinality(dependsOn[n]) \in Nat /\ readyDeps[n] \in Nat
  BY <1>3, <1>8, FS_EmptySet, ReadyFinite DEF TypeOK
<1>10. /\ readyDeps[n] + Cardinality(Below(agenda, n)) = Cardinality(ReadyDeps(n))
       /\ readyDeps[n] < Cardinality(dependsOn[n])
  BY <1>3, <1>5 DEF NoneForgotten
<1>11. readyDeps[n] = Cardinality(dependsOn[n])
  BY <1>7, <1>9, <1>10
<1> QED
  BY <1>9, <1>10, <1>11

LEMMA NInvSuffices == NInv => NeverStalls
<1> SUFFICES ASSUME NInv, Receiving
             PROVE  /\ \E n \in LcNodes : "active" \in {start[n], wait[n], close[n]}
                    /\ startResults = {} /\ (\A n \in Node : startCall[n] # "running")
                         => onReadyCalls = 1 \/ onShutdownCalls > 0
  BY DEF NeverStalls
<1> USE DEF NInv, Known
<1>1. agenda = <<>> /\ OnAgenda = {} /\ InProgress /\ (Stopping => Begun) /\ pc # "returned"
  BY NothingOnAgenda DEF Receiving, InProgress, Stopping, CallIs
<1>2. ~AllDone
  BY <1>1 DEF ReturnsWhenDone, ReturnAhead
<1>3. \A n \in LcNodes : ~Unwaited(n)
  BY <1>1 DEF SInv, WaitsAhead
<1>4. ASSUME \A n \in LcNodes : "active" \notin {start[n], wait[n], close[n]}
      PROVE  FALSE
  <2>1. CASE Begun
    <3>1. PICK V \in SUBSET LcNodes : Reached(V)
      BY <1>1, <2>1 DEF ClosesReach, Reaches
    <3>2. ToClose = {}
      BY <1>1, ClosingNothing DEF ToClose
    <3>3. \A n \in V : IsDone(n) /\ dependsOn[n] \subseteq V
      BY <1>3, <1>4, <3>1, <3>2 DEF Reached, Attended
    <3>4. V = LcNodes
      BY <3>1, <3>3, RootsReachAll DEF Reached
    <3>5. Open(wait) = {} /\ Open(close) = {}
      BY <3>3, <3>4 DEF Open, IsDone
    <3>6. remainingWaits = 0 /\ remainingCloses = 0
      BY <3>5, FS_EmptySet, CountersAreOpen DEF IInv
    <3> QED
      BY <1>2, <3>6 DEF AllDone
  <2>2. CASE ~Begun
    <3>1. ~Stopping
      BY <1>1, <2>2
    <3>2. Open(start) = {}
      BY <1>4, <3>1, AllStarted
    <3>3. wait \in [Node -> Phase] /\ \A n \in LcNodes : n \in Node
      BY GraphTyped DEF TypeOK
    <3>4. AllWaited
      BY <1>3, <1>4, <3>2, <3>3 DEF Open, Unwaited, AllWaited, Phase
    <3> QED
      BY <1>1, <1>2, <3>1, <3>4 DEF LastWaitShutsDown
  <2> QED
    BY <2>1, <2>2
<1>5. ASSUME startResults = {}, \A n \in Node : startCall[n] # "running", ~(onShutdownCalls > 0)
      PROVE  onReadyCalls = 1
  <2>1. ~Stopping
    BY <1>1, <1>5 DEF Begun
  <2>2. \A n \in LcNodes : start[n] # "active"
    BY <1>5, GraphTyped DEF StartsAreReported
  <2>3. Open(start) = {}
    BY <2>1, <2>2, AllStarted
  <2> QED
    BY <1>1, <2>1, <2>3 DEF SignalsExact
<1> QED
  BY <1>4, <1>5

\* Where no other Runner runs the hooks and no hooks depend on each other in a
\* cycle, the loop never waits for results that nobody is going to send, and
\* readiness is reported once no Start is under way.
THEOREM SessionNeverStalls ==
  ASSUME SharedHook = {}, \A g \in Graphs : Acyclic(g)
  PROVE  Spec => []NeverStalls
<1>1. TypeOK /\ IInv /\ CallsFitPhases /\ RInv /\ SInv /\ ReadyCounted /\ Init => NInv
  BY InitNInv DEF NInv, Known
<1>2. NInv /\ [Next]_vars => NInv'
  BY NextNInv
<1>3. NInv => NeverStalls
  BY NInvSuffices
<1> QED
  BY <1>1, <1>2, <1>3, TypeInvariant, Inductive, CallsFollowPhases, CausesHaveReasons, StartsBeforeCloses, PTL DEF Spec
=============================================================================
