--------------------------- MODULE RegistryProofs ---------------------------
(***************************************************************************)
(* Chains of provide calls do not overlap, and the signal is never lost:   *)
(* OneChainAtATime holds for any number of goroutines and components, and  *)
(* whatever user code does.                                                *)
(*                                                                         *)
(* OneChainAtATime alone does not say that a goroutine that leaves a chain *)
(* leaves no getter about to return: Inv adds that such a getter has a     *)
(* frame to return to.                                                     *)
(*                                                                         *)
(* And the counts of frames are exact. FInv counts the queue in the slice, *)
(* where the operations change it; that DeleteNodeFrames takes out as many *)
(* frames as the count says, and no other, is an induction over its loop.  *)
(*                                                                         *)
(* So a component whose count is zero has ended: nothing of it is left to  *)
(* run. RInv says that what is registered, about to be removed, or waits   *)
(* for other components has ended, and OneComponent that a step concerns   *)
(* one component; hence a registration is written once, and a getter       *)
(* returns a complete component.                                           *)
(*                                                                         *)
(* The rest is about the records of pending components, where nothing has  *)
(* been asked for while it was being provided, or after its count had left *)
(* it behind (Straight). Structure says how the records, the frames, the   *)
(* components obtained and the calls of remove still to make fit each      *)
(* other; Counting that a component waits for no fewer of its dependencies *)
(* than lead to an unfinished one, and that what is registered leads to    *)
(* none. Both are inductive together (SInv), and nothing is registered     *)
(* half initialised. That the walk which counts misses nothing is an       *)
(* induction over the equation of CountLoop.                               *)
(*                                                                         *)
(* EInv adds that an error comes with everything that has obtained the     *)
(* failed component and has no late inits; HInv that dependencies are what *)
(* has been obtained, and that hooks are found through records that lead   *)
(* to nothing unfinished.                                                  *)
(*                                                                         *)
(* Where one component at the most has used late inits, counts are exact   *)
(* enough: a walk counts it once, so a finished component waits for no     *)
(* more than it has dependencies (Limits). OneInv says so without asking   *)
(* that nothing is left behind: it follows that nothing is.                *)
(***************************************************************************)
EXTENDS Registry, FiniteSetTheorems, WellFoundedInduction, TLAPS

Inv ==
    /\ caller \in [Caller -> {"idle", "waiting", "inChain", "returned"}]
    /\ returning # {} => stack # <<>>
    /\ OneChainAtATime

\* The steps of a chain: they happen in a chain only, and leave the goroutines and the
\* signal alone.
ChainStep ==
    /\ ~signal
    /\ UNCHANGED <<signal, caller>>
    /\ returning' # {} => stack' # <<>>

\* A step of a chain keeps the invariant.
LEMMA ChainStepKeepsInv == Inv /\ ChainStep => Inv'
  BY DEF Inv, ChainStep, OneChainAtATime, InChain, QueueLen, QueueLength

\* Every step except those of goroutines outside of providers is a step of a chain.
LEMMA OtherStepsAreChainSteps ==
  ASSUME Inv,
         \/ \E m \in Comp : Call(m)
         \/ UseLateInit \/ UseLifecycle
         \/ StartProviding \/ ProviderReturns \/ ProviderPanics \/ LateInitReturns \/ GetterReturns
         \/ RemovePending \/ ExecuteQueuedLateInit
  PROVE  ChainStep
<1>0. /\ stack # <<>> => ~signal
      /\ removing # <<>> => ~signal
      /\ returning # {} => ~signal
      /\ InChain => ~signal
  BY DEF Inv, OneChainAtATime
<1>1. ASSUME NEW m \in Comp, Call(m) PROVE ChainStep
  BY <1>0, <1>1 DEF ChainStep, Call, UserCode, Settled, callers
<1>2. CASE UseLateInit
  BY <1>0, <1>2 DEF ChainStep, UseLateInit, UserCode, Settled, callers
<1>3. CASE UseLifecycle
  BY <1>0, <1>3 DEF ChainStep, UseLifecycle, UserCode, Settled, callers
<1>4. ASSUME NEW err, NEW report, ProviderFrameEnds(err, report)
      PROVE  UNCHANGED <<signal, caller>> /\ (returning' # {} => stack' # <<>>)
  BY <1>4 DEF ProviderFrameEnds, PopTopFrame, callers
<1>5. CASE StartProviding
  BY <1>0, <1>4, <1>5 DEF ChainStep, StartProviding, Settled, callers
<1>6. CASE ProviderReturns
  BY <1>0, <1>4, <1>6 DEF ChainStep, ProviderReturns, UserCode, Settled
<1>7. CASE ProviderPanics
  BY <1>0, <1>4, <1>7 DEF ChainStep, ProviderPanics, UserCode, Settled
<1>8. CASE LateInitReturns
  BY <1>0, <1>8 DEF ChainStep, LateInitReturns, UserCode, Settled, callers
<1>9. CASE GetterReturns
  BY <1>0, <1>9 DEF ChainStep, GetterReturns, callers
<1>10. CASE RemovePending
  BY <1>0, <1>10 DEF Inv, ChainStep, RemovePending, RemoveNext, callers, frames
<1>11. CASE ExecuteQueuedLateInit
  BY <1>0, <1>11 DEF Inv, ChainStep, ExecuteQueuedLateInit, callers
<1>12. QED
  BY <1>1, <1>2, <1>3, <1>5, <1>6, <1>7, <1>8, <1>9, <1>10, <1>11

LEMMA InitEstablishesInv == Init => Inv
  BY DEF Init, FramesInit, PendingInit, Inv, OneChainAtATime, InChain, QueueLen, QueueLength

\* Asking, entering a chain and ending it: who enters takes the signal, and who ends the
\* chain, the only one in it, gives it back.
LEMMA GoroutineStepsKeepInv ==
  ASSUME Inv, NEW g \in Caller, Ask(g, asks[g]) \/ EnterChain(g) \/ EndChain(g)
  PROVE  Inv'
<1>1. CASE Ask(g, asks[g])
  BY <1>1 DEF Inv, Ask, OneChainAtATime, InChain, frames, lateInitsQueue, QueueLen, QueueLength
<1>2. CASE EnterChain(g)
  <2>1. CASE IsRegistered(asks[g])
    BY <1>2, <2>1 DEF Inv, EnterChain, SignalAfterShortcut, OneChainAtATime, InChain, frames,
                      lateInitsQueue, QueueLen, QueueLength
  <2>2. CASE ~IsRegistered(asks[g])
    BY <1>2, <2>2 DEF Inv, EnterChain, OneChainAtATime, InChain
  <2>3. QED
    BY <2>1, <2>2
<1>3. CASE EndChain(g)
  BY <1>3 DEF Inv, EndChain, OneChainAtATime, InChain, frames, lateInitsQueue, QueueLen, QueueLength
<1>4. QED
  BY <1>1, <1>2, <1>3

LEMMA NextKeepsInv == Inv /\ [Next]_vars => Inv'
<1>1. CASE UNCHANGED vars \/ AllAnswered
  BY <1>1 DEF Inv, AllAnswered, vars, callers, frames, lateInitsQueue, OneChainAtATime, InChain,
              QueueLen, QueueLength
<1>2. QED
  BY <1>1, ChainStepKeepsInv, OtherStepsAreChainSteps, GoroutineStepsKeepInv DEF Next

\* registry.go:112-125 and 174-178: the one-place channel is a lock. However many
\* goroutines ask for components, and whatever providers and late inits do, chains do not
\* overlap, and the signal is given back when the frames, the queue of late inits and the
\* removals of a chain are over, and not before.
THEOREM ChainsDoNotOverlap == Spec => []OneChainAtATime
<1>1. Inv => OneChainAtATime
  BY DEF Inv
<1>2. QED
  BY <1>1, InitEstablishesInv, NextKeepsInv, PTL DEF Spec

-----------------------------------------------------------------------------
(* The counts of frames. *)

\* Of a slice with its front, the places of n in the queue; of a stack, those of its frames.
Queued(its, front, n) == {i \in 1 .. Len(its) : i > front /\ its[i] = n}
FramesIn(st, n) == {i \in 1 .. Len(st) : st[i].node = n}
IsQueue(its, front) == its \in Seq(Comp) /\ front \in -1 .. Len(its) /\ (front = -1 => its = <<>>)

Counted ==
    \A n \in Comp : /\ queuedLateInitsCount[n] = Cardinality(Queued(items, frontIndex, n))
                    /\ totalFramesCount[n] = Cardinality(FramesIn(stack, n)) + queuedLateInitsCount[n]

FInv ==
    /\ IsQueue(items, frontIndex) /\ stack \in Seq([node : Comp, kind : FrameKinds])
    /\ totalFramesCount \in [Comp -> Nat] /\ queuedLateInitsCount \in [Comp -> Nat]
    /\ asks \in [Caller -> Comp]
    /\ Counted

LEMMA PlacesAreFinite ==
    ASSUME NEW its, NEW front, NEW n, Len(its) \in Nat
    PROVE  /\ IsFiniteSet(Queued(its, front, n)) /\ Cardinality(Queued(its, front, n)) \in Nat
           /\ IsFiniteSet(FramesIn(its, n)) /\ Cardinality(FramesIn(its, n)) \in Nat
<1>1. IsFiniteSet(1 .. Len(its))
  BY FS_Interval
<1>2. Queued(its, front, n) \in SUBSET (1 .. Len(its)) /\ FramesIn(its, n) \in SUBSET (1 .. Len(its))
  BY DEF Queued, FramesIn
<1>3. IsFiniteSet(Queued(its, front, n)) /\ IsFiniteSet(FramesIn(its, n))
  BY <1>1, <1>2, FS_Subset
<1> QED
  BY <1>3, FS_CardinalityType

\* What is added at the end counts once.
LEMMA QueuedAppend ==
    ASSUME NEW its \in Seq(Comp), NEW front \in -1 .. Len(its), NEW e \in Comp, NEW n
    PROVE  Cardinality(Queued(Append(its, e), front, n)) =
               Cardinality(Queued(its, front, n)) + (IF e = n THEN 1 ELSE 0)
<1> DEFINE k == Len(its) + 1
<1>1. k \in Nat /\ k > front /\ Len(Append(its, e)) = k /\ Append(its, e)[k] = e
      /\ \A i \in 1 .. Len(its) : Append(its, e)[i] = its[i] /\ i # k
  OBVIOUS
<1>2. IsFiniteSet(Queued(its, front, n)) /\ k \notin Queued(its, front, n)
      /\ Cardinality(Queued(its, front, n)) \in Nat
  <2>1. Len(its) \in Nat /\ k \notin Queued(its, front, n)
    BY <1>1 DEF Queued
  <2> QED
    BY <2>1, PlacesAreFinite
<1>3. \A i : i \in 1 .. k <=> i \in 1 .. Len(its) \/ i = k
  OBVIOUS
<1>4. CASE e = n
  <2>1. Queued(Append(its, e), front, n) = Queued(its, front, n) \cup {k}
    BY <1>1, <1>3, <1>4 DEF Queued
  <2> QED
    BY <1>2, <1>4, <2>1, FS_AddElement
<1>5. CASE e # n
  <2>1. Queued(Append(its, e), front, n) = Queued(its, front, n)
    BY <1>1, <1>3, <1>5 DEF Queued
  <2> QED
    BY <1>2, <1>5, <2>1
<1> QED
  BY <1>4, <1>5

LEMMA FramesAppend ==
    ASSUME NEW st \in Seq([node : Comp, kind : FrameKinds]), NEW f \in [node : Comp, kind : FrameKinds], NEW n
    PROVE  Cardinality(FramesIn(Append(st, f), n)) =
               Cardinality(FramesIn(st, n)) + (IF f.node = n THEN 1 ELSE 0)
<1> DEFINE k == Len(st) + 1
<1>1. k \in Nat /\ Len(Append(st, f)) = k /\ Append(st, f)[k] = f
      /\ \A i \in 1 .. Len(st) : Append(st, f)[i] = st[i] /\ i # k
  OBVIOUS
<1>2. IsFiniteSet(FramesIn(st, n)) /\ k \notin FramesIn(st, n) /\ Cardinality(FramesIn(st, n)) \in Nat
  <2>1. Len(st) \in Nat /\ k \notin FramesIn(st, n)
    BY <1>1 DEF FramesIn
  <2> QED
    BY <2>1, PlacesAreFinite
<1>3. \A i : i \in 1 .. k <=> i \in 1 .. Len(st) \/ i = k
  OBVIOUS
<1>4. CASE f.node = n
  <2>1. FramesIn(Append(st, f), n) = FramesIn(st, n) \cup {k}
    BY <1>1, <1>3, <1>4 DEF FramesIn
  <2> QED
    BY <1>2, <1>4, <2>1, FS_AddElement, ZenonT(60)
<1>5. CASE f.node # n
  <2>1. FramesIn(Append(st, f), n) = FramesIn(st, n)
    BY <1>1, <1>3, <1>5 DEF FramesIn
  <2> QED
    BY <1>2, <1>5, <2>1
<1> QED
  BY <1>4, <1>5

LEMMA LastAndFront ==
    ASSUME NEW S, NEW s \in Seq(S), s # <<>>
    PROVE  /\ Len(s) \in Nat \ {0} /\ s[Len(s)] \in S /\ SubSeq(s, 1, Len(s) - 1) \in Seq(S)
           /\ Len(SubSeq(s, 1, Len(s) - 1)) = Len(s) - 1
           /\ \A i \in 1 .. Len(s) - 1 : SubSeq(s, 1, Len(s) - 1)[i] = s[i]
<1>1. Len(s) \in Nat \ {0}
  OBVIOUS
<1>2. Len(s) \in 1 .. Len(s) /\ s[Len(s)] \in S
  BY <1>1
<1>3. SubSeq(s, 1, Len(s) - 1) \in Seq(S)
  BY <1>1
<1>4. Len(SubSeq(s, 1, Len(s) - 1)) = Len(s) - 1
  <2>1. PICK n \in Nat : n = Len(s) - 1
    BY <1>1
  <2>2. Len(SubSeq(s, 1, n)) = n
    BY <2>1
  <2> QED
    BY <2>1, <2>2
<1>5. ASSUME NEW i \in 1 .. Len(s) - 1 PROVE SubSeq(s, 1, Len(s) - 1)[i] = s[i]
  BY <1>1
<1> QED
  BY <1>1, <1>2, <1>3, <1>4, <1>5

\* The stack without the frame on top.
LEMMA FramesBelow ==
    ASSUME stack \in Seq([node : Comp, kind : FrameKinds]), stack # <<>>, NEW n
    PROVE  /\ Top \in [node : Comp, kind : FrameKinds] /\ Below \in Seq([node : Comp, kind : FrameKinds])
           /\ Cardinality(FramesIn(stack, n)) = Cardinality(FramesIn(Below, n)) + (IF Top.node = n THEN 1 ELSE 0)
<1>1. Top \in [node : Comp, kind : FrameKinds] /\ Below \in Seq([node : Comp, kind : FrameKinds])
  BY LastAndFront DEF Top, Below
<1> DEFINE k == Len(stack)
<1>2. k \in Nat \ {0} /\ Len(Below) = k - 1 /\ \A i \in 1 .. k - 1 : Below[i] = stack[i]
  BY LastAndFront DEF Below
<1>3. \A i : i \in 1 .. k <=> i \in 1 .. k - 1 \/ i = k
  BY <1>2
<1>4. IsFiniteSet(FramesIn(Below, n)) /\ Cardinality(FramesIn(Below, n)) \in Nat
  <2>1. Len(Below) \in Nat
    BY <1>2
  <2> QED
    BY <2>1, PlacesAreFinite
<1>5. k \notin FramesIn(Below, n)
  BY <1>2 DEF FramesIn
<1>6. CASE Top.node = n
  <2>1. FramesIn(stack, n) = FramesIn(Below, n) \cup {k}
    BY <1>2, <1>3, <1>6 DEF FramesIn, Top
  <2> QED
    BY <1>1, <1>4, <1>5, <1>6, <2>1, FS_AddElement
<1>7. CASE Top.node # n
  <2>1. FramesIn(stack, n) = FramesIn(Below, n)
    BY <1>2, <1>3, <1>7 DEF FramesIn, Top
  <2> QED
    BY <1>1, <1>4, <1>7, <2>1
<1> QED
  BY <1>1, <1>6, <1>7

\* The invariant is about the places that StatsExact counts.
QueueOf(its, front) == IF front >= 0 THEN SubSeq(its, front + 1, Len(its)) ELSE <<>>
LEMMA QueuedAreInQueue ==
    ASSUME NEW its, NEW front, IsQueue(its, front), NEW n
    PROVE  Cardinality({i \in DOMAIN QueueOf(its, front) : QueueOf(its, front)[i] = n}) =
               Cardinality(Queued(its, front, n))
<1> DEFINE A == {i \in DOMAIN QueueOf(its, front) : QueueOf(its, front)[i] = n}
           B == Queued(its, front, n)
<1>1. CASE front = -1
  <2>1. A = {} /\ B = {}
    BY <1>1 DEF IsQueue, QueueOf, Queued
  <2> QED
    BY <2>1
<1>2. CASE front # -1
  <2>1. front \in Nat /\ Len(its) \in Nat /\ front <= Len(its) /\ its \in Seq(Comp)
    BY <1>2 DEF IsQueue
  <2>2. /\ DOMAIN QueueOf(its, front) = 1 .. Len(its) - front
        /\ \A i \in 1 .. Len(its) - front : QueueOf(its, front)[i] = its[i + front]
    BY <2>1 DEF QueueOf
  <2> DEFINE f == [i \in B |-> i - front]
  <2>3. A = {i \in 1 .. Len(its) - front : its[i + front] = n}
    BY <2>2
  <2>4. B = {i \in front + 1 .. Len(its) : its[i] = n}
    BY <2>1 DEF Queued
  <2>5. f \in [B -> A]
    BY <2>1, <2>3, <2>4
  <2>6. \A i, j \in B : f[i] = f[j] => i = j
    BY <2>1, <2>4
  <2>7. \A a \in A : \E i \in B : f[i] = a
    <3> SUFFICES ASSUME NEW a \in A PROVE a + front \in B /\ f[a + front] = a
      OBVIOUS
    <3>1. a \in 1 .. Len(its) - front /\ its[a + front] = n
      BY <2>3
    <3>2. a + front \in B
      BY <2>1, <2>4, <3>1
    <3> QED
      BY <2>1, <3>1, <3>2
  <2>8. IsFiniteSet(B)
    BY <2>1, PlacesAreFinite
  <2>9. ExistsBijection(B, A)
    <3> HIDE DEF A, B, f
    <3> QED
      BY <2>5, <2>6, <2>7 DEF ExistsBijection, Bijection, Injection, Surjection, IsInjective
  <2>10. Cardinality(A) = Cardinality(B)
    <3> HIDE DEF A, B
    <3> QED
      BY <2>8, <2>9, FS_Bijection
  <2> QED
    BY <2>10
<1> QED
  BY <1>1, <1>2

LEMMA CountsFit == FInv => StatsExact
<1> SUFFICES ASSUME FInv PROVE StatsExact
  OBVIOUS
<1>1. Queue = QueueOf(items, frontIndex) /\ DOMAIN stack = 1 .. Len(stack)
  BY DEF Queue, QueueOf, FInv
<1>2. ASSUME NEW n \in Comp PROVE Cardinality(InQueue(n)) = Cardinality(Queued(items, frontIndex, n))
  BY <1>1, QueuedAreInQueue, SMTT(30) DEF FInv, InQueue
<1>3. \A n \in Comp : InStack(n) = FramesIn(stack, n)
  BY <1>1 DEF FramesIn, InStack
<1> QED
  BY <1>2, <1>3 DEF FInv, Counted, StatsExact

-----------------------------------------------------------------------------
(* The loop of DeleteNodeFrames, by induction over the slice. *)

LEMMA Least ==
    ASSUME NEW S \in SUBSET Nat, S # {}
    PROVE  \E x \in S : \A y \in S : x <= y
<1> DEFINE R == OpToRel(<, Nat)
<1>1. IsWellFoundedOn(R, Nat)
  BY NatLessThanWellFounded
<1>2. \A x, y \in Nat : <<y, x>> \in R <=> y < x
  BY DEF OpToRel
<1> HIDE DEF R
<1>3. PICK x \in S : \A y \in S : ~(<<y, x>> \in R)
  BY <1>1, WFMin
<1>4. ASSUME NEW y \in S PROVE x <= y
  <2>1. ~(y < x)
    BY <1>2, <1>3, Zenon
  <2> QED
    BY <2>1
<1> QED
  BY <1>4

LEMMA SetInduction ==
    ASSUME NEW S \in SUBSET Nat, 0 \in S, \A n \in S : n + 1 \in S
    PROVE  S = Nat
<1> SUFFICES ASSUME Nat \ S # {} PROVE FALSE
  OBVIOUS
<1>1. PICK x \in Nat \ S : \A y \in Nat \ S : x <= y
  BY Least
<1>2. x - 1 \in Nat /\ x - 1 \in S
  BY <1>1
<1> QED
  BY <1>1, <1>2

\* What the loop has left of the slice, and still to delete, after i frames.
RestStep(n, count, h, i) ==
    IF i = 0 THEN [items |-> <<>>, count |-> count] ELSE DeleteFrame(n, h[i - 1], i)
IsRest(n, count, h, k) == h = [i \in 0 .. k |-> RestStep(n, count, h, i)]

LEMMA RestExists == ASSUME NEW n, NEW count PROVE \A k \in Nat : \E h : IsRest(n, count, h, k)
<1> DEFINE S == {k \in Nat : \E h : IsRest(n, count, h, k)}
<1>1. 0 \in S
  <2> DEFINE h == [i \in 0 .. 0 |-> [items |-> <<>>, count |-> count]]
  <2>1. IsRest(n, count, h, 0)
    BY DEF IsRest, RestStep
  <2> QED
    BY <2>1
<1>2. ASSUME NEW k \in S PROVE k + 1 \in S
  <2>1. PICK h : IsRest(n, count, h, k)
    OBVIOUS
  <2>2. k \in Nat /\ \A i \in 0 .. k : h[i] = RestStep(n, count, h, i)
    BY <2>1, Zenon DEF IsRest
  <2> DEFINE g == [i \in 0 .. k + 1 |-> IF i = k + 1 THEN DeleteFrame(n, h[k], k + 1) ELSE h[i]]
  <2>3. ASSUME NEW i \in 0 .. k + 1 PROVE g[i] = RestStep(n, count, g, i)
    <3>1. CASE i = k + 1
      <4>1. i # 0 /\ i - 1 = k /\ k \in 0 .. k + 1 /\ k # k + 1
        BY <2>2, <3>1
      <4>2. g[k] = h[k]
        BY <4>1, Zenon
      <4>3. g[i] = DeleteFrame(n, h[k], k + 1)
        BY <3>1, Zenon
      <4> HIDE DEF g
      <4> QED
        BY <3>1, <4>1, <4>2, <4>3, Zenon DEF RestStep
    <3>2. CASE i # k + 1
      <4>1. i \in 0 .. k
        BY <2>2, <3>2
      <4>2. g[i] = RestStep(n, count, h, i)
        BY <2>2, <3>2, <4>1, Zenon
      <4>3. CASE i = 0
        <5> HIDE DEF g
        <5> QED
          BY <4>2, <4>3, Zenon DEF RestStep
      <4>4. CASE i # 0
        <5>1. i - 1 \in 0 .. k + 1 /\ i - 1 # k + 1
          BY <2>2, <4>1, <4>4
        <5>2. g[i - 1] = h[i - 1]
          BY <5>1, Zenon
        <5> HIDE DEF g
        <5> QED
          BY <4>2, <4>4, <5>2, Zenon DEF RestStep
      <4> QED
        BY <4>3, <4>4
    <3> QED
      BY <3>1, <3>2
  <2>4. IsRest(n, count, g, k + 1)
    <3>1. g = [i \in 0 .. k + 1 |-> g[i]]
      OBVIOUS
    <3> HIDE DEF g
    <3> QED
      BY <2>3, <3>1 DEF IsRest
  <2> QED
    BY <2>2, <2>4
<1>3. S = Nat
  <2>1. S \in SUBSET Nat
    OBVIOUS
  <2> HIDE DEF S
  <2> QED
    BY <1>1, <1>2, <2>1, SetInduction
<1> QED
  BY <1>3, Zenon

LEMMA ItemsWithoutLoops ==
    ASSUME NEW n, NEW count, Len(items) \in Nat
    PROVE  \E h : IsRest(n, count, h, Len(items)) /\ ItemsWithout(n, count) = h[Len(items)].items
<1> DEFINE h == CHOOSE h : h = [i \in 0 .. Len(items) |-> RestStep(n, count, h, i)]
<1>1. IsRest(n, count, h, Len(items))
  <2>1. PICK g : IsRest(n, count, g, Len(items))
    BY RestExists
  <2> HIDE DEF RestStep
  <2> QED
    BY <2>1 DEF IsRest
<1>2. ItemsWithout(n, count) = h[Len(items)].items
  BY DEF h, RestStep, ItemsWithout
<1> HIDE DEF h
<1> QED
  BY <1>1, <1>2

\* Of the first k places of the slice, those that are queued.
QueuedUpTo(k, n) == {i \in Queued(items, frontIndex, n) : i <= k}

\* After k frames: a slice that still has what is before the front, and of each component
\* as many queued frames as among the first k, less those deleted. Frames of n are left
\* only if none is to be deleted any more.
Rest(n, count, rest, k) ==
    /\ rest \in [items : Seq(Comp), count : 0 .. count]
    /\ (k <= frontIndex => Len(rest.items) = k) /\ (k >= frontIndex => Len(rest.items) >= frontIndex)
    /\ \A m \in Comp : Cardinality(QueuedUpTo(k, m)) =
           Cardinality(Queued(rest.items, frontIndex, m)) + (IF m = n THEN count - rest.count ELSE 0)
    /\ rest.count > 0 => Cardinality(Queued(rest.items, frontIndex, n)) = 0

LEMMA RestInit ==
    ASSUME FInv, NEW n \in Comp, NEW count \in Nat
    PROVE  Rest(n, count, [items |-> <<>>, count |-> count], 0)
<1>1. frontIndex \in Int /\ frontIndex >= -1 /\ count \in 0 .. count /\ <<>> \in Seq(Comp)
  BY DEF FInv, IsQueue
<1>2. \A m : Queued(<<>>, frontIndex, m) = {} /\ QueuedUpTo(0, m) = {}
  BY DEF Queued, QueuedUpTo
<1>3. Cardinality({}) = 0
  BY FS_EmptySet
<1> DEFINE rest == [items |-> <<>>, count |-> count]
<1>4. rest.items = <<>> /\ rest.count = count /\ rest \in [items : Seq(Comp), count : 0 .. count]
  BY <1>1
<1> HIDE DEF rest
<1>5. (0 <= frontIndex => Len(rest.items) = 0) /\ (0 >= frontIndex => Len(rest.items) >= frontIndex)
  BY <1>1, <1>4
<1>6. ASSUME NEW m \in Comp
      PROVE  Cardinality(QueuedUpTo(0, m)) =
                 Cardinality(Queued(rest.items, frontIndex, m)) + (IF m = n THEN count - rest.count ELSE 0)
  <2>1. Cardinality(QueuedUpTo(0, m)) = 0 /\ Cardinality(Queued(rest.items, frontIndex, m)) = 0
    BY <1>2, <1>3, <1>4, Zenon
  <2>2. (IF m = n THEN count - rest.count ELSE 0) = 0
    BY <1>4
  <2> QED
    BY <2>1, <2>2
<1>7. Cardinality(Queued(rest.items, frontIndex, n)) = 0
  BY <1>2, <1>3, <1>4
<1>8. Rest(n, count, rest, 0)
  BY <1>4, <1>5, <1>6, <1>7, Zenon DEF Rest
<1> QED
  BY <1>8 DEF rest

LEMMA RestNext ==
    ASSUME FInv, NEW n \in Comp, NEW count \in Nat, NEW k \in Nat, k + 1 <= Len(items),
           NEW rest, Rest(n, count, rest, k)
    PROVE  Rest(n, count, DeleteFrame(n, rest, k + 1), k + 1)
<1> DEFINE i == k + 1
           e == items[i]
           new == DeleteFrame(n, rest, i)
<1>1. /\ frontIndex \in Int /\ Len(items) \in Nat /\ i \in 1 .. Len(items) /\ e \in Comp
      /\ rest.items \in Seq(Comp) /\ Len(rest.items) \in Nat /\ rest.count \in Nat
      /\ rest.count <= count /\ rest = [items |-> rest.items, count |-> rest.count]
  BY SMTT(30) DEF FInv, IsQueue, Rest
<1>2. ASSUME NEW m
      PROVE  Cardinality(QueuedUpTo(i, m)) =
                 Cardinality(QueuedUpTo(k, m)) + (IF i > frontIndex /\ e = m THEN 1 ELSE 0)
  <2>1. IsFiniteSet(Queued(items, frontIndex, m))
    BY <1>1, PlacesAreFinite
  <2>2. QueuedUpTo(k, m) \in SUBSET Queued(items, frontIndex, m) /\ i \notin QueuedUpTo(k, m)
    BY DEF QueuedUpTo
  <2>3. IsFiniteSet(QueuedUpTo(k, m)) /\ Cardinality(QueuedUpTo(k, m)) \in Nat
    BY <2>1, <2>2, FS_Subset, FS_CardinalityType
  <2>4. CASE i > frontIndex /\ e = m
    <3>1. QueuedUpTo(i, m) = QueuedUpTo(k, m) \cup {i}
      BY <1>1, <2>4 DEF QueuedUpTo, Queued
    <3> QED
      BY <2>2, <2>3, <2>4, <3>1, FS_AddElement
  <2>5. CASE ~(i > frontIndex /\ e = m)
    <3>1. QueuedUpTo(i, m) = QueuedUpTo(k, m)
      BY <1>1, <2>5 DEF QueuedUpTo, Queued
    <3> QED
      BY <2>3, <2>5, <3>1
  <2> QED
    BY <2>4, <2>5
<1>3. \A m : Cardinality(Queued(rest.items, frontIndex, m)) \in Nat
  BY <1>1, PlacesAreFinite
<1>4. CASE i > frontIndex /\ e = n /\ rest.count > 0
  <2>1. new = [items |-> rest.items, count |-> rest.count - 1]
    BY <1>1, <1>4 DEF DeleteFrame
  <2> HIDE DEF new
  <2>2. new \in [items : Seq(Comp), count : 0 .. count]
    BY <1>1, <1>4, <2>1
  <2>3. new.items = rest.items /\ new.count = rest.count - 1
    BY <2>1
  <2>4. (i <= frontIndex => Len(new.items) = i) /\ (i >= frontIndex => Len(new.items) >= frontIndex)
    BY <1>1, <1>4, <2>3 DEF Rest
  <2>5. ASSUME NEW m \in Comp
        PROVE  Cardinality(QueuedUpTo(i, m)) =
                   Cardinality(Queued(new.items, frontIndex, m)) + (IF m = n THEN count - new.count ELSE 0)
    <3>1. Cardinality(QueuedUpTo(k, m)) =
              Cardinality(Queued(rest.items, frontIndex, m)) + (IF m = n THEN count - rest.count ELSE 0)
      BY DEF Rest
    <3> QED
      BY <1>1, <1>2, <1>3, <1>4, <2>3, <3>1
  <2>6. new.count > 0 => Cardinality(Queued(new.items, frontIndex, n)) = 0
    BY <1>4, <2>3 DEF Rest
  <2>7. Rest(n, count, new, i)
    BY <2>2, <2>4, <2>5, <2>6, Zenon DEF Rest
  <2> QED
    BY <2>7 DEF new
<1>5. CASE ~(i > frontIndex /\ e = n /\ rest.count > 0)
  <2>1. new = [items |-> Append(rest.items, e), count |-> rest.count]
    BY <1>1, <1>5 DEF DeleteFrame
  <2> HIDE DEF new
  <2>2. new \in [items : Seq(Comp), count : 0 .. count]
    BY <1>1, <2>1
  <2>3. new.items = Append(rest.items, e) /\ new.count = rest.count /\ Len(new.items) = Len(rest.items) + 1
    BY <1>1, <2>1
  <2>4. (i <= frontIndex => Len(new.items) = i) /\ (i >= frontIndex => Len(new.items) >= frontIndex)
    BY <1>1, <2>3 DEF Rest
  <2>5. ASSUME NEW m
        PROVE  Cardinality(Queued(new.items, frontIndex, m)) =
                   Cardinality(Queued(rest.items, frontIndex, m)) + (IF i > frontIndex /\ e = m THEN 1 ELSE 0)
    <3>1. CASE i > frontIndex
      <4>1. frontIndex \in -1 .. Len(rest.items)
        BY <1>1, <3>1 DEF Rest, FInv, IsQueue
      <4> QED
        BY <1>1, <2>3, <3>1, <4>1, QueuedAppend
    <3>2. CASE ~(i > frontIndex)
      <4>1. Len(rest.items) = k /\ Len(new.items) = i
        BY <1>1, <2>3, <3>2 DEF Rest
      <4>2. Queued(new.items, frontIndex, m) = {} /\ Queued(rest.items, frontIndex, m) = {}
        BY <1>1, <3>2, <4>1 DEF Queued
      <4> QED
        BY <3>2, <4>2, FS_EmptySet
    <3> QED
      BY <3>1, <3>2
  <2>6. ASSUME NEW m \in Comp
        PROVE  Cardinality(QueuedUpTo(i, m)) =
                   Cardinality(Queued(new.items, frontIndex, m)) + (IF m = n THEN count - new.count ELSE 0)
    <3>1. Cardinality(QueuedUpTo(k, m)) =
              Cardinality(Queued(rest.items, frontIndex, m)) + (IF m = n THEN count - rest.count ELSE 0)
      BY DEF Rest
    <3> QED
      BY <1>1, <1>2, <1>3, <2>3, <2>5, <3>1, SMTT(30)
  <2>7. ASSUME new.count > 0 PROVE Cardinality(Queued(new.items, frontIndex, n)) = 0
    <3>1. rest.count > 0 /\ ~(i > frontIndex /\ e = n)
      BY <1>5, <2>3, <2>7
    <3> QED
      BY <2>5, <3>1 DEF Rest
  <2>8. Rest(n, count, new, i)
    BY <2>2, <2>4, <2>6, <2>7, Zenon DEF Rest
  <2> QED
    BY <2>8 DEF new
<1> QED
  BY <1>4, <1>5

\* If n has as many frames in the queue as are to be deleted, these are gone, and nothing else.
LEMMA DeletesExactly ==
    ASSUME FInv, NEW n \in Comp, NEW count \in Nat,
           count <= Cardinality(Queued(items, frontIndex, n))
    PROVE  /\ ItemsWithout(n, count) \in Seq(Comp) /\ frontIndex <= Len(ItemsWithout(n, count))
           /\ \A m \in Comp : Cardinality(Queued(ItemsWithout(n, count), frontIndex, m)) =
                  Cardinality(Queued(items, frontIndex, m)) - (IF m = n THEN count ELSE 0)
<1> DEFINE N == Len(items)
<1>1. N \in Nat /\ frontIndex \in Int /\ frontIndex <= N
  BY DEF FInv, IsQueue
<1>2. PICK h : IsRest(n, count, h, N) /\ ItemsWithout(n, count) = h[N].items
  BY <1>1, ItemsWithoutLoops
<1>3. \A k \in 0 .. N : h[k] = RestStep(n, count, h, k)
  BY <1>2, Zenon DEF IsRest
<1> DEFINE S == {k \in Nat : k <= N => Rest(n, count, h[k], k)}
<1>4. 0 \in S
  <2>1. h[0] = [items |-> <<>>, count |-> count]
    BY <1>1, <1>3 DEF RestStep
  <2> QED
    BY <2>1, RestInit
<1>5. ASSUME NEW k \in S PROVE k + 1 \in S
  <2> SUFFICES ASSUME k + 1 <= N PROVE Rest(n, count, h[k + 1], k + 1)
    OBVIOUS
  <2>1. k \in Nat /\ Rest(n, count, h[k], k)
    BY <1>1
  <2>2. k + 1 \in 0 .. N /\ k + 1 # 0 /\ (k + 1) - 1 = k
    BY <1>1, <2>1
  <2>3. h[k + 1] = DeleteFrame(n, h[k], k + 1)
    BY <1>3, <2>2 DEF RestStep
  <2> HIDE DEF S
  <2> QED
    BY <2>1, <2>3, RestNext
<1>6. S = Nat
  <2>1. S \in SUBSET Nat
    OBVIOUS
  <2> HIDE DEF S
  <2> QED
    BY <1>4, <1>5, <2>1, SetInduction
<1>7. Rest(n, count, h[N], N)
  <2>1. N \in S
    BY <1>1, <1>6
  <2> QED
    BY <1>1, <2>1
<1> DEFINE left == h[N].items
<1>8. \A m : QueuedUpTo(N, m) = Queued(items, frontIndex, m)
  BY <1>1 DEF QueuedUpTo, Queued
<1>9. left \in Seq(Comp) /\ frontIndex <= Len(left) /\ h[N].count \in 0 .. count
  BY <1>1, <1>7 DEF Rest
<1>10. \A m \in Comp : Cardinality(Queued(items, frontIndex, m)) =
          Cardinality(Queued(left, frontIndex, m)) + (IF m = n THEN count - h[N].count ELSE 0)
  BY <1>7, <1>8 DEF Rest
<1>11. \A m : Cardinality(Queued(left, frontIndex, m)) \in Nat
  <2>1. Len(left) \in Nat
    BY <1>9
  <2> QED
    BY <2>1, PlacesAreFinite
<1>12. h[N].count = 0
  <2> SUFFICES ASSUME h[N].count > 0 PROVE FALSE
    BY <1>9
  <2>1. Cardinality(Queued(left, frontIndex, n)) = 0
    BY <1>7 DEF Rest
  <2>2. Cardinality(Queued(items, frontIndex, n)) = count - h[N].count
    BY <1>9, <1>10, <2>1
  <2> QED
    BY <1>9, <2>2
<1> HIDE DEF left
<1>13. ASSUME NEW m \in Comp
       PROVE  Cardinality(Queued(left, frontIndex, m)) =
                  Cardinality(Queued(items, frontIndex, m)) - (IF m = n THEN count ELSE 0)
  BY <1>10, <1>11, <1>12
<1> QED
  BY <1>2, <1>9, <1>13 DEF left

-----------------------------------------------------------------------------
(* The operations on frames keep the counts. *)

\* What the new stack and the new queue have to be, for the counts to stay exact.
LEMMA CountsFollow ==
    ASSUME IsQueue(items', frontIndex'), stack' \in Seq([node : Comp, kind : FrameKinds]),
           asks' \in [Caller -> Comp],
           totalFramesCount \in [Comp -> Nat], queuedLateInitsCount \in [Comp -> Nat],
           NEW n \in Comp, NEW t \in Int, NEW q \in Int,
           totalFramesCount' = [totalFramesCount EXCEPT ![n] = @ + t],
           queuedLateInitsCount' = [queuedLateInitsCount EXCEPT ![n] = @ + q],
           \A m \in Comp : Cardinality(Queued(items', frontIndex', m)) =
                               queuedLateInitsCount[m] + (IF m = n THEN q ELSE 0),
           \A m \in Comp : Cardinality(FramesIn(stack', m)) =
                               totalFramesCount[m] - queuedLateInitsCount[m] + (IF m = n THEN t - q ELSE 0)
    PROVE  FInv'
<1>1. \A m \in Comp : /\ totalFramesCount'[m] = totalFramesCount[m] + (IF m = n THEN t ELSE 0)
                      /\ queuedLateInitsCount'[m] = queuedLateInitsCount[m] + (IF m = n THEN q ELSE 0)
                      /\ totalFramesCount[m] \in Nat /\ queuedLateInitsCount[m] \in Nat
  OBVIOUS
<1>2. \A m \in Comp : /\ Cardinality(Queued(items', frontIndex', m)) \in Nat
                      /\ Cardinality(FramesIn(stack', m)) \in Nat
  <2>1. Len(items') \in Nat /\ Len(stack') \in Nat
    BY SMTT(30) DEF IsQueue
  <2> QED
    BY <2>1, PlacesAreFinite
<1>3. ASSUME NEW m \in Comp
      PROVE  /\ queuedLateInitsCount'[m] = Cardinality(Queued(items', frontIndex', m))
             /\ totalFramesCount'[m] = Cardinality(FramesIn(stack', m)) + queuedLateInitsCount'[m]
             /\ queuedLateInitsCount'[m] \in Nat /\ totalFramesCount'[m] \in Nat
  <2>1. /\ Cardinality(Queued(items', frontIndex', m)) = queuedLateInitsCount[m] + (IF m = n THEN q ELSE 0)
        /\ Cardinality(FramesIn(stack', m)) =
               totalFramesCount[m] - queuedLateInitsCount[m] + (IF m = n THEN t - q ELSE 0)
    OBVIOUS
  <2>2. queuedLateInitsCount'[m] = Cardinality(Queued(items', frontIndex', m))
    BY <1>1, <2>1, Zenon
  <2>3. totalFramesCount'[m] = Cardinality(FramesIn(stack', m)) + queuedLateInitsCount'[m]
    <3>1. CASE m = n
      <4>1. /\ totalFramesCount'[m] = totalFramesCount[m] + t /\ queuedLateInitsCount'[m] = queuedLateInitsCount[m] + q
            /\ Cardinality(FramesIn(stack', m)) = totalFramesCount[m] - queuedLateInitsCount[m] + (t - q)
            /\ totalFramesCount[m] \in Nat /\ queuedLateInitsCount[m] \in Nat
        BY <1>1, <2>1, <3>1
      <4> QED
        BY <4>1
    <3>2. CASE m # n
      <4>1. /\ totalFramesCount'[m] = totalFramesCount[m] + 0 /\ queuedLateInitsCount'[m] = queuedLateInitsCount[m] + 0
            /\ Cardinality(FramesIn(stack', m)) = totalFramesCount[m] - queuedLateInitsCount[m] + 0
            /\ totalFramesCount[m] \in Nat /\ queuedLateInitsCount[m] \in Nat
        BY <1>1, <2>1, <3>2
      <4> QED
        BY <4>1
    <3> QED
      BY <3>1, <3>2
  <2>4. Cardinality(FramesIn(stack', m)) \in Nat /\ queuedLateInitsCount'[m] \in Nat
    BY <1>2, <2>2
  <2>5. totalFramesCount'[m] \in Nat
    BY <2>3, <2>4
  <2> QED
    BY <2>2, <2>3, <2>4, <2>5, Zenon
<1>4. totalFramesCount' \in [Comp -> Nat] /\ queuedLateInitsCount' \in [Comp -> Nat]
  <2>1. /\ totalFramesCount' = [m \in Comp |-> totalFramesCount'[m]]
        /\ queuedLateInitsCount' = [m \in Comp |-> queuedLateInitsCount'[m]]
    OBVIOUS
  <2> QED
    BY <1>3, <2>1
<1> QED
  BY <1>3, <1>4 DEF FInv, Counted

LEMMA FramesInitOK == Init => FInv
<1> SUFFICES ASSUME Init PROVE FInv
  OBVIOUS
<1>1. items = <<>> /\ stack = <<>> /\ frontIndex = -1
  BY DEF Init, FramesInit
<1>2. \A n : Queued(items, frontIndex, n) = {} /\ FramesIn(stack, n) = {}
  BY <1>1 DEF Queued, FramesIn
<1>3. IsQueue(items, frontIndex) /\ stack \in Seq([node : Comp, kind : FrameKinds])
  BY <1>1 DEF IsQueue
<1>4. asks \in [Caller -> Comp]
  BY RegistryAssumption DEF Init
<1>5. Counted
  <2>1. \A n \in Comp : totalFramesCount[n] = 0 /\ queuedLateInitsCount[n] = 0
    BY DEF Init, FramesInit
  <2>2. \A n : Cardinality(Queued(items, frontIndex, n)) = 0 /\ Cardinality(FramesIn(stack, n)) = 0
    BY <1>2, FS_EmptySet
  <2> QED
    BY <2>1, <2>2 DEF Counted
<1> QED
  BY <1>3, <1>4, <1>5 DEF FInv, Init, FramesInit

LEMMA PushProviderFrameOK ==
    ASSUME FInv, asks' = asks, NEW n \in Comp, PushProviderFrame(n)
    PROVE  FInv'
<1>1. /\ stack' = Append(stack, Frame(n, "called")) /\ items' = items /\ frontIndex' = frontIndex
      /\ totalFramesCount' = [totalFramesCount EXCEPT ![n] = @ + 1]
      /\ queuedLateInitsCount' = queuedLateInitsCount
  BY DEF PushProviderFrame, lateInitsQueue
<1>2. Frame(n, "called") \in [node : Comp, kind : FrameKinds] /\ Frame(n, "called").node = n
  BY DEF Frame, FrameKinds
<1>3. stack' \in Seq([node : Comp, kind : FrameKinds])
  BY <1>1, <1>2 DEF FInv
<1>4. ASSUME NEW m \in Comp
      PROVE  /\ Cardinality(FramesIn(stack', m)) =
                    totalFramesCount[m] - queuedLateInitsCount[m] + (IF m = n THEN 1 - 0 ELSE 0)
             /\ Cardinality(Queued(items', frontIndex', m)) =
                    queuedLateInitsCount[m] + (IF m = n THEN 0 ELSE 0)
  <2>1. Cardinality(FramesIn(stack', m)) = Cardinality(FramesIn(stack, m)) + (IF n = m THEN 1 ELSE 0)
    BY <1>1, <1>2, FramesAppend DEF FInv
  <2>2. Len(stack) \in Nat
    BY DEF FInv
  <2>3. Cardinality(FramesIn(stack, m)) \in Nat /\ queuedLateInitsCount[m] \in Nat
    BY <2>2, PlacesAreFinite DEF FInv
  <2>4. totalFramesCount[m] = Cardinality(FramesIn(stack, m)) + queuedLateInitsCount[m]
        /\ queuedLateInitsCount[m] = Cardinality(Queued(items, frontIndex, m))
    BY DEF FInv, Counted
  <2> QED
    BY <1>1, <2>1, <2>3, <2>4
<1>5. queuedLateInitsCount' = [queuedLateInitsCount EXCEPT ![n] = @ + 0]
  BY <1>1 DEF FInv
<1> DEFINE t == 1
           q == 0
<1>11. t \in Int /\ q \in Int /\ asks' \in [Caller -> Comp] /\ n \in Comp
      /\ totalFramesCount \in [Comp -> Nat] /\ queuedLateInitsCount \in [Comp -> Nat]
  BY DEF FInv
<1>12. /\ totalFramesCount' = [totalFramesCount EXCEPT ![n] = @ + t]
      /\ queuedLateInitsCount' = [queuedLateInitsCount EXCEPT ![n] = @ + q]
  BY <1>1, <1>5
<1>13. /\ \A m \in Comp : Cardinality(Queued(items', frontIndex', m)) =
                               queuedLateInitsCount[m] + (IF m = n THEN q ELSE 0)
      /\ \A m \in Comp : Cardinality(FramesIn(stack', m)) =
                               totalFramesCount[m] - queuedLateInitsCount[m] + (IF m = n THEN t - q ELSE 0)
  BY <1>4
<1> HIDE DEF t, q
<1>14. IsQueue(items', frontIndex') /\ stack' \in Seq([node : Comp, kind : FrameKinds])
  BY <1>1, <1>3 DEF FInv
<1> QED
  BY <1>11, <1>12, <1>13, <1>14, CountsFollow, Zenon

LEMMA LateInitQueuePushOK ==
    ASSUME FInv, asks' = asks, NEW n \in Comp, LateInitQueuePush(n)
    PROVE  FInv'
<1>1. /\ stack' = stack /\ items' = Append(items, n)
      /\ frontIndex' = IF frontIndex < 0 THEN 0 ELSE frontIndex
      /\ totalFramesCount' = [totalFramesCount EXCEPT ![n] = @ + 1]
      /\ queuedLateInitsCount' = [queuedLateInitsCount EXCEPT ![n] = @ + 1]
  BY DEF LateInitQueuePush, Push
<1>2. items \in Seq(Comp) /\ frontIndex \in -1 .. Len(items) /\ (frontIndex = -1 => items = <<>>)
  BY DEF FInv, IsQueue
<1>3. frontIndex' \in 0 .. Len(items) /\ Len(items) \in Nat
  BY <1>1, <1>2
<1>4. IsQueue(items', frontIndex')
  BY <1>1, <1>2, <1>3 DEF IsQueue
<1>5. ASSUME NEW m \in Comp
      PROVE  /\ Cardinality(FramesIn(stack', m)) =
                    totalFramesCount[m] - queuedLateInitsCount[m] + (IF m = n THEN 1 - 1 ELSE 0)
             /\ Cardinality(Queued(items', frontIndex', m)) =
                    queuedLateInitsCount[m] + (IF m = n THEN 1 ELSE 0)
  <2>1. Queued(items, frontIndex', m) = Queued(items, frontIndex, m)
    BY <1>1, <1>2 DEF Queued
  <2>2. Cardinality(Queued(items', frontIndex', m)) =
            Cardinality(Queued(items, frontIndex', m)) + (IF n = m THEN 1 ELSE 0)
    <3>1. frontIndex' \in -1 .. Len(items)
      BY <1>3
    <3> QED
      BY <1>1, <1>2, <3>1, QueuedAppend
  <2>3. Len(stack) \in Nat
    BY DEF FInv
  <2>4. Cardinality(FramesIn(stack, m)) \in Nat /\ queuedLateInitsCount[m] \in Nat
    BY <2>3, PlacesAreFinite DEF FInv
  <2>5. totalFramesCount[m] = Cardinality(FramesIn(stack, m)) + queuedLateInitsCount[m]
        /\ queuedLateInitsCount[m] = Cardinality(Queued(items, frontIndex, m))
    BY DEF FInv, Counted
  <2> QED
    BY <1>1, <2>1, <2>2, <2>4, <2>5
<1> DEFINE t == 1
           q == 1
<1>11. t \in Int /\ q \in Int /\ asks' \in [Caller -> Comp] /\ n \in Comp
      /\ totalFramesCount \in [Comp -> Nat] /\ queuedLateInitsCount \in [Comp -> Nat]
  BY DEF FInv
<1>12. /\ totalFramesCount' = [totalFramesCount EXCEPT ![n] = @ + t]
      /\ queuedLateInitsCount' = [queuedLateInitsCount EXCEPT ![n] = @ + q]
  BY <1>1
<1>13. /\ \A m \in Comp : Cardinality(Queued(items', frontIndex', m)) =
                               queuedLateInitsCount[m] + (IF m = n THEN q ELSE 0)
      /\ \A m \in Comp : Cardinality(FramesIn(stack', m)) =
                               totalFramesCount[m] - queuedLateInitsCount[m] + (IF m = n THEN t - q ELSE 0)
  BY <1>5
<1> HIDE DEF t, q
<1>14. IsQueue(items', frontIndex') /\ stack' \in Seq([node : Comp, kind : FrameKinds])
  BY <1>4, <1>1 DEF FInv
<1> QED
  BY <1>11, <1>12, <1>13, <1>14, CountsFollow, Zenon

\* A late init goes from the front of the queue to the stack.
LEMMA PushQueuedOK ==
    ASSUME FInv, asks' = asks, QueueLen > 0, PushQueuedLateInitFrameToStack
    PROVE  FInv'
<1> DEFINE f == frontIndex + 1
           n == items[f]
<1>1. items \in Seq(Comp) /\ frontIndex \in -1 .. Len(items) /\ Len(items) \in Nat
  BY DEF FInv, IsQueue
<1>2. frontIndex \in Nat /\ f \in 1 .. Len(items)
  BY <1>1 DEF QueueLen, QueueLength
<1>3. n \in Comp
  BY <1>1, <1>2
<1>4. /\ stack' = Append(stack, Frame(n, "lateInit"))
      /\ queuedLateInitsCount' = [queuedLateInitsCount EXCEPT ![n] = @ - 1]
      /\ totalFramesCount' = totalFramesCount
      /\ \/ QueueLen = 1 /\ items' = <<>> /\ frontIndex' = -1
         \/ QueueLen # 1 /\ frontIndex' = f /\ items' = items
  BY DEF PushQueuedLateInitFrameToStack, PopFront
<1>5. IsQueue(items', frontIndex')
  <2>1. CASE items' = <<>> /\ frontIndex' = -1
    BY <2>1 DEF IsQueue
  <2>2. CASE frontIndex' = f /\ items' = items
    <3>1. f \in -1 .. Len(items) /\ f # -1
      BY <1>2
    <3> QED
      BY <1>1, <2>2, <3>1 DEF IsQueue
  <2> QED
    BY <1>4, <2>1, <2>2
<1>6. ASSUME NEW m PROVE Queued(items', frontIndex', m) = Queued(items, frontIndex, m) \ {f}
  <2>1. CASE QueueLen = 1
    <3>1. Len(items) = f
      BY <1>1, <1>2, <2>1 DEF QueueLen, QueueLength
    <3> QED
      BY <1>1, <1>2, <1>4, <2>1, <3>1 DEF Queued
  <2>2. CASE QueueLen # 1
    BY <1>1, <1>2, <1>4, <2>2 DEF Queued
  <2> QED
    BY <2>1, <2>2
<1> HIDE DEF n
<1>7. Frame(n, "lateInit") \in [node : Comp, kind : FrameKinds] /\ Frame(n, "lateInit").node = n
  BY <1>3 DEF Frame, FrameKinds
<1>8. stack' \in Seq([node : Comp, kind : FrameKinds])
  BY <1>4, <1>7 DEF FInv
<1>9. ASSUME NEW m \in Comp
      PROVE  /\ Cardinality(FramesIn(stack', m)) =
                    totalFramesCount[m] - queuedLateInitsCount[m] + (IF m = n THEN 0 - (-1) ELSE 0)
             /\ Cardinality(Queued(items', frontIndex', m)) =
                    queuedLateInitsCount[m] + (IF m = n THEN -1 ELSE 0)
  <2>1. Cardinality(FramesIn(stack', m)) = Cardinality(FramesIn(stack, m)) + (IF n = m THEN 1 ELSE 0)
    BY <1>4, <1>7, FramesAppend DEF FInv
  <2>2. f \in Queued(items, frontIndex, m) <=> m = n
    BY <1>1, <1>2 DEF Queued, n
  <2>3. IsFiniteSet(Queued(items, frontIndex, m)) /\ Cardinality(Queued(items, frontIndex, m)) \in Nat
    BY <1>1, PlacesAreFinite
  <2>4. Cardinality(Queued(items', frontIndex', m)) =
            Cardinality(Queued(items, frontIndex, m)) + (IF m = n THEN -1 ELSE 0)
    BY <1>6, <2>2, <2>3, FS_RemoveElement
  <2>5. Len(stack) \in Nat
    BY DEF FInv
  <2>6. Cardinality(FramesIn(stack, m)) \in Nat /\ queuedLateInitsCount[m] \in Nat
    BY <2>5, PlacesAreFinite DEF FInv
  <2>7. totalFramesCount[m] = Cardinality(FramesIn(stack, m)) + queuedLateInitsCount[m]
        /\ queuedLateInitsCount[m] = Cardinality(Queued(items, frontIndex, m))
    BY DEF FInv, Counted
  <2> QED
    BY <2>1, <2>4, <2>6, <2>7
<1>10. /\ queuedLateInitsCount' = [queuedLateInitsCount EXCEPT ![n] = @ + -1]
       /\ totalFramesCount' = [totalFramesCount EXCEPT ![n] = @ + 0]
  <2>1. totalFramesCount \in [Comp -> Nat] /\ queuedLateInitsCount[n] \in Nat
    BY <1>3 DEF FInv
  <2>2. queuedLateInitsCount[n] - 1 = queuedLateInitsCount[n] + -1
    BY <2>1
  <2>3. [totalFramesCount EXCEPT ![n] = @ + 0] = totalFramesCount
    BY <2>1
  <2> QED
    BY <1>4, <2>2, <2>3
<1> DEFINE t == 0
           q == -1
<1>11. t \in Int /\ q \in Int /\ asks' \in [Caller -> Comp] /\ n \in Comp
      /\ totalFramesCount \in [Comp -> Nat] /\ queuedLateInitsCount \in [Comp -> Nat]
  BY <1>3 DEF FInv
<1>12. /\ totalFramesCount' = [totalFramesCount EXCEPT ![n] = @ + t]
      /\ queuedLateInitsCount' = [queuedLateInitsCount EXCEPT ![n] = @ + q]
  BY <1>10
<1>13. /\ \A m \in Comp : Cardinality(Queued(items', frontIndex', m)) =
                               queuedLateInitsCount[m] + (IF m = n THEN q ELSE 0)
      /\ \A m \in Comp : Cardinality(FramesIn(stack', m)) =
                               totalFramesCount[m] - queuedLateInitsCount[m] + (IF m = n THEN t - q ELSE 0)
  BY <1>9
<1> HIDE DEF t, q
<1>14. IsQueue(items', frontIndex') /\ stack' \in Seq([node : Comp, kind : FrameKinds])
  BY <1>5, <1>8 DEF FInv
<1> QED
  BY <1>11, <1>12, <1>13, <1>14, CountsFollow, Zenon

\* The frame on top, and what an error takes with it.
LEMMA PopTopFrameOK ==
    ASSUME FInv, asks' = asks, stack # <<>>, NEW err, PopTopFrame(err)
    PROVE  FInv'
<1> DEFINE n == Top.node
           d == Dropped(n, err)
           left == ItemsWithout(n, d)
<1>1. items \in Seq(Comp) /\ frontIndex \in -1 .. Len(items) /\ Len(items) \in Nat
      /\ (frontIndex = -1 => items = <<>>)
  BY DEF FInv, IsQueue
<1>2. /\ Below \in Seq([node : Comp, kind : FrameKinds]) /\ n \in Comp
      /\ \A m : Cardinality(FramesIn(stack, m)) =
                    Cardinality(FramesIn(Below, m)) + (IF n = m THEN 1 ELSE 0)
  BY FramesBelow DEF FInv
<1>3. d \in Nat /\ d <= Cardinality(Queued(items, frontIndex, n))
  BY <1>2 DEF Dropped, FInv, Counted
<1>4. /\ stack' = Below
      /\ totalFramesCount' = [totalFramesCount EXCEPT ![n] = @ - 1 - d]
      /\ queuedLateInitsCount' = [queuedLateInitsCount EXCEPT ![n] = @ - d]
      /\ \/ items' = left /\ frontIndex' = frontIndex
         \/ items' = left /\ frontIndex' = -1 /\ left = <<>>
         \/ items' = <<>> /\ frontIndex' = -1 /\ (left = <<>> \/ QueueLength(frontIndex, left) = 0)
  BY DEF PopTopFrame
<1> HIDE DEF n, d, left
<1>5. /\ left \in Seq(Comp) /\ Len(left) \in Nat /\ frontIndex <= Len(left)
      /\ \A m \in Comp : Cardinality(Queued(left, frontIndex, m)) =
             Cardinality(Queued(items, frontIndex, m)) - (IF m = n THEN d ELSE 0)
  BY <1>2, <1>3, DeletesExactly DEF left
<1>6. frontIndex = -1 => left = <<>>
  <2> SUFFICES ASSUME frontIndex = -1, Len(left) # 0 PROVE FALSE
    BY <1>5
  <2>1. left[1] \in Comp /\ 1 \in Queued(left, frontIndex, left[1])
    BY <1>5 DEF Queued
  <2>2. Queued(items, frontIndex, left[1]) = {}
    BY <1>1 DEF Queued
  <2>3. Cardinality(Queued(items, frontIndex, left[1])) = 0
    BY <2>2, FS_EmptySet
  <2>4. Cardinality(Queued(left, frontIndex, left[1])) \in Nat /\ IsFiniteSet(Queued(left, frontIndex, left[1]))
    BY <1>5, PlacesAreFinite
  <2>5. Cardinality(Queued(left, frontIndex, left[1])) = 0
    BY <1>3, <1>5, <2>1, <2>3, <2>4
  <2> QED
    BY <2>1, <2>4, <2>5, FS_EmptySet
<1>7. IsQueue(items', frontIndex') /\ \A m : Queued(items', frontIndex', m) = Queued(left, frontIndex, m)
  <2>1. CASE items' = left /\ frontIndex' = frontIndex
    BY <1>1, <1>5, <1>6, <2>1 DEF IsQueue
  <2>2. CASE left = <<>> /\ items' = <<>> /\ frontIndex' = -1
    BY <2>2 DEF IsQueue, Queued
  <2>3. CASE QueueLength(frontIndex, left) = 0 /\ items' = <<>> /\ frontIndex' = -1
    <3>1. Len(left) <= frontIndex \/ left = <<>>
      BY <1>1, <1>5, <1>6, <2>3 DEF QueueLength
    <3>2. \A m : Queued(left, frontIndex, m) = {}
      BY <1>1, <1>5, <3>1 DEF Queued
    <3>3. \A m : Queued(<<>>, -1, m) = {}
      BY DEF Queued
    <3>4. IsQueue(<<>>, -1)
      BY DEF IsQueue
    <3> QED
      BY <2>3, <3>2, <3>3, <3>4, Zenon
  <2> QED
    BY <1>4, <2>1, <2>2, <2>3
<1>8. ASSUME NEW m \in Comp
      PROVE  /\ Cardinality(FramesIn(stack', m)) =
                    totalFramesCount[m] - queuedLateInitsCount[m] + (IF m = n THEN (-1 - d) - (-d) ELSE 0)
             /\ Cardinality(Queued(items', frontIndex', m)) =
                    queuedLateInitsCount[m] + (IF m = n THEN -d ELSE 0)
  <2>1. Cardinality(FramesIn(stack, m)) = Cardinality(FramesIn(stack', m)) + (IF n = m THEN 1 ELSE 0)
    BY <1>2, <1>4
  <2>2. Len(Below) \in Nat
    BY <1>2
  <2>3. Cardinality(FramesIn(stack', m)) \in Nat /\ queuedLateInitsCount[m] \in Nat
    BY <1>4, <2>2, PlacesAreFinite DEF FInv
  <2>4. totalFramesCount[m] = Cardinality(FramesIn(stack, m)) + queuedLateInitsCount[m]
        /\ queuedLateInitsCount[m] = Cardinality(Queued(items, frontIndex, m))
    BY DEF FInv, Counted
  <2>5. Cardinality(Queued(items', frontIndex', m)) =
            Cardinality(Queued(items, frontIndex, m)) - (IF m = n THEN d ELSE 0)
    BY <1>5, <1>7
  <2> QED
    BY <1>3, <2>1, <2>3, <2>4, <2>5
<1>9. /\ totalFramesCount' = [totalFramesCount EXCEPT ![n] = @ + (-1 - d)]
      /\ queuedLateInitsCount' = [queuedLateInitsCount EXCEPT ![n] = @ + (-d)]
  <2>1. totalFramesCount[n] \in Nat /\ queuedLateInitsCount[n] \in Nat
    BY <1>2 DEF FInv
  <2>2. /\ totalFramesCount[n] - 1 - d = totalFramesCount[n] + (-1 - d)
        /\ queuedLateInitsCount[n] - d = queuedLateInitsCount[n] + (-d)
    BY <1>3, <2>1
  <2> QED
    BY <1>4, <2>2
<1>10. -1 - d \in Int /\ -d \in Int
  BY <1>3
<1> DEFINE t == -1 - d
           q == -d
<1>11. t \in Int /\ q \in Int /\ asks' \in [Caller -> Comp] /\ n \in Comp
      /\ totalFramesCount \in [Comp -> Nat] /\ queuedLateInitsCount \in [Comp -> Nat]
  BY <1>2, <1>10 DEF FInv
<1>12. /\ totalFramesCount' = [totalFramesCount EXCEPT ![n] = @ + t]
      /\ queuedLateInitsCount' = [queuedLateInitsCount EXCEPT ![n] = @ + q]
  BY <1>9
<1>13. /\ \A m \in Comp : Cardinality(Queued(items', frontIndex', m)) =
                               queuedLateInitsCount[m] + (IF m = n THEN q ELSE 0)
      /\ \A m \in Comp : Cardinality(FramesIn(stack', m)) =
                               totalFramesCount[m] - queuedLateInitsCount[m] + (IF m = n THEN t - q ELSE 0)
  BY <1>8
<1> HIDE DEF t, q
<1>14. IsQueue(items', frontIndex') /\ stack' \in Seq([node : Comp, kind : FrameKinds])
  BY <1>7, <1>2, <1>4 DEF FInv
<1> QED
  BY <1>11, <1>12, <1>13, <1>14, CountsFollow, Zenon

\* The provider's frame takes the place of the one that was pushed when it was called.
LEMMA ProviderRunsOK ==
    ASSUME FInv, stack # <<>>, stack' = Append(Below, Frame(Top.node, "provider")),
           UNCHANGED <<lateInitsQueue, stats, asks>>
    PROVE  FInv'
<1> DEFINE F == [node : Comp, kind : FrameKinds]
           new == Frame(Top.node, "provider")
<1>1. Top \in F /\ Below \in Seq(F)
  BY FramesBelow DEF FInv
<1>2. new \in F /\ new.node = Top.node
  BY <1>1 DEF Frame, FrameKinds
<1>3. stack' \in Seq(F)
  BY <1>1, <1>2
<1>4. \A m : Cardinality(FramesIn(stack', m)) = Cardinality(FramesIn(stack, m))
  BY <1>1, <1>2, FramesAppend, FramesBelow, ZenonT(60) DEF FInv
<1> QED
  BY <1>3, <1>4 DEF FInv, Counted, lateInitsQueue, stats

LEMMA FramesNext == FInv /\ [Next]_vars => FInv'
<1> SUFFICES ASSUME FInv, [Next]_vars PROVE FInv'
  OBVIOUS
<1>1. ASSUME UNCHANGED frames, asks' \in [Caller -> Comp] PROVE FInv'
  BY <1>1 DEF FInv, Counted, IsQueue, frames, lateInitsQueue, stats
<1>2. CASE UNCHANGED vars \/ AllAnswered
  BY <1>1, <1>2 DEF FInv, vars, AllAnswered, callers
<1>3. ASSUME NEW g \in Caller, Ask(g, asks[g]) PROVE FInv'
  <2>1. UNCHANGED frames /\ asks' = [asks EXCEPT ![g] = asks[g]]
    BY <1>3 DEF Ask
  <2> QED
    BY <1>1, <2>1 DEF FInv
<1>4. ASSUME NEW g \in Caller, EnterChain(g) PROVE FInv'
  <2>1. CASE UNCHANGED frames
    BY <1>1, <1>4, <2>1 DEF FInv, EnterChain
  <2>2. CASE PushProviderFrame(asks[g])
    BY <1>4, <2>2, PushProviderFrameOK DEF FInv, EnterChain
  <2> QED
    BY <1>4, <2>1, <2>2 DEF EnterChain
<1>5. ASSUME NEW g \in Caller, EndChain(g) PROVE FInv'
  BY <1>1, <1>5 DEF FInv, EndChain
<1>6. ASSUME NEW m \in Comp, Call(m) PROVE FInv'
  <2>1. CASE UNCHANGED frames
    BY <1>1, <1>6, <2>1 DEF FInv, Call, callers
  <2>2. CASE PushProviderFrame(m)
    BY <1>6, <2>2, PushProviderFrameOK DEF Call, callers
  <2> QED
    BY <1>6, <2>1, <2>2 DEF Call
<1>7. CASE UseLateInit
  <2>1. Top.node \in Comp
    BY <1>7, FramesBelow DEF FInv, UseLateInit, UserCode
  <2> QED
    BY <1>7, <2>1, LateInitQueuePushOK DEF UseLateInit, callers
<1>8. CASE UseLifecycle
  BY <1>1, <1>8 DEF FInv, UseLifecycle, callers
<1>9. ASSUME NEW err, NEW report, stack # <<>>, ProviderFrameEnds(err, report) PROVE FInv'
  BY <1>9, PopTopFrameOK DEF ProviderFrameEnds, callers
<1>10. CASE StartProviding
  <2>1. stack # <<>>
    BY <1>10 DEF StartProviding
  <2>2. CASE /\ stack' = Append(Below, Frame(Top.node, "provider"))
             /\ UNCHANGED <<lateInitsQueue, stats, callers>>
    BY <2>1, <2>2, ProviderRunsOK DEF callers
  <2> QED
    BY <1>9, <1>10, <2>1, <2>2 DEF StartProviding
<1>11. CASE ProviderReturns
  BY <1>9, <1>11 DEF ProviderReturns, UserCode
<1>12. CASE ProviderPanics
  BY <1>9, <1>12 DEF ProviderPanics, UserCode
<1>13. CASE LateInitReturns
  <2>1. PICK err : PopTopFrame(err)
    BY <1>13 DEF LateInitReturns
  <2> QED
    BY <1>13, <2>1, PopTopFrameOK DEF LateInitReturns, UserCode, callers
<1>14. CASE GetterReturns
  BY <1>1, <1>14 DEF FInv, GetterReturns, callers
<1>15. CASE RemovePending
  BY <1>1, <1>15 DEF FInv, RemovePending, callers
<1>16. CASE ExecuteQueuedLateInit
  BY <1>16, PushQueuedOK DEF ExecuteQueuedLateInit, callers
<1> QED
  BY <1>2, <1>3, <1>4, <1>5, <1>6, <1>7, <1>8, <1>10, <1>11, <1>12, <1>13, <1>14, <1>15, <1>16 DEF Next

\* node_frames.go:100: after any sequence of pushes, pops and deletions, of any number of
\* components, the counts by which the registry tells that a component's last frame is
\* over are those of the stack and of the queue.
THEOREM StatsAreExact == Spec => []StatsExact
<1>1. Spec => []FInv
  BY FramesInitOK, FramesNext, PTL DEF Spec
<1> QED
  BY <1>1, CountsFit, PTL

-----------------------------------------------------------------------------
(* A registered component stays as it is. *)

Frames == [node : Comp, kind : FrameKinds]
Places(st, n, kind) == {i \in 1 .. Len(st) : st[i] = Frame(n, kind)}
Providing(n) == Places(stack, n, "provider")
InLateInit(n) == Places(stack, n, "lateInit")

\* Nothing of the component is left to run.
Over(n) ==
    /\ providingState[n] = "provided"
    /\ Providing(n) = {} /\ InLateInit(n) = {} /\ queuedLateInitsCount[n] = 0

\* The frames of a component fit the state of its provider.
FramesFit(n) ==
    /\ providingState[n] = "inProgress" => Providing(n) # {}
    /\ InLateInit(n) # {} => providingState[n] = "provided"
    /\ Providing(n) # {} \/ queuedLateInitsCount[n] # 0 => providingState[n] # "none"
    /\ n \notin cycled => /\ Providing(n) # {} => providingState[n] = "inProgress"
                          /\ \A i, j \in Providing(n) : i = j

\* What is registered, or waits for other components, has nothing left to run; what is
\* neither has a record.
OverIfRegistered(n) ==
    n \notin cycled =>
        /\ IsRegistered(n) => Over(n) /\ ~IsPending(n)
        /\ IsPending(n) /\ pending[n].waitsForDepsCount # waitsForOwnFrames => Over(n)
        /\ providedErr[n] => Over(n)
        /\ totalFramesCount[n] # 0 => IsPending(n) \/ Over(n)

IsRec(r) == "waitsForDepsCount" \in DOMAIN r
RecordsOK(recs) == DOMAIN recs \subseteq Comp /\ \A n \in DOMAIN recs : IsRec(recs[n])

RemoveCalls == [node : Comp, err : BOOLEAN, isLateInitErr : BOOLEAN, report : BOOLEAN]
CallsOver == {c \in RemoveCalls : c.node \in cycled \/ Over(c.node)}

Types ==
    /\ providingState \in [Comp -> {"none", "inProgress", "provided"}]
    /\ providedErr \in [Comp -> BOOLEAN] /\ regState \in [Comp -> {"none", "withLcHooks", "withNoLcHooks"}]
    /\ nodeDependsOn = [n \in Comp |-> nodeDependsOn[n]]
    /\ cycled \subseteq Comp
    /\ RecordsOK(pending)

RInv ==
    /\ FInv /\ Types
    /\ \A n \in Comp : FramesFit(n) /\ OverIfRegistered(n)
    /\ removing \in Seq(SUBSET CallsOver)

LEMMA PlacesAppend ==
    ASSUME NEW st \in Seq(Frames), NEW f \in Frames, NEW n, NEW kind
    PROVE  Places(Append(st, f), n, kind) =
               Places(st, n, kind) \cup (IF f = Frame(n, kind) THEN {Len(st) + 1} ELSE {})
<1>1. /\ Len(Append(st, f)) = Len(st) + 1 /\ Len(st) \in Nat
      /\ \A i \in 1 .. Len(st) : Append(st, f)[i] = st[i]
      /\ Append(st, f)[Len(st) + 1] = f
  OBVIOUS
<1> DEFINE k == Len(st) + 1
<1>2. \A i : i \in 1 .. k <=> i \in 1 .. Len(st) \/ i = k
  BY <1>1
<1>3. \A i \in 1 .. Len(st) : i # k
  BY <1>1
<1> QED
  BY <1>1, <1>2, <1>3 DEF Places

LEMMA PlacesBelow ==
    ASSUME stack \in Seq(Frames), stack # <<>>, NEW n, NEW kind
    PROVE  Places(Below, n, kind) = Places(stack, n, kind) \ {Len(stack)}
<1> DEFINE k == Len(stack)
<1>1. k \in Nat \ {0} /\ Len(Below) = k - 1 /\ \A i \in 1 .. k - 1 : Below[i] = stack[i]
  BY LastAndFront DEF Below
<1>2. \A i : i \in 1 .. k - 1 <=> i \in 1 .. k /\ i # k
  BY <1>1
<1> QED
  BY <1>1, <1>2 DEF Places

LEMMA TopFrame ==
    ASSUME stack \in Seq(Frames), stack # <<>>
    PROVE  /\ Top = Frame(Top.node, Top.kind) /\ Top \in Frames /\ Top.node \in Comp
           /\ Below \in Seq(Frames) /\ Len(stack) \in Nat \ {0} /\ Len(Below) = Len(stack) - 1
           /\ \A n, kind : Len(stack) \in Places(stack, n, kind) <=> Top = Frame(n, kind)
<1>1. Top \in Frames /\ Below \in Seq(Frames) /\ Len(stack) \in Nat \ {0} /\ Len(Below) = Len(stack) - 1
  BY LastAndFront DEF Top, Below
<1>2. Top = Frame(Top.node, Top.kind) /\ Top.node \in Comp
  BY <1>1 DEF Frames, Frame
<1> QED
  BY <1>1, <1>2 DEF Top, Places

\* A component with no frame in the counts has none on the stack, and none queued.
LEMMA NoFrames ==
    ASSUME FInv, NEW n \in Comp, totalFramesCount[n] = 0
    PROVE  queuedLateInitsCount[n] = 0 /\ Providing(n) = {} /\ InLateInit(n) = {}
<1>1. Len(stack) \in Nat /\ queuedLateInitsCount[n] \in Nat
  BY DEF FInv
<1>2. IsFiniteSet(FramesIn(stack, n)) /\ Cardinality(FramesIn(stack, n)) \in Nat
  BY <1>1, PlacesAreFinite
<1>3. totalFramesCount[n] = Cardinality(FramesIn(stack, n)) + queuedLateInitsCount[n]
  BY DEF FInv, Counted
<1>4. queuedLateInitsCount[n] = 0 /\ Cardinality(FramesIn(stack, n)) = 0
  BY <1>1, <1>2, <1>3
<1>5. FramesIn(stack, n) = {}
  BY <1>2, <1>4, FS_EmptySet
<1>6. \A kind : Places(stack, n, kind) \subseteq FramesIn(stack, n)
  BY DEF Places, FramesIn, Frame
<1> QED
  BY <1>4, <1>5, <1>6 DEF Providing, InLateInit

\* A component that is on the stack has a frame in the counts.
LEMMA HasFrames ==
    ASSUME FInv, NEW n \in Comp, FramesIn(stack, n) # {}
    PROVE  totalFramesCount[n] # 0
<1>1. Len(stack) \in Nat /\ queuedLateInitsCount[n] \in Nat
  BY DEF FInv
<1>2. IsFiniteSet(FramesIn(stack, n)) /\ Cardinality(FramesIn(stack, n)) \in Nat
  BY <1>1, PlacesAreFinite
<1>3. totalFramesCount[n] = Cardinality(FramesIn(stack, n)) + queuedLateInitsCount[n]
  BY DEF FInv, Counted
<1>4. Cardinality(FramesIn(stack, n)) # 0
  BY <1>2, FS_EmptySet
<1> QED
  BY <1>1, <1>2, <1>3, <1>4

LEMMA ToRemoveType ==
    ASSUME NEW T, NEW calls \in SUBSET T, NEW rest \in Seq(SUBSET T)
    PROVE  ToRemove(calls, rest) \in Seq(SUBSET T)
<1>1. <<calls>> \in Seq(SUBSET T)
  OBVIOUS
<1>2. <<calls>> \o rest \in Seq(SUBSET T)
  BY <1>1
<1> QED
  BY <1>2 DEF ToRemove

-----------------------------------------------------------------------------

\* What a step leaves alone of a component; a wait for its own frames does not end.
SamePending(n) ==
    /\ IsPending(n)' <=> IsPending(n)
    /\ IsPending(n) /\ pending'[n].waitsForDepsCount # waitsForOwnFrames
         => pending[n].waitsForDepsCount # waitsForOwnFrames
Same(n) ==
    /\ providingState'[n] = providingState[n] /\ providedErr'[n] = providedErr[n] /\ regState'[n] = regState[n]
    /\ Providing(n)' = Providing(n) /\ InLateInit(n)' = InLateInit(n)
    /\ queuedLateInitsCount'[n] = queuedLateInitsCount[n] /\ totalFramesCount'[n] = totalFramesCount[n]
    /\ n \notin cycled => SamePending(n)

LEMMA SameKeeps ==
    ASSUME NEW n, FramesFit(n), OverIfRegistered(n), Same(n), cycled \subseteq cycled'
    PROVE  FramesFit(n)' /\ OverIfRegistered(n)' /\ (Over(n) <=> Over(n)')
<1>1. FramesFit(n)'
  BY DEF FramesFit, Same
<1>2. Over(n) <=> Over(n)'
  BY DEF Over, Same
<1>3. OverIfRegistered(n)'
  BY <1>2 DEF OverIfRegistered, Same, SamePending, IsRegistered
<1> QED
  BY <1>1, <1>2, <1>3

\* A step of one component: it is enough to look at this one and at what is to be removed.

\* What every step keeps: the invariant, and that a component has ended.
Kept == RInv' /\ \A n \in Comp : Over(n) /\ n \notin cycled' => Over(n)'

LEMMA OneComponent ==
    ASSUME RInv, FInv', Types', cycled \subseteq cycled', NEW x \in Comp,
           \A n \in Comp \ {x} : Same(n),
           FramesFit(x)', OverIfRegistered(x)', Over(x) /\ x \notin cycled' => Over(x)',
           \/ removing' = removing
           \/ \E calls \in SUBSET CallsOver' : removing = <<>> /\ removing' = ToRemove(calls, removing)
    PROVE  Kept
<1>1. \A n \in Comp : FramesFit(n)' /\ OverIfRegistered(n)' /\ (Over(n) /\ n \notin cycled' => Over(n)')
  BY SameKeeps DEF RInv
<1>2. CallsOver \subseteq CallsOver'
  BY <1>1 DEF CallsOver, RemoveCalls
<1>3. removing' \in Seq(SUBSET CallsOver')
  <2>1. CASE removing' = removing
    <3>1. removing \in Seq(SUBSET CallsOver)
      BY DEF RInv
    <3> HIDE DEF CallsOver
    <3>2. \A i \in 1 .. Len(removing) : removing[i] \in SUBSET CallsOver'
      BY <1>2, <3>1
    <3> QED
      BY <2>1, <3>1, <3>2
  <2>2. ASSUME NEW calls \in SUBSET CallsOver', removing = <<>>, removing' = ToRemove(calls, removing)
        PROVE  removing' \in Seq(SUBSET CallsOver')
    <3>1. removing \in Seq(SUBSET CallsOver')
      BY <2>2
    <3> QED
      BY <2>2, <3>1, ToRemoveType
  <2> QED
    BY <2>1, <2>2
<1> QED
  BY <1>1, <1>3 DEF RInv, Kept

LEMMA SameStep ==
    ASSUME RInv, FInv',
           UNCHANGED <<componentNode, stack, stats, pending, removing, cycled>>
    PROVE  Kept
  BY DEF RInv, Types, componentNode, regResult, stats, FramesFit, OverIfRegistered, Over, Providing,
         InLateInit, IsRegistered, IsPending, CallsOver, Kept

LEMMA RegisteredInit == Init => RInv
<1> SUFFICES ASSUME Init PROVE RInv
  OBVIOUS
<1>1. FInv
  BY FramesInitOK
<1>2. Types
  BY DEF Init, NodeInit, PendingInit, Types, RecordsOK
<1>3. ASSUME NEW n \in Comp PROVE FramesFit(n) /\ OverIfRegistered(n)
  <2>1. Providing(n) = {} /\ InLateInit(n) = {}
    BY DEF Init, FramesInit, Providing, InLateInit, Places
  <2> QED
    BY <2>1 DEF Init, NodeInit, FramesInit, PendingInit, FramesFit, OverIfRegistered, IsRegistered, IsPending
<1>4. removing \in Seq(SUBSET CallsOver)
  BY DEF Init, PendingInit
<1> QED
  BY <1>1, <1>2, <1>3, <1>4 DEF RInv

LEMMA Pushed ==
    ASSUME FInv, NEW f \in Frames, stack' = Append(stack, f), NEW n
    PROVE  /\ Providing(n)' = Providing(n) \cup (IF f = Frame(n, "provider") THEN {Len(stack) + 1} ELSE {})
           /\ InLateInit(n)' = InLateInit(n) \cup (IF f = Frame(n, "lateInit") THEN {Len(stack) + 1} ELSE {})
<1>1. stack \in Seq(Frames)
  BY DEF FInv, Frames
<1>2. \A kind : Places(stack', n, kind) =
           Places(stack, n, kind) \cup (IF f = Frame(n, kind) THEN {Len(stack) + 1} ELSE {})
  BY <1>1, PlacesAppend
<1> QED
  BY <1>2 DEF Providing, InLateInit

LEMMA Popped ==
    ASSUME FInv, stack # <<>>, stack' = Below, NEW n
    PROVE  /\ Providing(n)' = Providing(n) \ {Len(stack)}
           /\ InLateInit(n)' = InLateInit(n) \ {Len(stack)}
           /\ n # Top.node => Providing(n)' = Providing(n) /\ InLateInit(n)' = InLateInit(n)
<1>1. stack \in Seq(Frames)
  BY DEF FInv, Frames
<1>2. \A kind : Places(stack', n, kind) = Places(stack, n, kind) \ {Len(stack)}
  BY <1>1, PlacesBelow
<1>3. \A kind : n # Top.node => Len(stack) \notin Places(stack, n, kind)
  BY <1>1, TopFrame DEF Frame
<1> QED
  BY <1>2, <1>3, ZenonT(60) DEF Providing, InLateInit

\* A frame on top of which the code of the component is running.
LEMMA RunsItsCode ==
    ASSUME RInv, stack # <<>>, Top.kind \in {"provider", "lateInit"}
    PROVE  /\ Top.node \in Comp /\ totalFramesCount[Top.node] # 0
           /\ Providing(Top.node) # {} \/ InLateInit(Top.node) # {}
           /\ Top.kind = "provider" <=> Len(stack) \in Providing(Top.node)
           /\ Top.kind = "lateInit" <=> Len(stack) \in InLateInit(Top.node)
           /\ Top.node \notin cycled => IsPending(Top.node) /\ ~IsRegistered(Top.node) /\ ~Over(Top.node)
                                         /\ ~providedErr[Top.node]
                                         /\ pending[Top.node].waitsForDepsCount = waitsForOwnFrames
<1>0. stack \in Seq(Frames) /\ FInv
  BY DEF RInv, FInv, Frames
<1>1. Top.node \in Comp /\ Top = Frame(Top.node, Top.kind)
  BY <1>0, TopFrame
<1>2. /\ Top.kind = "provider" <=> Len(stack) \in Providing(Top.node)
      /\ Top.kind = "lateInit" <=> Len(stack) \in InLateInit(Top.node)
  BY <1>0, <1>1, TopFrame DEF Providing, InLateInit, Frame
<1>3. \A kind : Places(stack, Top.node, kind) \subseteq FramesIn(stack, Top.node)
  BY DEF Places, FramesIn, Frame
<1>4. totalFramesCount[Top.node] # 0
  BY <1>0, <1>1, <1>2, <1>3, HasFrames DEF Providing, InLateInit
<1>5. ~Over(Top.node) /\ (Providing(Top.node) # {} \/ InLateInit(Top.node) # {})
  BY <1>2 DEF Over
<1> QED
  BY <1>1, <1>2, <1>4, <1>5 DEF RInv, OverIfRegistered

LEMMA FieldsSet ==
    ASSUME NEW r, IsRec(r), NEW a, NEW b
    PROVE  /\ IsRec([r EXCEPT !.dependsOn = a, !.dependents = b])
           /\ [r EXCEPT !.dependsOn = a, !.dependents = b].waitsForDepsCount = r.waitsForDepsCount
<1> DEFINE s == [r EXCEPT !.dependsOn = a, !.dependents = b]
<1>1. DOMAIN s = DOMAIN r
  OBVIOUS
<1>2. "waitsForDepsCount" \in DOMAIN r => s["waitsForDepsCount"] = r["waitsForDepsCount"]
  OBVIOUS
<1> QED
  BY <1>1, <1>2 DEF IsRec

\* Add keeps the records as they are but for the links, and adds at most one.
LEMMA AddKeepsRecords ==
    ASSUME RecordsOK(pending), NEW m \in Comp, NEW dependent \in SUBSET Comp, Add(dependent, m),
           \A d \in dependent \ cycled : IsPending(d)
    PROVE  /\ RecordsOK(pending')
           /\ \A n \in Comp \ cycled : n # m => SamePending(n)
           /\ m \notin cycled => \/ IsPending(m)' /\ SamePending(m)
                                 \/ IsRegistered(m) /\ SamePending(m)
                                 \/ ~IsRegistered(m) /\ IsPending(m)' /\ pending'[m].waitsForDepsCount = waitsForOwnFrames
<1>1. CASE regState[m] = "none" /\ ~ \E d \in dependent : regState[m] = "withLcHooks"
  <2> DEFINE known == [n \in DOMAIN pending \cup {m} |->
                            IF IsPending(n) THEN pending[n] ELSE Rec(waitsForOwnFrames)]
             linked == dependent \cap DOMAIN known
  <2>1. pending' = [n \in DOMAIN known |->
                            [known[n] EXCEPT
                                !.dependsOn = IF n \in linked THEN @ \cup {m} ELSE @,
                                !.dependents = IF n = m THEN @ \cup linked ELSE @]]
    BY <1>1 DEF Add
  <2>2. \A n \in DOMAIN known : IsRec(known[n])
    BY DEF RecordsOK, IsPending, Rec, IsRec
  <2>3. DOMAIN known = DOMAIN pending \cup {m}
    OBVIOUS
  <2>4. \A n \in DOMAIN known : known[n].waitsForDepsCount =
                                  IF IsPending(n) THEN pending[n].waitsForDepsCount ELSE waitsForOwnFrames
    BY DEF Rec
  <2> HIDE DEF known, linked
  <2>5. DOMAIN pending' = DOMAIN known
    BY <2>1
  <2>6. ASSUME NEW n \in DOMAIN known
        PROVE  IsRec(pending'[n]) /\ pending'[n].waitsForDepsCount = known[n].waitsForDepsCount
    <3> DEFINE a == IF n \in linked THEN known[n].dependsOn \cup {m} ELSE known[n].dependsOn
               b == IF n = m THEN known[n].dependents \cup linked ELSE known[n].dependents
    <3>1. pending'[n] = [known[n] EXCEPT !.dependsOn = a, !.dependents = b]
      BY <2>1
    <3> HIDE DEF a, b
    <3>2. IsRec(known[n])
      BY <2>2
    <3>3. /\ IsRec([known[n] EXCEPT !.dependsOn = a, !.dependents = b])
          /\ [known[n] EXCEPT !.dependsOn = a, !.dependents = b].waitsForDepsCount = known[n].waitsForDepsCount
      BY <3>2, FieldsSet, Zenon
    <3> QED
      BY <3>1, <3>3, Zenon
  <2>7. RecordsOK(pending')
    BY <2>3, <2>5, <2>6 DEF RecordsOK
  <2> QED
    BY <1>1, <2>3, <2>4, <2>5, <2>6, <2>7, SMTT(30) DEF SamePending, IsPending, IsRegistered
<1>2. ASSUME NEW d \in dependent, regState[m] = "withLcHooks",
             pending' = With(d, [RecOf(d) EXCEPT !.dependsOn = @ \cup {m},
                                                 !.hasOwnOrTransitiveRunnables = TRUE])
      PROVE  RecordsOK(pending') /\ (\A n \in Comp \ cycled : SamePending(n)) /\ IsRegistered(m)
  <2>1. IsRec(RecOf(d))
    BY DEF RecordsOK, RecOf, IsPending, Rec, IsRec
  <2> DEFINE rec == [RecOf(d) EXCEPT !.dependsOn = @ \cup {m}, !.hasOwnOrTransitiveRunnables = TRUE]
  <2>2. IsRec(rec) /\ rec.waitsForDepsCount = RecOf(d).waitsForDepsCount
    BY <2>1 DEF IsRec
  <2> HIDE DEF rec
  <2>3. pending' = [n \in DOMAIN pending \cup {d} |-> IF n = d THEN rec ELSE pending[n]]
    BY <1>2 DEF rec, With
  <2>4. RecordsOK(pending')
    BY <2>2, <2>3 DEF RecordsOK
  <2>5. ASSUME NEW n \in Comp \ cycled PROVE SamePending(n)
    <3>1. CASE n = d
      BY <2>2, <2>3, <3>1 DEF SamePending, IsPending, RecOf
    <3>2. CASE n # d
      BY <2>3, <3>2 DEF SamePending, IsPending
    <3> QED
      BY <3>1, <3>2
  <2> QED
    BY <1>2, <2>4, <2>5 DEF IsRegistered
<1> QED
  BY <1>1, <1>2 DEF Add

\* The component that a step asks for gets a frame, and a record if it has neither a
\* record nor a registration.
LEMMA CalledOK ==
    ASSUME RInv, FInv', NEW m \in Comp, NEW dependent \in SUBSET Comp,
           \A d \in dependent \ cycled : IsPending(d),
           Add(dependent, m), PushProviderFrame(m), UNCHANGED <<componentNode, removing, cycled>>
    PROVE  Kept
<1>1. /\ RecordsOK(pending')
      /\ \A n \in Comp \ cycled : n # m => SamePending(n)
      /\ m \notin cycled => \/ IsPending(m)' /\ SamePending(m)
                            \/ IsRegistered(m) /\ SamePending(m)
                            \/ ~IsRegistered(m) /\ IsPending(m)' /\ pending'[m].waitsForDepsCount = waitsForOwnFrames
  BY AddKeepsRecords DEF RInv, Types
<1>2. /\ providingState' = providingState /\ providedErr' = providedErr /\ regState' = regState
      /\ nodeDependsOn' = nodeDependsOn /\ cycled' = cycled /\ removing' = removing
      /\ queuedLateInitsCount' = queuedLateInitsCount
      /\ \A n \in Comp \ {m} : totalFramesCount'[n] = totalFramesCount[n]
  BY DEF RInv, FInv, PushProviderFrame, componentNode, regResult
<1>3. \A n : Providing(n)' = Providing(n) /\ InLateInit(n)' = InLateInit(n)
  <2> DEFINE f == Frame(m, "called")
  <2>1. f \in Frames /\ \A n : f # Frame(n, "provider") /\ f # Frame(n, "lateInit")
    BY DEF Frames, FrameKinds, Frame
  <2>2. FInv /\ stack' = Append(stack, f)
    BY DEF RInv, PushProviderFrame
  <2> HIDE DEF f
  <2>3. ASSUME NEW n
        PROVE  /\ Providing(n)' = Providing(n) \cup (IF f = Frame(n, "provider") THEN {Len(stack) + 1} ELSE {})
               /\ InLateInit(n)' = InLateInit(n) \cup (IF f = Frame(n, "lateInit") THEN {Len(stack) + 1} ELSE {})
    BY <2>1, <2>2, Pushed, Zenon
  <2> QED
    BY <2>1, <2>3
<1>4. Types'
  BY <1>1, <1>2 DEF RInv, Types
<1>5. ASSUME NEW n \in Comp \ {m} PROVE Same(n)
  <2>1. n \notin cycled => SamePending(n)
    BY <1>1
  <2>2. totalFramesCount'[n] = totalFramesCount[n]
    BY <1>2
  <2>3. Providing(n)' = Providing(n) /\ InLateInit(n)' = InLateInit(n)
    BY <1>3
  <2> QED
    BY <1>2, <2>1, <2>2, <2>3 DEF Same
<1>6. FramesFit(m)' /\ (Over(m) <=> Over(m)')
  BY <1>2, <1>3 DEF RInv, FramesFit, Over
<1>7. OverIfRegistered(m)'
  BY <1>1, <1>2, <1>6 DEF RInv, OverIfRegistered, SamePending, IsRegistered
<1> QED
  BY <1>2, <1>4, <1>5, <1>6, <1>7, OneComponent

\* Without a step of any component.
LEMMA SameForAll ==
    ASSUME RInv, FInv', Types', cycled \subseteq cycled', removing' = removing, \A n \in Comp : Same(n)
    PROVE  Kept
<1>1. \A n \in Comp : FramesFit(n) /\ OverIfRegistered(n)
  BY DEF RInv
<1>2. \A n \in Comp : FramesFit(n)' /\ OverIfRegistered(n)' /\ (Over(n) <=> Over(n)')
  BY <1>1, SameKeeps
<1>3. CallsOver \subseteq CallsOver'
  BY <1>2 DEF CallsOver, RemoveCalls
<1>4. removing \in Seq(SUBSET CallsOver)
  BY DEF RInv
<1>5. removing' \in Seq(SUBSET CallsOver')
  <2> HIDE DEF CallsOver
  <2>1. \A i \in 1 .. Len(removing) : removing[i] \in SUBSET CallsOver'
    BY <1>3, <1>4
  <2> QED
    BY <1>4, <2>1
<1> QED
  BY <1>2, <1>5 DEF RInv, Kept

\* User code adds a late init: its component has a record, and goes on to wait for frames.
LEMMA UseLateInitOK ==
    ASSUME RInv, FInv', UseLateInit
    PROVE  Kept
<1>0. PICK x : x = Top.node
  OBVIOUS
<1>1. stack # <<>> /\ Top.kind \in {"provider", "lateInit"}
  BY DEF UseLateInit, UserCode
<1>2. /\ x \in Comp /\ (Providing(x) # {} \/ InLateInit(x) # {})
      /\ x \notin cycled => IsPending(x) /\ ~IsRegistered(x) /\ ~Over(x) /\ ~providedErr[x]
                            /\ pending[x].waitsForDepsCount = waitsForOwnFrames
  BY <1>0, <1>1, RunsItsCode
<1>3. /\ providingState' = providingState /\ providedErr' = providedErr /\ regState' = regState
      /\ nodeDependsOn' = nodeDependsOn /\ cycled' = cycled /\ removing' = removing /\ pending' = pending /\ stack' = stack
      /\ \A n \in Comp \ {x} : totalFramesCount'[n] = totalFramesCount[n] /\ queuedLateInitsCount'[n] = queuedLateInitsCount[n]
  BY <1>0 DEF UseLateInit, LateInitQueuePush, RInv, FInv, componentNode, regResult
<1>4. Types'
  BY <1>3 DEF RInv, Types
<1>5. \A n : Providing(n)' = Providing(n) /\ InLateInit(n)' = InLateInit(n)
  BY <1>3 DEF Providing, InLateInit
<1>6. ASSUME NEW n \in Comp \ {x} PROVE Same(n)
  BY <1>3, <1>5 DEF Same, SamePending, IsPending
<1>7. FramesFit(x) /\ OverIfRegistered(x)
  BY <1>2 DEF RInv
<1>8. FramesFit(x)'
  BY <1>2, <1>3, <1>5, <1>7 DEF FramesFit
<1>9. OverIfRegistered(x)'
  <2>1. x \notin cycled' => IsPending(x)' /\ ~IsRegistered(x)' /\ pending'[x].waitsForDepsCount = waitsForOwnFrames
    BY <1>2, <1>3 DEF IsPending, IsRegistered
  <2>2. x \notin cycled' => ~providedErr'[x]
    BY <1>2, <1>3
  <2> QED
    BY <2>1, <2>2 DEF OverIfRegistered
<1>10. Over(x) => x \in cycled'
  BY <1>2, <1>3
<1> QED
  BY <1>2, <1>3, <1>4, <1>6, <1>8, <1>9, <1>10, OneComponent

\* User code adds a hook: its component has a record already.
LEMMA UseLifecycleOK ==
    ASSUME RInv, FInv', UseLifecycle
    PROVE  Kept
<1> DEFINE x == Top.node
           rec == [RecOf(x) EXCEPT !.lcHookBuilders = TRUE]
<1>1. stack # <<>> /\ Top.kind \in {"provider", "lateInit"}
  BY DEF UseLifecycle, UserCode
<1>2. x \in Comp /\ (x \notin cycled => IsPending(x))
  BY <1>1, RunsItsCode
<1> HIDE DEF x
<1>3. /\ providingState' = providingState /\ providedErr' = providedErr /\ regState' = regState
      /\ nodeDependsOn' = nodeDependsOn /\ cycled' = cycled /\ removing' = removing
      /\ stack' = stack /\ totalFramesCount' = totalFramesCount /\ queuedLateInitsCount' = queuedLateInitsCount
      /\ pending' = With(x, rec)
  BY DEF UseLifecycle, AddLifecycleHookBuilder, componentNode, regResult, frames, stats, x
<1>4. RecordsOK(pending)
  BY DEF RInv, Types
<1>5. IsRec(RecOf(x))
  BY <1>4 DEF RecordsOK, RecOf, IsPending, Rec, IsRec
<1>6. IsRec(rec) /\ rec.waitsForDepsCount = RecOf(x).waitsForDepsCount
  BY <1>5 DEF IsRec
<1> HIDE DEF rec
<1>7. pending' = [n \in DOMAIN pending \cup {x} |-> IF n = x THEN rec ELSE pending[n]]
  BY <1>3 DEF With
<1>8. RecordsOK(pending')
  BY <1>2, <1>4, <1>6, <1>7 DEF RecordsOK
<1>9. Types'
  BY <1>3, <1>8 DEF RInv, Types
<1>10. \A n : Providing(n)' = Providing(n) /\ InLateInit(n)' = InLateInit(n)
  BY <1>3 DEF Providing, InLateInit
<1>11. ASSUME NEW n \in Comp, n \notin cycled PROVE SamePending(n)
  <2>1. CASE n = x
    BY <1>2, <1>6, <1>7, <1>11, <2>1 DEF SamePending, IsPending, RecOf
  <2>2. CASE n # x
    BY <1>7, <2>2 DEF SamePending, IsPending
  <2> QED
    BY <2>1, <2>2
<1>12. \A n \in Comp : Same(n)
  BY <1>3, <1>10, <1>11 DEF Same
<1> QED
  BY <1>3, <1>9, <1>12, SameForAll

\* The provider of the component starts: its frame stays the one on top.
LEMMA ProviderStartsOK ==
    ASSUME RInv, FInv', stack # <<>>, Top.kind = "called", providingState[Top.node] = "none",
           providingState' = [providingState EXCEPT ![Top.node] = "inProgress"],
           stack' = Append(Below, Frame(Top.node, "provider")),
           UNCHANGED <<providedErr, regResult, lateInitsQueue, stats, pending, removing, cycled>>
    PROVE  Kept
<1>0. PICK x : x = Top.node
  OBVIOUS
<1>1. stack \in Seq(Frames) /\ FInv /\ Types /\ x \in Comp /\ Len(stack) \in Nat \ {0}
      /\ FramesFit(x) /\ OverIfRegistered(x)
  <2>1. stack \in Seq(Frames) /\ FInv /\ Types
    BY DEF RInv, FInv, Frames
  <2>2. x \in Comp /\ Len(stack) \in Nat \ {0}
    BY <1>0, <2>1, TopFrame
  <2> QED
    BY <2>1, <2>2 DEF RInv
<1>2. totalFramesCount[x] # 0
  <2>1. Len(stack) \in FramesIn(stack, x)
    BY <1>0, <1>1 DEF FramesIn, Top
  <2> QED
    BY <1>1, <2>1, HasFrames
<1>3. \A n, kind : Places(stack', n, kind) =
           (Places(stack, n, kind) \ {Len(stack)})
               \cup (IF Frame(x, "provider") = Frame(n, kind) THEN {Len(stack)} ELSE {})
  <2>1. Below \in Seq(Frames) /\ Len(Below) + 1 = Len(stack)
    BY <1>1, TopFrame
  <2>2. Frame(x, "provider") \in Frames
    BY <1>1 DEF Frame, Frames, FrameKinds
  <2>3. \A n, kind : Places(stack', n, kind) = Places(Below, n, kind)
               \cup (IF Frame(x, "provider") = Frame(n, kind) THEN {Len(Below) + 1} ELSE {})
    BY <1>0, <2>1, <2>2, PlacesAppend
  <2>4. \A n, kind : Places(Below, n, kind) = Places(stack, n, kind) \ {Len(stack)}
    BY <1>1, PlacesBelow
  <2> QED
    BY <2>1, <2>3, <2>4
<1>4. \A n : Len(stack) \notin Places(stack, n, "provider") /\ Len(stack) \notin Places(stack, n, "lateInit")
  <2>1. \A n, kind : Len(stack) \in Places(stack, n, kind) => Top = Frame(n, kind)
    BY <1>1, TopFrame
  <2> QED
    BY <2>1 DEF Frame
<1>5. \A n : InLateInit(n)' = InLateInit(n) /\ (n # x => Providing(n)' = Providing(n))
  <2>1. \A n : Frame(x, "provider") # Frame(n, "lateInit") /\ (n # x => Frame(x, "provider") # Frame(n, "provider"))
    BY DEF Frame
  <2>2. ASSUME NEW n PROVE Places(stack', n, "lateInit") = Places(stack, n, "lateInit")
    <3>1. Places(stack', n, "lateInit") = Places(stack, n, "lateInit") \ {Len(stack)}
      BY <1>3, <2>1
    <3> QED
      BY <1>4, <3>1
  <2>3. ASSUME NEW n, n # x PROVE Places(stack', n, "provider") = Places(stack, n, "provider")
    <3>1. Places(stack', n, "provider") = Places(stack, n, "provider") \ {Len(stack)}
      BY <1>3, <2>1, <2>3
    <3> QED
      BY <1>4, <3>1
  <2> QED
    BY <2>2, <2>3 DEF InLateInit, Providing
<1>6. Providing(x)' = Providing(x) \cup {Len(stack)}
  BY <1>3, <1>4 DEF Providing, Frame
<1>7. Providing(x) = {} /\ InLateInit(x) = {}
  BY <1>0, <1>1 DEF FramesFit
<1>8. /\ providedErr' = providedErr /\ regState' = regState /\ nodeDependsOn' = nodeDependsOn
      /\ cycled' = cycled /\ removing' = removing /\ pending' = pending
      /\ totalFramesCount' = totalFramesCount /\ queuedLateInitsCount' = queuedLateInitsCount
      /\ providingState'[x] = "inProgress"
      /\ \A n \in Comp \ {x} : providingState'[n] = providingState[n]
  BY <1>0, <1>1 DEF Types, regResult, stats
<1>9. Types'
  BY <1>0, <1>1, <1>8 DEF Types
<1>10. ASSUME NEW n \in Comp \ {x} PROVE Same(n)
  BY <1>5, <1>8 DEF Same, SamePending, IsPending
<1>11. FramesFit(x)'
  BY <1>5, <1>6, <1>7, <1>8 DEF FramesFit
<1>12. ~Over(x)
  BY <1>0 DEF Over
<1>13. OverIfRegistered(x)'
  <2>1. x \notin cycled' => /\ IsPending(x)' /\ ~IsRegistered(x)' /\ ~providedErr'[x]
                            /\ pending'[x].waitsForDepsCount = waitsForOwnFrames
    BY <1>1, <1>2, <1>8, <1>12 DEF OverIfRegistered, IsPending, IsRegistered
  <2> QED
    BY <2>1 DEF OverIfRegistered
<1> QED
  BY <1>1, <1>8, <1>9, <1>10, <1>11, <1>12, <1>13, OneComponent

\* A queued late init starts, on the empty stack: its provider has returned.
LEMMA LateInitStartsOK ==
    ASSUME RInv, FInv', ExecuteQueuedLateInit
    PROVE  Kept
<1>0. PICK x : x = items[frontIndex + 1]
  OBVIOUS
<1>1. /\ stack = <<>> /\ frontIndex \in Int /\ frontIndex >= 0 /\ Len(items) \in Nat /\ frontIndex < Len(items)
      /\ FInv /\ Types
  <2>1. FInv /\ Types
    BY DEF RInv
  <2>2. Len(items) \in Nat /\ frontIndex \in -1 .. Len(items)
    BY <2>1 DEF FInv, IsQueue
  <2>3. stack = <<>> /\ QueueLen > 0
    BY DEF ExecuteQueuedLateInit
  <2> QED
    BY <2>1, <2>2, <2>3 DEF QueueLen, QueueLength
<1>2. x \in Comp
  BY <1>0, <1>1, SMTT(30) DEF FInv, IsQueue
<1>3. queuedLateInitsCount[x] # 0
  <2>1. frontIndex + 1 \in Queued(items, frontIndex, x)
    BY <1>0, <1>1 DEF Queued
  <2>2. IsFiniteSet(Queued(items, frontIndex, x))
    BY <1>1, PlacesAreFinite
  <2>3. Cardinality(Queued(items, frontIndex, x)) # 0
    BY <2>1, <2>2, FS_EmptySet
  <2> QED
    BY <1>1, <1>2, <2>3 DEF FInv, Counted
<1>4. FramesFit(x) /\ OverIfRegistered(x)
  BY <1>2 DEF RInv
<1>5. \A n : Providing(n) = {}
  BY <1>1 DEF Providing, Places
<1>6. providingState[x] = "provided"
  BY <1>1, <1>2, <1>3, <1>4, <1>5 DEF FramesFit, Types
<1>7. /\ providingState' = providingState /\ providedErr' = providedErr /\ regState' = regState
      /\ nodeDependsOn' = nodeDependsOn /\ cycled' = cycled /\ removing' = removing /\ pending' = pending
      /\ totalFramesCount' = totalFramesCount
      /\ \A n \in Comp \ {x} : queuedLateInitsCount'[n] = queuedLateInitsCount[n]
      /\ stack' = Append(stack, Frame(x, "lateInit"))
  <2>1. queuedLateInitsCount' = [queuedLateInitsCount EXCEPT ![x] = @ - 1]
        /\ totalFramesCount' = totalFramesCount /\ stack' = Append(stack, Frame(x, "lateInit"))
    BY <1>0 DEF ExecuteQueuedLateInit, PushQueuedLateInitFrameToStack
  <2>2. \A n \in Comp \ {x} : queuedLateInitsCount'[n] = queuedLateInitsCount[n]
    BY <1>1, <2>1 DEF FInv
  <2> QED
    BY <2>1, <2>2 DEF ExecuteQueuedLateInit, componentNode, regResult, user
<1>8. Types'
  BY <1>1, <1>7 DEF Types
<1>9. /\ \A n : Providing(n)' = Providing(n)
      /\ \A n : n # x => InLateInit(n)' = InLateInit(n)
  <2> DEFINE f == Frame(x, "lateInit")
  <2>1. f \in Frames /\ \A n : f # Frame(n, "provider") /\ (n # x => f # Frame(n, "lateInit"))
    BY <1>2 DEF Frames, FrameKinds, Frame
  <2>2. stack' = Append(stack, f)
    BY <1>7
  <2> HIDE DEF f
  <2>3. ASSUME NEW n
        PROVE  /\ Providing(n)' = Providing(n) \cup (IF f = Frame(n, "provider") THEN {Len(stack) + 1} ELSE {})
               /\ InLateInit(n)' = InLateInit(n) \cup (IF f = Frame(n, "lateInit") THEN {Len(stack) + 1} ELSE {})
    BY <1>1, <2>1, <2>2, Pushed, Zenon
  <2> QED
    BY <2>1, <2>3
<1>10. ASSUME NEW n \in Comp \ {x} PROVE Same(n)
  BY <1>7, <1>9 DEF Same, SamePending, IsPending
<1>11. FramesFit(x)'
  BY <1>5, <1>6, <1>7, <1>9 DEF FramesFit
<1>12. ~Over(x)
  BY <1>3 DEF Over
<1>13. OverIfRegistered(x)'
  <2>1. x \notin cycled' /\ totalFramesCount'[x] # 0 => IsPending(x)'
    BY <1>4, <1>7, <1>12 DEF OverIfRegistered, IsPending
  <2>2. x \notin cycled' => ~IsRegistered(x)' /\ ~providedErr'[x]
    BY <1>4, <1>7, <1>12 DEF OverIfRegistered, IsRegistered
  <2>3. x \notin cycled' /\ IsPending(x)' => pending'[x].waitsForDepsCount = waitsForOwnFrames
    BY <1>4, <1>7, <1>12 DEF OverIfRegistered, IsPending
  <2> QED
    BY <2>1, <2>2, <2>3 DEF OverIfRegistered
<1> QED
  BY <1>2, <1>7, <1>8, <1>10, <1>11, <1>12, <1>13, OneComponent

\* What the end of a frame asks of the records: at most the removal of the component,
\* with the numbers that it waits for.
EndsItsFrames(x) ==
    \/ \E report \in BOOLEAN : OnDepFrameErr(x, report)
    \/ OnDepLateInitFrameErr(x) \/ OnLastNodeFramePoppedWithNoErr(x)
AtMostRemoves(x) ==
    /\ RecordsOK(pending')
    /\ IsPending(x)' <=> IsPending(x)
    /\ \A n \in Comp \ {x} : SamePending(n)
    /\ \/ removing' = removing
       \/ \E calls \in SUBSET {c \in RemoveCalls : c.node = x} : removing' = ToRemove(calls, removing)

LEMMA RecordsAtTheEnd ==
    ASSUME Types, NEW x \in Comp, EndsItsFrames(x)
    PROVE  AtMostRemoves(x)
<1>1. CASE (\E report \in BOOLEAN : OnDepFrameErr(x, report)) \/ OnDepLateInitFrameErr(x)
  <2>1. pending' = pending
    BY <1>1 DEF OnDepFrameErr, OnDepLateInitFrameErr
  <2>2. \A n : SamePending(n)
    BY <2>1 DEF SamePending, IsPending
  <2>3. \E a \in {c \in RemoveCalls : c.node = x} : removing' = ToRemove({a}, removing)
    BY <1>1 DEF OnDepFrameErr, OnDepLateInitFrameErr, RemoveArgs, RemoveCalls
  <2>4. \E calls \in SUBSET {c \in RemoveCalls : c.node = x} : removing' = ToRemove(calls, removing)
    BY <2>3
  <2> QED
    BY <2>1, <2>2, <2>4 DEF Types, SamePending, AtMostRemoves
<1>2. ASSUME ~IsPending(x), UNCHANGED <<pending, removing>>
      PROVE  RecordsOK(pending') /\ removing' = removing /\ \A n : SamePending(n)
  BY <1>2 DEF Types, SamePending, IsPending
<1>3. ASSUME IsPending(x), NEW waits, NEW hooks,
             pending' = [pending EXCEPT
                                   ![x].waitsForDepsCount = waits,
                                   ![x].lcHooks = hooks,
                                   ![x].lcHookBuilders = FALSE,
                                   ![x].hasOwnOrTransitiveRunnables = @ \/ hooks],
             removing' = ToRemove(IF waits = 0 THEN {RemoveArgs(x, FALSE, FALSE, FALSE)} ELSE {}, removing)
      PROVE  /\ RecordsOK(pending')
             /\ IsPending(x)' <=> IsPending(x)
             /\ \A n \in Comp \ {x} : SamePending(n)
             /\ \E calls \in SUBSET {c \in RemoveCalls : c.node = x} : removing' = ToRemove(calls, removing)
  <2>1. DOMAIN pending' = DOMAIN pending
    BY <1>3
  <2>2. \A n \in DOMAIN pending : n # x => pending'[n] = pending[n]
    BY <1>3
  <2>3. IsRec(pending[x])
    BY <1>3 DEF Types, RecordsOK, IsPending
  <2>4. IsRec(pending'[x])
    <3>1. pending'[x] = [pending[x] EXCEPT !.waitsForDepsCount = waits, !.lcHooks = hooks, !.lcHookBuilders = FALSE,
                                           !.hasOwnOrTransitiveRunnables = @ \/ hooks]
      BY <1>3 DEF IsPending
    <3>2. DOMAIN pending'[x] = DOMAIN pending[x]
      BY <3>1
    <3> QED
      BY <2>3, <3>2 DEF IsRec
  <2>5. RecordsOK(pending')
    BY <2>1, <2>2, <2>4 DEF Types, RecordsOK
  <2>6. (IF waits = 0 THEN {RemoveArgs(x, FALSE, FALSE, FALSE)} ELSE {}) \in SUBSET {c \in RemoveCalls : c.node = x}
    BY DEF RemoveArgs, RemoveCalls
  <2> QED
    BY <1>3, <2>1, <2>2, <2>5, <2>6 DEF SamePending, IsPending
<1>4. CASE OnLastNodeFramePoppedWithNoErr(x)
  <2>1. CASE ~IsPending(x)
    BY <1>2, <1>4, <2>1 DEF OnLastNodeFramePoppedWithNoErr, SamePending, AtMostRemoves
  <2>2. CASE IsPending(x)
    <3>1. PICK waits \in WaitsForDeps(x) :
            LET hooks == pending[x].lcHooks \/ pending[x].lcHookBuilders
             IN  /\ pending' = [pending EXCEPT
                                   ![x].waitsForDepsCount = waits,
                                   ![x].lcHooks = hooks,
                                   ![x].lcHookBuilders = FALSE,
                                   ![x].hasOwnOrTransitiveRunnables = @ \/ hooks]
                 /\ removing' = ToRemove(IF waits = 0 THEN {RemoveArgs(x, FALSE, FALSE, FALSE)} ELSE {}, removing)
      BY <1>4, <2>2 DEF OnLastNodeFramePoppedWithNoErr
    <3> QED
      BY <1>3, <2>2, <3>1 DEF AtMostRemoves
  <2> QED
    BY <2>1, <2>2
<1> QED
  BY <1>1, <1>4 DEF EndsItsFrames

\* A frame on top ends: the provider of its component has run, and what the step leaves of
\* the component has ended if there is an error, or no frame.
LEMMA FrameEndsOK ==
    ASSUME RInv, FInv', Types', cycled \subseteq cycled', NEW err \in BOOLEAN, NEW x \in Comp, x = Top.node,
           stack # <<>>, removing = <<>>, PopTopFrame(err), regState' = regState,
           providingState' = [providingState EXCEPT ![x] = "provided"],
           \A n \in Comp \ {x} : providedErr'[n] = providedErr[n] /\ (n \notin cycled => SamePending(n)),
           x \notin cycled' => /\ Providing(x)' = {}
                               /\ SamePending(x) \/ (Over(x)' /\ (IsPending(x)' <=> IsPending(x)))
                               /\ providedErr'[x] => providedErr[x] \/ Over(x)',
           \/ removing' = removing
           \/ /\ x \in cycled' \/ Over(x)'
              /\ \E calls \in SUBSET {c \in RemoveCalls : c.node = x} : removing' = ToRemove(calls, removing)
    PROVE  Kept
<1>1. FInv /\ stack \in Seq(Frames) /\ Types /\ FramesFit(x) /\ OverIfRegistered(x)
  BY DEF RInv, FInv, Frames
<1>2. stack' = Below
  BY DEF PopTopFrame
<1>3. \A n : /\ Providing(n)' \subseteq Providing(n) /\ InLateInit(n)' \subseteq InLateInit(n)
             /\ n # x => Providing(n)' = Providing(n) /\ InLateInit(n)' = InLateInit(n)
  BY <1>1, <1>2, Popped
<1>4. providingState'[x] = "provided" /\ \A n \in Comp \ {x} : providingState'[n] = providingState[n]
  BY <1>1 DEF Types
<1>5. /\ \A n \in Comp \ {x} : totalFramesCount'[n] = totalFramesCount[n]
                               /\ queuedLateInitsCount'[n] = queuedLateInitsCount[n]
      /\ queuedLateInitsCount[x] = 0 => queuedLateInitsCount'[x] = 0
  BY <1>1 DEF PopTopFrame, Dropped, FInv
<1>6. ASSUME NEW n \in Comp \ {x} PROVE Same(n)
  <2>1. n \notin cycled => SamePending(n)
    OBVIOUS
  <2>2. providedErr'[n] = providedErr[n]
    OBVIOUS
  <2> QED
    BY <1>3, <1>4, <1>5, <2>1, <2>2 DEF Same
<1>7. Over(x) => Over(x)'
  BY <1>3, <1>4, <1>5 DEF Over
<1>8. FramesFit(x)'
  BY <1>4 DEF FramesFit
<1>9. totalFramesCount[x] # 0
  <2>1. Len(stack) \in FramesIn(stack, x)
    BY <1>1, TopFrame DEF FramesIn, Top
  <2> QED
    BY <1>1, <2>1, HasFrames
<1>10. OverIfRegistered(x)'
  <2> SUFFICES ASSUME x \notin cycled' PROVE OverIfRegistered(x)'
    BY DEF OverIfRegistered
  <2>1. x \notin cycled
    OBVIOUS
  <2>2. IsPending(x)' <=> IsPending(x)
    BY DEF SamePending
  <2>3. IsRegistered(x)' => Over(x)' /\ ~IsPending(x)'
    BY <1>1, <1>7, <2>1, <2>2 DEF OverIfRegistered, IsRegistered
  <2>4. IsPending(x)' /\ pending'[x].waitsForDepsCount # waitsForOwnFrames => Over(x)'
    BY <1>1, <1>7, <2>1, <2>2 DEF OverIfRegistered, SamePending
  <2>5. providedErr'[x] => Over(x)'
    BY <1>1, <1>7, <2>1 DEF OverIfRegistered
  <2>6. IsPending(x)' \/ Over(x)'
    BY <1>1, <1>7, <1>9, <2>1, <2>2 DEF OverIfRegistered
  <2> QED
    BY <2>3, <2>4, <2>5, <2>6 DEF OverIfRegistered
<1>11. \/ removing' = removing
       \/ \E calls \in SUBSET CallsOver' : removing = <<>> /\ removing' = ToRemove(calls, removing)
  BY DEF CallsOver, RemoveCalls
<1> QED
  BY <1>6, <1>7, <1>8, <1>10, <1>11, OneComponent

NothingLeft == \A n \in Comp : totalFramesCount[n] = 0 =>
                   queuedLateInitsCount[n] = 0 /\ Providing(n) = {} /\ InLateInit(n) = {}
LEMMA NoFramesNext == FInv' => NothingLeft'
<1>1. FInv => NothingLeft
  BY NoFrames DEF NothingLeft
<1> QED
  BY <1>1, PTL

\* The end of a frame of the provider, run or not run: with an error, what is queued is
\* dropped; without, the records change when no frame is left.
LEMMA ProviderEndsOK ==
    ASSUME RInv, FInv', NEW err \in BOOLEAN, NEW report \in BOOLEAN, NEW x \in Comp, x = Top.node,
           stack # <<>>, removing = <<>>, ProviderFrameEnds(err, report),
           providingState' = [providingState EXCEPT ![x] = "provided"],
           providedErr' \in [Comp -> BOOLEAN], \A n \in Comp \ {x} : providedErr'[n] = providedErr[n],
           cycled \subseteq cycled', cycled' \subseteq Comp,
           x \notin cycled' =>
               /\ providedErr'[x] => err
               /\ \/ Top.kind = "provider"
                  \/ Top.kind = "called" /\ providingState[x] = "provided" /\ (err => providedErr[x])
    PROVE  Kept
<1>1. FInv /\ stack \in Seq(Frames) /\ Types /\ FramesFit(x) /\ OverIfRegistered(x)
  BY DEF RInv, FInv, Frames
<1>2. PopTopFrame(err) /\ stack' = Below /\ regState' = regState /\ nodeDependsOn' = nodeDependsOn
  BY DEF ProviderFrameEnds, PopTopFrame, regResult
<1>3. /\ Providing(x)' = Providing(x) \ {Len(stack)} /\ InLateInit(x)' = InLateInit(x) \ {Len(stack)}
  BY <1>1, <1>2, Popped
<1>4. x \notin cycled' => Providing(x)' = {} /\ (err => InLateInit(x)' = {})
  <2> SUFFICES ASSUME x \notin cycled' PROVE Providing(x)' = {} /\ (err => InLateInit(x)' = {})
    OBVIOUS
  <2>1. CASE Top.kind = "provider"
    <3>1. Len(stack) \in Providing(x)
      BY <2>1, RunsItsCode
    <3>2. Providing(x) = {Len(stack)} /\ providingState[x] = "inProgress"
      BY <1>1, <3>1 DEF FramesFit
    <3>3. InLateInit(x) = {}
      BY <1>1, <3>2 DEF FramesFit
    <3> QED
      BY <1>3, <3>2, <3>3
  <2>2. CASE Top.kind = "called" /\ providingState[x] = "provided" /\ (err => providedErr[x])
    <3>1. Providing(x) = {}
      BY <1>1, <2>2 DEF FramesFit
    <3>2. err => Over(x)
      BY <1>1, <2>2 DEF OverIfRegistered
    <3> QED
      BY <1>3, <3>1, <3>2 DEF Over
  <2> QED
    BY <2>1, <2>2
<1>5. providingState'[x] = "provided"
  BY <1>1 DEF Types
<1>6. err => queuedLateInitsCount'[x] = 0
  BY <1>1, <1>2 DEF PopTopFrame, Dropped, FInv
<1>7. err /\ x \notin cycled' => Over(x)'
  BY <1>4, <1>5, <1>6 DEF Over
<1>8. PopsLastFrame => Over(x)'
  BY <1>5, NoFramesNext DEF PopsLastFrame, NothingLeft, Over
<1>9. \/ /\ x \in cycled' \/ Over(x)'
         /\ OnDepFrameErr(x, report) \/ OnLastNodeFramePoppedWithNoErr(x)
      \/ UNCHANGED <<pending, removing>>
  BY <1>7, <1>8 DEF ProviderFrameEnds
<1>10. /\ RecordsOK(pending')
       /\ IsPending(x)' <=> IsPending(x)
       /\ \A n \in Comp \ {x} : SamePending(n)
       /\ SamePending(x) \/ x \in cycled' \/ Over(x)'
       /\ \/ removing' = removing
          \/ /\ x \in cycled' \/ Over(x)'
             /\ \E calls \in SUBSET {c \in RemoveCalls : c.node = x} : removing' = ToRemove(calls, removing)
  <2>1. CASE UNCHANGED <<pending, removing>>
    BY <1>1, <2>1 DEF Types, SamePending, IsPending
  <2>2. CASE /\ x \in cycled' \/ Over(x)'
             /\ OnDepFrameErr(x, report) \/ OnLastNodeFramePoppedWithNoErr(x)
    <3>1. EndsItsFrames(x)
      BY <2>2 DEF EndsItsFrames
    <3>2. AtMostRemoves(x)
      BY <1>1, <3>1, RecordsAtTheEnd
    <3> QED
      BY <2>2, <3>2 DEF AtMostRemoves
  <2> QED
    BY <1>9, <2>1, <2>2
<1>11. Types'
  BY <1>1, <1>2, <1>10 DEF Types
<1>12. x \notin cycled' => /\ Providing(x)' = {}
                           /\ SamePending(x) \/ (Over(x)' /\ (IsPending(x)' <=> IsPending(x)))
                           /\ providedErr'[x] => providedErr[x] \/ Over(x)'
  BY <1>4, <1>7, <1>10
<1> QED
  BY <1>2, <1>10, <1>11, <1>12, FrameEndsOK

LEMMA LateInitReturnsOK ==
    ASSUME RInv, FInv', LateInitReturns
    PROVE  Kept
<1>0. PICK x : x = Top.node
  OBVIOUS
<1>1. stack # <<>> /\ Top.kind = "lateInit" /\ removing = <<>>
  BY DEF LateInitReturns, UserCode, Settled
<1>2. x \in Comp /\ Len(stack) \in InLateInit(x) /\ (x \notin cycled => ~providedErr[x])
  BY <1>0, <1>1, RunsItsCode
<1>3. FInv /\ stack \in Seq(Frames) /\ Types /\ FramesFit(x) /\ OverIfRegistered(x)
  BY <1>2 DEF RInv, FInv, Frames
<1>4. PICK err \in BOOLEAN :
          /\ PopTopFrame(err)
          /\ IF ~PopsLastFrame THEN UNCHANGED <<pending, removing>>
             ELSE IF err THEN OnDepLateInitFrameErr(x)
             ELSE OnLastNodeFramePoppedWithNoErr(x)
  <2>1. {FALSE} \cup {"lateInit" \in Failures} \subseteq BOOLEAN
    OBVIOUS
  <2>2. \E err \in {FALSE} \cup {"lateInit" \in Failures} :
          /\ PopTopFrame(err)
          /\ IF ~PopsLastFrame THEN UNCHANGED <<pending, removing>>
             ELSE IF err THEN OnDepLateInitFrameErr(x)
             ELSE OnLastNodeFramePoppedWithNoErr(x)
    BY <1>0, Zenon DEF LateInitReturns
  <2> QED
    BY <2>1, <2>2, Zenon
<1>5. /\ stack' = Below /\ providingState' = providingState /\ providedErr' = providedErr
      /\ regState' = regState /\ nodeDependsOn' = nodeDependsOn /\ cycled' = cycled
  BY <1>4 DEF LateInitReturns, PopTopFrame, componentNode, regResult, user
<1>6. providingState[x] = "provided" /\ (x \notin cycled => Providing(x) = {})
  <2>1. InLateInit(x) # {}
    BY <1>2
  <2>2. providingState[x] = "provided"
    BY <1>3, <2>1 DEF FramesFit
  <2> QED
    BY <1>3, <2>2 DEF FramesFit
<1>7. Providing(x)' \subseteq Providing(x)
  BY <1>1, <1>3, <1>5, Popped
<1>8. providingState' = [providingState EXCEPT ![x] = "provided"]
  BY <1>3, <1>5, <1>6 DEF Types
<1>9. PopsLastFrame => Over(x)'
  BY <1>0, <1>2, <1>5, <1>6, NoFramesNext DEF PopsLastFrame, NothingLeft, Over
<1>10. /\ RecordsOK(pending')
       /\ IsPending(x)' <=> IsPending(x)
       /\ \A n \in Comp \ {x} : SamePending(n)
       /\ SamePending(x) \/ Over(x)'
       /\ \/ removing' = removing
          \/ /\ Over(x)'
             /\ \E calls \in SUBSET {c \in RemoveCalls : c.node = x} : removing' = ToRemove(calls, removing)
  <2>1. CASE UNCHANGED <<pending, removing>>
    BY <1>3, <2>1 DEF Types, SamePending, IsPending
  <2>2. CASE PopsLastFrame /\ (OnDepLateInitFrameErr(x) \/ OnLastNodeFramePoppedWithNoErr(x))
    <3>1. EndsItsFrames(x)
      BY <2>2 DEF EndsItsFrames
    <3>2. AtMostRemoves(x)
      BY <1>2, <1>3, <3>1, RecordsAtTheEnd
    <3> QED
      BY <1>9, <2>2, <3>2 DEF AtMostRemoves
  <2> QED
    BY <1>4, <2>1, <2>2
<1>11. Types'
  BY <1>3, <1>5, <1>10 DEF Types
<1>12. x \notin cycled' => /\ Providing(x)' = {}
                           /\ SamePending(x) \/ (Over(x)' /\ (IsPending(x)' <=> IsPending(x)))
                           /\ providedErr'[x] => providedErr[x] \/ Over(x)'
  BY <1>5, <1>6, <1>7, <1>10
<1>13. \A n \in Comp \ {x} : providedErr'[n] = providedErr[n] /\ (n \notin cycled => SamePending(n))
  BY <1>5, <1>10
<1> QED
  BY <1>0, <1>1, <1>2, <1>4, <1>5, <1>8, <1>10, <1>11, <1>12, <1>13, FrameEndsOK

\* A component is removed: it has ended, and so have those that go with it.
LEMMA RemovePendingOK ==
    ASSUME RInv, FInv', RemovePending
    PROVE  Kept
<1>1. removing # <<>> /\ removing \in Seq(SUBSET CallsOver) /\ Types /\ FInv
  BY DEF RemovePending, RemoveNext, RInv
<1>2. PICK a \in Head(removing) : Remove(a)
  BY DEF RemovePending, RemoveNext
<1>3. Head(removing) \in SUBSET CallsOver /\ Tail(removing) \in Seq(SUBSET CallsOver)
  <2> HIDE DEF CallsOver
  <2> QED
    BY <1>1
<1>4. PICK n : n = a.node
  OBVIOUS
<1>5. n \in Comp /\ (n \in cycled \/ Over(n)) /\ a.err \in BOOLEAN /\ a.isLateInitErr \in BOOLEAN
  BY <1>3, <1>4 DEF CallsOver, RemoveCalls
<1>6. /\ providingState' = providingState /\ stack' = stack /\ cycled' = cycled
      /\ totalFramesCount' = totalFramesCount /\ queuedLateInitsCount' = queuedLateInitsCount
  BY DEF RemovePending, frames, stats, user
<1>7. \A k : Providing(k)' = Providing(k) /\ InLateInit(k)' = InLateInit(k)
  BY <1>6 DEF Providing, InLateInit
<1>8. \A k : (Over(k)' <=> Over(k)) /\ (FramesFit(k)' <=> FramesFit(k))
  BY <1>6, <1>7 DEF Over, FramesFit
<1>9. CallsOver' = CallsOver
  BY <1>6, <1>8 DEF CallsOver
<1> DEFINE rest == ToRemove(Head(removing) \ {a}, Tail(removing))
<1>10. rest \in Seq(SUBSET CallsOver)
  <2>1. Head(removing) \ {a} \in SUBSET CallsOver
    BY <1>3
  <2> HIDE DEF CallsOver
  <2> QED
    BY <1>3, <2>1, ToRemoveType
<1> HIDE DEF rest
<1>11. CASE ~IsPending(n)
  <2>1. removing' = rest /\ pending' = pending /\ providedErr' = providedErr /\ regState' = regState
        /\ nodeDependsOn' = nodeDependsOn
    BY <1>2, <1>4, <1>11 DEF Remove, rest, regResult
  <2>2. Types'
    BY <1>1, <1>6, <2>1 DEF Types
  <2>3. \A k \in Comp : OverIfRegistered(k)' <=> OverIfRegistered(k)
    BY <1>6, <1>8, <2>1 DEF OverIfRegistered, IsRegistered, IsPending
  <2> QED
    BY <1>8, <1>9, <1>10, <2>1, <2>2, <2>3 DEF RInv, Kept
<1>12. CASE IsPending(n)
  <2> DEFINE goesToo == {d \in Waiting(n) : a.isLateInitErr \/ pending[d].waitsForDepsCount = 1}
             calls == {RemoveArgs(d, a.err, a.isLateInitErr, TRUE) : d \in goesToo}
  <2>1. /\ pending' = [m \in DOMAIN pending \ {n} |->
                            [pending[m] EXCEPT
                                !.dependents = IF m \in pending[n].dependsOn THEN @ \ {n} ELSE @,
                                !.dependsOn = IF m \in LosesDependency(n, a.err) THEN @ \ {n} ELSE @,
                                !.waitsForDepsCount = IF m \in Waiting(n) \ goesToo THEN @ - 1 ELSE @]]
        /\ removing' = ToRemove(calls, rest)
    BY <1>2, <1>4, <1>12 DEF Remove, rest
  <2>2. SetRegResult(n, a.err /\ a.report, IF a.err THEN {} ELSE pending[n].dependsOn, pending[n].lcHooks,
                     ~a.err /\ HasDirectOrTransitiveRunnables(n))
    BY <1>2, <1>4, <1>12 DEF Remove
  <2>3. \A k \in DOMAIN pending \ {n} :
            /\ IsRec(pending'[k])
            /\ pending'[k].waitsForDepsCount =
                  IF k \in Waiting(n) \ goesToo THEN pending[k].waitsForDepsCount - 1 ELSE pending[k].waitsForDepsCount
    <3> TAKE k \in DOMAIN pending \ {n}
    <3> DEFINE a1 == IF k \in pending[n].dependsOn THEN pending[k].dependents \ {n} ELSE pending[k].dependents
               a2 == IF k \in LosesDependency(n, a.err) THEN pending[k].dependsOn \ {n} ELSE pending[k].dependsOn
               a3 == IF k \in Waiting(n) \ goesToo THEN pending[k].waitsForDepsCount - 1
                                                    ELSE pending[k].waitsForDepsCount
               r == [pending[k] EXCEPT !.dependents = a1, !.dependsOn = a2, !.waitsForDepsCount = a3]
    <3>1. pending'[k] = r
      BY <2>1
    <3>2. IsRec(pending[k])
      BY <1>1 DEF Types, RecordsOK
    <3> HIDE DEF a1, a2, a3, goesToo
    <3>3. DOMAIN r = DOMAIN pending[k] /\ ("waitsForDepsCount" \in DOMAIN pending[k] => r["waitsForDepsCount"] = a3)
      OBVIOUS
    <3>4. IsRec(r) /\ r.waitsForDepsCount = a3
      BY <3>2, <3>3 DEF IsRec
    <3> HIDE DEF r
    <3> QED
      BY <3>1, <3>4 DEF a3
  <2> HIDE DEF goesToo
  <2>4. DOMAIN pending' = DOMAIN pending \ {n}
    BY <2>1
  <2>5. /\ \A k \in Comp \ {n} : regState'[k] = regState[k] /\ providedErr'[k] = providedErr[k]
        /\ regState' \in [Comp -> {"none", "withLcHooks", "withNoLcHooks"}]
        /\ nodeDependsOn' = [k \in Comp |-> nodeDependsOn'[k]]
        /\ providedErr' \in [Comp -> BOOLEAN]
    BY <1>1, <1>5, <2>2 DEF SetRegResult, Types
  <2>6. Types'
    BY <1>1, <1>6, <2>3, <2>4, <2>5 DEF Types, RecordsOK
  <2>7. OverIfRegistered(n)'
    BY <1>5, <1>6, <1>8, <2>4 DEF OverIfRegistered, IsPending
  <2>8. ASSUME NEW k \in Comp \ {n} PROVE OverIfRegistered(k)'
    <3>1. SamePending(k)
      BY <2>3, <2>4 DEF SamePending, IsPending, Waiting
    <3>2. Same(k)
      BY <1>6, <1>7, <2>5, <3>1 DEF Same
    <3>3. FramesFit(k) /\ OverIfRegistered(k)
      BY DEF RInv
    <3> QED
      BY <1>6, <3>2, <3>3, SameKeeps
  <2>9. calls \in SUBSET CallsOver
    <3>1. ASSUME NEW d \in goesToo PROVE RemoveArgs(d, a.err, a.isLateInitErr, TRUE) \in CallsOver
      <4>1. IsPending(d) /\ pending[d].waitsForDepsCount # waitsForOwnFrames
        BY DEF goesToo, Waiting
      <4>2. d \in Comp
        BY <1>1, <4>1 DEF Types, RecordsOK, IsPending
      <4>3. d \in cycled \/ Over(d)
        BY <4>1, <4>2 DEF RInv, OverIfRegistered
      <4>4. /\ RemoveArgs(d, a.err, a.isLateInitErr, TRUE) \in RemoveCalls
            /\ RemoveArgs(d, a.err, a.isLateInitErr, TRUE).node = d
        BY <1>5, <4>2 DEF RemoveArgs, RemoveCalls
      <4> QED
        BY <4>3, <4>4 DEF CallsOver
    <3> QED
      BY <3>1
  <2>10. removing' \in Seq(SUBSET CallsOver)
    <3> HIDE DEF CallsOver, calls
    <3> QED
      BY <1>10, <2>1, <2>9, ToRemoveType
  <2>11. \A k \in Comp : FramesFit(k)' /\ OverIfRegistered(k)'
    BY <1>8, <2>7, <2>8 DEF RInv
  <2> QED
    BY <1>8, <1>9, <2>6, <2>10, <2>11 DEF RInv, Kept
<1> QED
  BY <1>11, <1>12

LEMMA StartProvidingOK ==
    ASSUME RInv, FInv', StartProviding
    PROVE  Kept
<1>0. PICK x : x = Top.node
  OBVIOUS
<1>1. stack # <<>> /\ Top.kind = "called" /\ removing = <<>> /\ Types /\ stack \in Seq(Frames)
  BY DEF StartProviding, Settled, RInv, FInv, Frames
<1>2. x \in Comp
  BY <1>0, <1>1, TopFrame
<1>3. CASE /\ providingState[x] = "none"
           /\ providingState' = [providingState EXCEPT ![x] = "inProgress"]
           /\ stack' = Append(Below, Frame(x, "provider"))
           /\ UNCHANGED <<providedErr, regResult, lateInitsQueue, stats, pending, removing, user>>
  BY <1>0, <1>1, <1>3, ProviderStartsOK DEF user
<1>4. CASE /\ providingState' = [providingState EXCEPT ![x] = "provided"]
           /\ providedErr' = [providedErr EXCEPT ![x] = TRUE]
           /\ cycled' = cycled \cup {x}
           /\ ProviderFrameEnds(TRUE, FALSE)
  <2>1. providedErr' \in [Comp -> BOOLEAN] /\ \A n \in Comp \ {x} : providedErr'[n] = providedErr[n]
    BY <1>1, <1>4 DEF Types
  <2>2. cycled \subseteq cycled' /\ cycled' \subseteq Comp /\ x \in cycled'
    BY <1>1, <1>2, <1>4 DEF Types
  <2> QED
    BY <1>0, <1>1, <1>2, <1>4, <2>1, <2>2, ProviderEndsOK
<1>5. CASE /\ providingState[x] = "provided"
           /\ UNCHANGED <<providingState, providedErr, cycled>>
           /\ ProviderFrameEnds(providedErr[x], FALSE)
  <2>1. providedErr' \in [Comp -> BOOLEAN] /\ providedErr[x] \in BOOLEAN /\ cycled' \subseteq Comp
    BY <1>1, <1>2, <1>5 DEF Types
  <2>2. providingState' = [providingState EXCEPT ![x] = "provided"]
    BY <1>1, <1>2, <1>5 DEF Types
  <2> QED
    BY <1>0, <1>1, <1>2, <1>5, <2>1, <2>2, ProviderEndsOK
<1> QED
  BY <1>0, <1>3, <1>4, <1>5 DEF StartProviding

LEMMA ProviderReturnsOK ==
    ASSUME RInv, FInv', ProviderReturns \/ ProviderPanics
    PROVE  Kept
<1>0. PICK x : x = Top.node
  OBVIOUS
<1>1. stack # <<>> /\ Top.kind = "provider" /\ removing = <<>> /\ Types /\ cycled' = cycled
      /\ providingState' = [providingState EXCEPT ![x] = "provided"]
  BY <1>0 DEF ProviderReturns, ProviderPanics, UserCode, Settled, RInv
<1>2. x \in Comp
  BY <1>0, <1>1, RunsItsCode
<1>3. ASSUME NEW err \in BOOLEAN, NEW report \in BOOLEAN, ProviderFrameEnds(err, report),
             \/ providedErr' = [providedErr EXCEPT ![x] = err]
             \/ err /\ providedErr' = providedErr
      PROVE  Kept
  <2>1. /\ providedErr' \in [Comp -> BOOLEAN] /\ \A n \in Comp \ {x} : providedErr'[n] = providedErr[n]
        /\ providedErr'[x] => err
    BY <1>1, <1>2, <1>3 DEF Types
  <2>2. cycled \subseteq cycled' /\ cycled' \subseteq Comp
    BY <1>1 DEF Types
  <2> QED
    BY <1>0, <1>1, <1>2, <1>3, <2>1, <2>2, ProviderEndsOK, ZenonT(60)
<1>4. CASE ProviderReturns
  BY <1>0, <1>3, <1>4 DEF ProviderReturns
<1>5. CASE ProviderPanics
  BY <1>0, <1>3, <1>5 DEF ProviderPanics
<1> QED
  BY <1>4, <1>5

LEMMA EveryStepKeeps == ASSUME RInv, [Next]_vars PROVE Kept
<1>0. FInv'
  BY FramesNext DEF RInv
<1>1. ASSUME NEW g \in Caller, Ask(g, asks[g]) \/ EndChain(g) PROVE Kept
  BY <1>0, <1>1, SameStep DEF Ask, EndChain, frames, user
<1>2. ASSUME NEW g \in Caller, EnterChain(g) PROVE Kept
  <2>1. asks[g] \in Comp
    BY DEF RInv, FInv
  <2>2. CASE UNCHANGED <<frames, pending>>
    BY <1>0, <1>2, <2>2, SameStep DEF EnterChain, frames, user
  <2>3. CASE Add({}, asks[g]) /\ PushProviderFrame(asks[g])
    <3>1. UNCHANGED <<componentNode, removing, cycled>>
      BY <1>2 DEF EnterChain, user
    <3>2. {} \in SUBSET Comp /\ \A d \in {} \ cycled : IsPending(d)
      OBVIOUS
    <3> QED
      BY <1>0, <2>1, <2>3, <3>1, <3>2, CalledOK
  <2> QED
    BY <1>2, <2>2, <2>3 DEF EnterChain
<1>3. ASSUME NEW m \in Comp, Call(m) PROVE Kept
  <2>1. UNCHANGED <<componentNode, removing, cycled>>
    BY <1>3 DEF Call
  <2>2. CASE UNCHANGED <<frames, pending>>
    BY <1>0, <2>1, <2>2, SameStep DEF frames
  <2>3. CASE Add({Top.node}, m) /\ PushProviderFrame(m)
    <3>1. stack # <<>> /\ Top.kind \in {"provider", "lateInit"}
      BY <1>3 DEF Call, UserCode
    <3>2. {Top.node} \in SUBSET Comp /\ \A d \in {Top.node} \ cycled : IsPending(d)
      BY <3>1, RunsItsCode
    <3> QED
      BY <1>0, <2>1, <2>3, <3>2, CalledOK
  <2> QED
    BY <1>3, <2>2, <2>3 DEF Call
<1>4. CASE GetterReturns
  BY <1>0, <1>4, SameStep DEF GetterReturns, frames
<1>5. CASE UNCHANGED vars
  BY <1>0, <1>5, SameStep DEF vars, frames, user
<1> QED
  BY <1>0, <1>1, <1>2, <1>3, <1>4, <1>5, UseLateInitOK, UseLifecycleOK, StartProvidingOK, ProviderReturnsOK,
     LateInitReturnsOK, RemovePendingOK, LateInitStartsOK DEF Next, AllAnswered

LEMMA RegisteredNext == RInv /\ [Next]_vars => RInv'
  BY EveryStepKeeps DEF Kept

HooksTyped == nodeHasHooks = [n \in Comp |-> nodeHasHooks[n]]

LEMMA OnlyRemovalsRegister ==
    ASSUME [Next]_vars, ~RemovePending
    PROVE  UNCHANGED regResult
BY DEF Next, vars, componentNode, Ask, EnterChain, EndChain, Call, UseLateInit, UseLifecycle, StartProviding,
   ProviderReturns, ProviderPanics, ProviderFrameEnds, LateInitReturns, GetterReturns, ExecuteQueuedLateInit,
   AllAnswered

LEMMA HooksTypedNext == HooksTyped /\ [Next]_vars => HooksTyped'
<1>1. ASSUME HooksTyped, RemovePending PROVE HooksTyped'
  <2>1. PICK a : Remove(a)
    BY <1>1 DEF RemovePending, RemoveNext
  <2>2. UNCHANGED nodeHasHooks \/ \E hooks : nodeHasHooks' = [nodeHasHooks EXCEPT ![a.node] = hooks]
    BY <2>1, Zenon DEF Remove, SetRegResult, regResult
  <2> QED
    BY <1>1, <2>2 DEF HooksTyped
<1> QED
  BY <1>1, OnlyRemovalsRegister DEF HooksTyped, regResult

\* Only removals write registrations, and they write none of a registered component.
LEMMA StepKeepsRegistrations ==
    ASSUME RInv, HooksTyped, [Next]_vars, NEW n \in Comp \ cycled, IsRegistered(n)
    PROVE  UNCHANGED <<regState[n], nodeDependsOn[n], nodeHasHooks[n]>>
<1>1. CASE RemovePending
  <2>1. PICK a : Remove(a)
    BY <1>1 DEF RemovePending, RemoveNext
  <2>2. ~IsPending(n)
    BY DEF RInv, OverIfRegistered
  <2>3. UNCHANGED regResult \/ a.node # n
    BY <2>1, <2>2 DEF Remove
  <2>4. CASE a.node # n /\ \E err, deps, hooks, has : SetRegResult(a.node, err, deps, hooks, has)
    BY <2>4 DEF SetRegResult, RInv, Types, HooksTyped
  <2>5. UNCHANGED regResult \/ \E err, deps, hooks, has : SetRegResult(a.node, err, deps, hooks, has)
    BY <2>1, Zenon DEF Remove
  <2> QED
    BY <2>3, <2>4, <2>5 DEF regResult
<1> QED
  BY <1>1, OnlyRemovalsRegister DEF regResult

\* A registered component keeps its registration: its state, its hooks and what it depends on are
\* written once (node.go:195), whatever user code does, unless it was asked for while it
\* was being provided.
THEOREM RegistrationIsKept == Spec => RegisteredOnce
<1>1. RInv /\ HooksTyped /\ [Next]_vars =>
         [\A n \in Comp \ cycled :
             IsRegistered(n) => UNCHANGED <<regState[n], nodeDependsOn[n], nodeHasHooks[n]>>]_vars
  BY StepKeepsRegistrations
<1>2. Init => HooksTyped
  BY DEF Init, NodeInit, HooksTyped
<1> QED
  BY <1>1, <1>2, HooksTypedNext, RegisteredInit, RegisteredNext, PTL DEF Spec, RegisteredOnce

-----------------------------------------------------------------------------
(* A getter called outside of providers returns a complete component. *)

\* A component that a goroutine asks for in a chain has ended when it has no frame left,
\* and one that a goroutine got has ended.
AskedEnd ==
    \A g \in Caller, x \in Comp : x = asks[g] /\ x \notin cycled =>
        /\ caller[g] = "inChain" => totalFramesCount[x] # 0 \/ Over(x)
        /\ caller[g] = "returned" => Over(x)
AInv == RInv /\ AskedEnd /\ caller = [g \in Caller |-> caller[g]]

LEMMA NothingOnStack ==
    ASSUME FInv, stack = <<>>, QueueLen = 0, NEW n \in Comp
    PROVE  totalFramesCount[n] = 0
<1>1. Len(items) \in Nat /\ frontIndex \in -1 .. Len(items) /\ (frontIndex = -1 => items = <<>>)
  BY DEF FInv, IsQueue
<1>2. Queued(items, frontIndex, n) = {}
  <2>1. Len(items) <= frontIndex \/ Len(items) = 0
    BY <1>1 DEF QueueLen, QueueLength
  <2> QED
    BY <1>1, <2>1 DEF Queued
<1>3. FramesIn(stack, n) = {}
  BY DEF FramesIn
<1>4. Cardinality(Queued(items, frontIndex, n)) = 0 /\ Cardinality(FramesIn(stack, n)) = 0
  BY <1>2, <1>3, FS_EmptySet
<1> QED
  BY <1>4 DEF FInv, Counted

\* With the last frame of a component, its provider has run.
LEMMA LastFrameEnds ==
    ASSUME RInv, [Next]_vars, NEW n \in Comp, totalFramesCount[n] # 0, totalFramesCount'[n] = 0, n \notin cycled
    PROVE  Over(n)'
<1>1. FInv /\ Types /\ FramesFit(n) /\ FInv'
  BY FramesNext DEF RInv
<1>2. totalFramesCount \in [Comp -> Nat]
  BY <1>1 DEF FInv
<1>3. ASSUME NEW m, totalFramesCount' = [totalFramesCount EXCEPT ![m] = @ + 1] PROVE FALSE
  BY <1>2, <1>3
<1>4. ASSUME NEW err, PopTopFrame(err) PROVE n = Top.node
  BY <1>2, <1>4 DEF PopTopFrame
<1>5. ASSUME NEW err, NEW report, ProviderFrameEnds(err, report),
             \/ providingState' = [providingState EXCEPT ![Top.node] = "provided"]
             \/ providingState[Top.node] = "provided" /\ UNCHANGED providingState
      PROVE  providingState'[n] = "provided"
  BY <1>1, <1>4, <1>5 DEF ProviderFrameEnds, Types
<1>6. providingState'[n] = "provided"
  <2>1. CASE UNCHANGED totalFramesCount
    BY <2>1
  <2>2. ASSUME NEW g \in Caller, Ask(g, asks[g]) \/ EnterChain(g) \/ EndChain(g) PROVE FALSE
    BY <1>3, <2>2 DEF Ask, EnterChain, EndChain, PushProviderFrame, frames, stats
  <2>3. ASSUME NEW m \in Comp, Call(m) PROVE FALSE
    BY <1>3, <2>3 DEF Call, PushProviderFrame, frames, stats
  <2>4. CASE UseLateInit
    BY <1>3, <2>4 DEF UseLateInit, LateInitQueuePush
  <2>5. CASE StartProviding
    <3>1. CASE UNCHANGED stats
      BY <3>1 DEF stats
    <3>2. CASE ~ UNCHANGED stats
      BY <1>5, <2>5, <3>2 DEF StartProviding
    <3> QED
      BY <3>1, <3>2
  <2>6. CASE ProviderReturns \/ ProviderPanics
    BY <1>5, <2>6 DEF ProviderReturns, ProviderPanics
  <2>7. CASE LateInitReturns
    <3>1. n = Top.node /\ providingState' = providingState
      BY <1>4, <2>7 DEF LateInitReturns, componentNode
    <3>2. Len(stack) \in InLateInit(n)
      BY <2>7, <3>1, RunsItsCode DEF LateInitReturns, UserCode
    <3> QED
      BY <1>1, <3>1, <3>2 DEF FramesFit
  <2>8. CASE UseLifecycle \/ GetterReturns \/ RemovePending \/ ExecuteQueuedLateInit \/ UNCHANGED vars
    BY <2>1, <2>8 DEF UseLifecycle, GetterReturns, RemovePending, ExecuteQueuedLateInit,
       PushQueuedLateInitFrameToStack, frames, stats, vars
  <2> QED
    BY <2>2, <2>3, <2>4, <2>5, <2>6, <2>7, <2>8 DEF Next, AllAnswered
<1> QED
  BY <1>1, <1>6, NoFramesNext DEF NothingLeft, Over

LEMMA AnswersInit == Init => AInv
<1> SUFFICES ASSUME Init PROVE AInv
  OBVIOUS
<1>1. caller = [g \in Caller |-> "idle"]
  BY DEF Init
<1> QED
  BY <1>1, RegisteredInit DEF AInv, AskedEnd

LEMMA AnswersNext == AInv /\ [Next]_vars => AInv'
<1> SUFFICES ASSUME AInv, [Next]_vars PROVE AInv'
  OBVIOUS
<1>1. RInv /\ Kept /\ FInv /\ FInv' /\ asks \in [Caller -> Comp]
  BY EveryStepKeeps, FramesNext DEF AInv, RInv, FInv
<1>2. cycled \subseteq cycled'
  BY DEF Next, vars, user, Ask, EnterChain, EndChain, Call, UseLateInit, UseLifecycle, StartProviding,
     ProviderReturns, ProviderPanics, LateInitReturns, GetterReturns, RemovePending, ExecuteQueuedLateInit,
     AllAnswered
<1>3. ASSUME NEW n \in Comp, n \notin cycled'
      PROVE  /\ Over(n) => Over(n)'
             /\ totalFramesCount[n] # 0 => totalFramesCount'[n] # 0 \/ Over(n)'
  BY <1>1, <1>2, <1>3, LastFrameEnds DEF Kept
<1>4. ASSUME UNCHANGED <<caller, asks>> PROVE AInv'
  <2>1. ASSUME NEW h \in Caller, NEW x \in Comp, x = asks[h], x \notin cycled'
        PROVE  /\ caller[h] = "inChain" => totalFramesCount'[x] # 0 \/ Over(x)'
               /\ caller[h] = "returned" => Over(x)'
    <3>1. /\ caller[h] = "inChain" => totalFramesCount[x] # 0 \/ Over(x)
          /\ caller[h] = "returned" => Over(x)
      BY <1>2, <2>1 DEF AInv, AskedEnd
    <3> QED
      BY <1>3, <2>1, <3>1
  <2>3. AskedEnd'
    BY <1>4, <2>1 DEF AskedEnd
  <2> QED
    BY <1>1, <1>4, <2>3 DEF AInv, Kept
<1>5. ASSUME NEW g \in Caller, Ask(g, asks[g]) \/ EnterChain(g) \/ EndChain(g) PROVE AInv'
  <2>0. PICK x \in Comp : x = asks[g]
    BY <1>1
  <2>1. asks' = asks
    BY <1>1, <1>5 DEF Ask, EnterChain, EndChain
  <2>2. caller' = [caller EXCEPT ![g] = "returned"] \/ caller' = [caller EXCEPT ![g] = "waiting"]
          \/ caller' = [caller EXCEPT ![g] = "inChain"]
    BY <1>5 DEF Ask, EnterChain, EndChain
  <2>3. caller' = [h \in Caller |-> caller'[h]] /\ \A h \in Caller \ {g} : caller'[h] = caller[h]
    BY <2>2 DEF AInv
  <2>4. ASSUME x \notin cycled', caller'[g] = "returned" PROVE Over(x)'
    <3>1. CASE IsRegistered(x)
      <4>1. Over(x)
        BY <1>2, <2>4, <3>1 DEF AInv, RInv, OverIfRegistered
      <4> QED
        BY <1>3, <2>4, <4>1
    <3>2. CASE ~IsRegistered(x)
      <4>1. caller[g] \in {"idle", "waiting", "inChain"} /\ caller = [h \in Caller |-> caller[h]]
        BY <1>5 DEF Ask, EnterChain, EndChain, AInv
      <4>2. EndChain(g)
        BY <1>5, <2>0, <2>4, <3>2, <4>1 DEF Ask, EnterChain
      <4>3. totalFramesCount[x] = 0 /\ caller[g] = "inChain"
        BY <1>1, <4>2, NothingOnStack DEF EndChain
      <4>4. Over(x)
        BY <1>2, <2>0, <2>4, <4>3 DEF AInv, AskedEnd
      <4> QED
        BY <1>3, <2>4, <4>4
    <3> QED
      BY <3>1, <3>2
  <2>5. ASSUME caller'[g] = "inChain" PROVE totalFramesCount'[x] # 0
    <3>1. caller = [h \in Caller |-> caller[h]] /\ totalFramesCount \in [Comp -> Nat]
      BY <1>1 DEF AInv, FInv
    <3>2. PushProviderFrame(x)
      BY <1>5, <2>0, <2>5, <3>1 DEF Ask, EnterChain, EndChain
    <3> QED
      BY <3>1, <3>2 DEF PushProviderFrame
  <2>6. ASSUME NEW h \in Caller \ {g}, NEW y \in Comp, y = asks[h], y \notin cycled'
        PROVE  /\ caller[h] = "inChain" => totalFramesCount'[y] # 0 \/ Over(y)'
               /\ caller[h] = "returned" => Over(y)'
    <3>1. /\ caller[h] = "inChain" => totalFramesCount[y] # 0 \/ Over(y)
          /\ caller[h] = "returned" => Over(y)
      BY <1>2, <2>6 DEF AInv, AskedEnd
    <3> QED
      BY <1>3, <2>6, <3>1
  <2>7. AskedEnd'
    <3> SUFFICES ASSUME NEW h \in Caller, NEW y \in Comp, y = asks[h], y \notin cycled'
                 PROVE  /\ caller'[h] = "inChain" => totalFramesCount'[y] # 0 \/ Over(y)'
                        /\ caller'[h] = "returned" => Over(y)'
      BY <2>1 DEF AskedEnd
    <3>1. CASE h = g
      BY <2>0, <2>4, <2>5, <3>1
    <3>2. CASE h # g
      BY <2>3, <2>6, <3>2
    <3> QED
      BY <3>1, <3>2
  <2> QED
    BY <1>1, <2>3, <2>7 DEF AInv, Kept
<1> QED
  BY <1>4, <1>5 DEF Next, vars, callers, Call, UseLateInit, UseLifecycle, StartProviding, ProviderFrameEnds,
     ProviderReturns, ProviderPanics, LateInitReturns, GetterReturns, RemovePending, ExecuteQueuedLateInit,
     AllAnswered

\* A getter called outside of providers returns only when nothing of its component is left
\* to run, whatever chains come later (use_late_init.go:14), unless the component was asked
\* for while it was being provided.
THEOREM GettersReturnComplete == Spec => []AnswersAreComplete
<1>1. AInv => AnswersAreComplete
  <2> SUFFICES ASSUME AInv, NEW g \in Caller, caller[g] = "returned", asks[g] \notin cycled
               PROVE  queuedLateInitsCount[asks[g]] = 0 /\ OnStack(asks[g], "lateInit") = {}
    BY DEF AnswersAreComplete
  <2>0. PICK x \in Comp : x = asks[g]
    BY DEF AInv, RInv, FInv
  <2>1. Over(x)
    BY <2>0 DEF AInv, AskedEnd
  <2>2. DOMAIN stack = 1 .. Len(stack)
    BY DEF AInv, RInv, FInv
  <2> QED
    BY <2>0, <2>1, <2>2 DEF Over, OnStack, InLateInit, Places
<1> QED
  BY <1>1, AnswersInit, AnswersNext, PTL DEF Spec

-----------------------------------------------------------------------------
(* The walk that counts unfinished components. The equation of CountLoop is monotone in
   the sets of outcomes, so that it has a solution: the intersection of all families that
   are closed under it. Hence CountLoop, which is one, can be unfolded. *)

Outcomes == [count : Nat, visited : SUBSET Comp]
Outcome(k, seen) == [count |-> k, visited |-> seen]

RecType ==
    [dependsOn : SUBSET Comp, dependents : SUBSET Comp, lcHookBuilders : BOOLEAN, lcHooks : BOOLEAN,
     waitsForDepsCount : Nat \cup {waitsForOwnFrames}, hasOwnOrTransitiveRunnables : BOOLEAN]
RecsTyped == DOMAIN pending \subseteq Comp /\ \A n \in DOMAIN pending : pending[n] \in RecType

waits(n) == pending[n].waitsForDepsCount
deps(n) == pending[n].dependsOn

\* What a visit of m, and the loop as a whole, find if the loops below find h.
Visited(h, l, m) ==
    IF m \in l.visited \/ RecOf(m).waitsForDepsCount = 0 THEN {Outcome(0, l.visited \cup {m})}
    ELSE IF RecOf(m).waitsForDepsCount = waitsForOwnFrames THEN {Outcome(1, l.visited \cup {m})}
    ELSE h[Loop(RecOf(m).waitsForDepsCount, deps(m), l.visited \cup {m}, 0)]
LoopAfter(l, m, v) == Loop(l.limit, l.todo \ {m}, v.visited, l.count + v.count)
Ends(l) == l.todo = {} \/ l.count >= l.limit
Body(h, l) ==
    IF Ends(l) THEN {Outcome(l.count, l.visited)}
    ELSE UNION {UNION {h[LoopAfter(l, m, v)] : v \in Visited(h, l, m)} : m \in l.todo}

LEMMA LoopsTyped ==
    ASSUME RecsTyped, NEW l \in Loops, NEW m \in l.todo
    PROVE  /\ m \in Comp
           /\ ~(m \in l.visited \/ RecOf(m).waitsForDepsCount = 0) =>
                 /\ m \in DOMAIN pending /\ RecOf(m) = pending[m]
                 /\ RecOf(m).waitsForDepsCount # waitsForOwnFrames =>
                       /\ waits(m) \in Nat \ {0}
                       /\ Loop(RecOf(m).waitsForDepsCount, deps(m), l.visited \cup {m}, 0) \in Loops
           /\ \A v \in Outcomes : LoopAfter(l, m, v) \in Loops
           /\ Outcome(0, l.visited \cup {m}) \in Outcomes /\ Outcome(1, l.visited \cup {m}) \in Outcomes
<1>1. m \in Comp /\ l.visited \in SUBSET Comp /\ l.todo \in SUBSET Comp /\ l.limit \in Nat /\ l.count \in Nat
  BY DEF Loops
<1>2. ASSUME ~(m \in l.visited \/ RecOf(m).waitsForDepsCount = 0)
      PROVE  /\ m \in DOMAIN pending /\ RecOf(m) = pending[m]
             /\ RecOf(m).waitsForDepsCount # waitsForOwnFrames =>
                   /\ waits(m) \in Nat \ {0}
                   /\ Loop(RecOf(m).waitsForDepsCount, deps(m), l.visited \cup {m}, 0) \in Loops
  <2>1. m \in DOMAIN pending /\ RecOf(m) = pending[m]
    BY <1>2 DEF RecOf, IsPending, Rec
  <2>2. pending[m].waitsForDepsCount \in Nat \cup {waitsForOwnFrames} /\ deps(m) \in SUBSET Comp
    BY <2>1 DEF RecsTyped, RecType, deps
  <2>3. ASSUME RecOf(m).waitsForDepsCount # waitsForOwnFrames
        PROVE  /\ waits(m) \in Nat \ {0}
               /\ Loop(RecOf(m).waitsForDepsCount, deps(m), l.visited \cup {m}, 0) \in Loops
    <3>1. waits(m) \in Nat \ {0} /\ RecOf(m).waitsForDepsCount = waits(m)
      BY <1>2, <2>1, <2>2, <2>3 DEF waits
    <3>2. l.visited \cup {m} \in SUBSET Comp
      BY <1>1
    <3> QED
      BY <3>1, <3>2, <2>2 DEF Loop, Loops
  <2> QED
    BY <2>1, <2>3
<1>3. ASSUME NEW v \in Outcomes PROVE LoopAfter(l, m, v) \in Loops
  <2>1. v.visited \in SUBSET Comp /\ l.count + v.count \in Nat /\ l.todo \ {m} \in SUBSET Comp
    BY <1>1, <1>3 DEF Outcomes
  <2> QED
    BY <1>1, <2>1 DEF LoopAfter, Loop, Loops
<1>4. Outcome(0, l.visited \cup {m}) \in Outcomes /\ Outcome(1, l.visited \cup {m}) \in Outcomes
  BY <1>1 DEF Outcome, Outcomes
<1> QED
  BY <1>1, <1>2, <1>3, <1>4

Families == [Loops -> SUBSET Outcomes]

LEMMA BodyTyped ==
    ASSUME RecsTyped, NEW h \in Families, NEW l \in Loops
    PROVE  /\ Body(h, l) \in SUBSET Outcomes
           /\ \A m \in l.todo : Visited(h, l, m) \in SUBSET Outcomes
<1>1. ASSUME NEW m \in l.todo PROVE Visited(h, l, m) \in SUBSET Outcomes
  BY LoopsTyped DEF Visited, Families
<1>2. ASSUME NEW m \in l.todo, NEW v \in Visited(h, l, m) PROVE h[LoopAfter(l, m, v)] \in SUBSET Outcomes
  <2>1. v \in Outcomes
    BY <1>1
  <2>2. LoopAfter(l, m, v) \in Loops
    BY <2>1, LoopsTyped
  <2> QED
    BY <2>2 DEF Families
<1>3. Outcome(l.count, l.visited) \in Outcomes
  BY DEF Outcome, Outcomes, Loops
<1> QED
  BY <1>1, <1>2, <1>3 DEF Body

LEMMA BodyMonotone ==
    ASSUME RecsTyped, NEW h \in Families, NEW k \in Families, \A l \in Loops : h[l] \subseteq k[l],
           NEW l \in Loops
    PROVE  Body(h, l) \subseteq Body(k, l)
<1>1. ASSUME NEW m \in l.todo PROVE Visited(h, l, m) \subseteq Visited(k, l, m)
  BY LoopsTyped DEF Visited
<1>2. ASSUME NEW m \in l.todo, NEW v \in Visited(h, l, m) PROVE h[LoopAfter(l, m, v)] \subseteq k[LoopAfter(l, m, v)]
  <2>1. v \in Outcomes
    BY BodyTyped
  <2> QED
    BY <2>1, LoopsTyped
<1> QED
  BY <1>1, <1>2 DEF Body

LEMMA CountLoopUnfolds ==
    ASSUME RecsTyped
    PROVE  CountLoop = [l \in Loops |-> Body(CountLoop, l)]
<1> DEFINE Closed == {h \in Families : \A l \in Loops : Body(h, l) \subseteq h[l]}
           f == [l \in Loops |-> {v \in Outcomes : \A h \in Closed : v \in h[l]}]
           g == [l \in Loops |-> Body(f, l)]
<1>1. f \in Families
  BY DEF Families
<1>2. \A h \in Closed, l \in Loops : f[l] \subseteq h[l]
  OBVIOUS
<1>3. ASSUME NEW l \in Loops PROVE Body(f, l) \subseteq f[l]
  <2>1. Body(f, l) \in SUBSET Outcomes
    BY <1>1, BodyTyped
  <2>2. ASSUME NEW h \in Closed PROVE Body(f, l) \subseteq h[l]
    <3>1. h \in Families /\ Body(h, l) \subseteq h[l]
      OBVIOUS
    <3>2. Body(f, l) \subseteq Body(h, l)
      <4> HIDE DEF f
      <4> QED
        BY <1>1, <1>2, <3>1, BodyMonotone
    <3> QED
      BY <3>1, <3>2
  <2> QED
    BY <2>1, <2>2
<1> HIDE DEF f
<1>4. g \in Families
  BY <1>1, BodyTyped DEF Families
<1>5. \A l \in Loops : g[l] \subseteq f[l]
  BY <1>3
<1>6. g \in Closed
  <2>1. ASSUME NEW l \in Loops PROVE Body(g, l) \subseteq g[l]
    <3>1. g[l] = Body(f, l)
      OBVIOUS
    <3> HIDE DEF g
    <3> QED
      BY <1>1, <1>4, <1>5, <3>1, BodyMonotone
  <2> QED
    BY <1>4, <2>1
<1>7. \A l \in Loops : f[l] = Body(f, l)
  BY <1>2, <1>3, <1>6
<1>8. f = [l \in Loops |-> Body(f, l)]
  BY <1>1, <1>7 DEF Families
<1> DEFINE Solves(h) == h = [l \in Loops |-> Body(h, l)]
<1>9. CountLoop = CHOOSE h : Solves(h)
  BY DEF CountLoop, Body, Visited, LoopAfter, Ends, Outcome, Loops, deps
<1> QED
  BY <1>8, <1>9

\* What a walk has found if it has counted nothing: every component that it has visited is
\* finished, and so are the dependencies of each.
Finished(k, seen) == IsPending(k) => waits(k) # waitsForOwnFrames /\ deps(k) \subseteq seen
Found(l, v) ==
    /\ v \in Outcomes /\ l.visited \subseteq v.visited /\ l.count <= v.count
    /\ v.count = 0 /\ l.limit > 0 =>
          l.todo \subseteq v.visited /\ \A k \in v.visited \ l.visited : Finished(k, v.visited)
Good(l) == \A v \in CountLoop[l] : Found(l, v)

NoneZero == \A n \in DOMAIN pending : waits(n) # 0

\* A visit of one component.
LEMMA VisitFinds ==
    ASSUME RecsTyped, NoneZero, NEW l \in Loops, NEW m \in l.todo, NEW w \in Visited(CountLoop, l, m),
           \A k \in Loops : l.visited \subseteq k.visited /\ k.visited # l.visited => Good(k)
    PROVE  /\ w \in Outcomes /\ l.visited \cup {m} \subseteq w.visited
           /\ w.count = 0 => \A k \in w.visited \ l.visited : Finished(k, w.visited)
<1>1. CASE m \in l.visited \/ RecOf(m).waitsForDepsCount = 0
  <2>1. w = Outcome(0, l.visited \cup {m})
    BY <1>1 DEF Visited
  <2>2. w.visited = l.visited \cup {m} /\ w \in Outcomes
    BY <2>1, LoopsTyped DEF Outcome
  <2>3. m \notin l.visited => ~IsPending(m)
    BY <1>1 DEF RecOf, NoneZero, IsPending, waits
  <2> QED
    BY <2>2, <2>3 DEF Finished
<1>2. CASE /\ ~(m \in l.visited \/ RecOf(m).waitsForDepsCount = 0)
           /\ RecOf(m).waitsForDepsCount = waitsForOwnFrames
  <2>1. w = Outcome(1, l.visited \cup {m})
    BY <1>2 DEF Visited
  <2>2. w.visited = l.visited \cup {m} /\ w.count = 1 /\ w \in Outcomes
    BY <2>1, LoopsTyped DEF Outcome
  <2> QED
    BY <2>2
<1>3. CASE /\ ~(m \in l.visited \/ RecOf(m).waitsForDepsCount = 0)
           /\ RecOf(m).waitsForDepsCount # waitsForOwnFrames
  <2> DEFINE k == Loop(RecOf(m).waitsForDepsCount, deps(m), l.visited \cup {m}, 0)
  <2>1. k \in Loops /\ waits(m) \in Nat \ {0} /\ RecOf(m) = pending[m] /\ m \in DOMAIN pending
    BY <1>3, LoopsTyped
  <2>2. w \in CountLoop[k]
    BY <1>3 DEF Visited
  <2>3. k.visited = l.visited \cup {m} /\ k.todo = deps(m) /\ k.limit = waits(m)
    BY <2>1 DEF Loop, waits
  <2> HIDE DEF k
  <2>4. Good(k)
    BY <1>3, <2>1, <2>3
  <2>5. Found(k, w)
    BY <2>2, <2>4 DEF Good
  <2>6. waits(m) # waitsForOwnFrames
    BY <2>1 DEF waitsForOwnFrames
  <2> QED
    BY <2>1, <2>3, <2>5, <2>6 DEF Found, Finished
<1> QED
  BY <1>1, <1>2, <1>3

LEMMA LoopFinds ==
    ASSUME RecsTyped, NoneZero, NEW l \in Loops,
           \A k \in Loops : l.visited \subseteq k.visited /\ k.visited # l.visited => Good(k),
           \A k \in Loops : l.visited \subseteq k.visited /\ (\E m \in l.todo : k.todo = l.todo \ {m}) => Good(k)
    PROVE  Good(l)
<1> SUFFICES ASSUME NEW v \in CountLoop[l] PROVE Found(l, v)
  BY DEF Good
<1>0. CountLoop[l] = Body(CountLoop, l)
  BY CountLoopUnfolds
<1>1. CASE Ends(l)
  <2>1. v = Outcome(l.count, l.visited)
    BY <1>0, <1>1 DEF Body
  <2> QED
    BY <1>1, <2>1 DEF Found, Outcome, Outcomes, Loops, Ends
<1>2. CASE ~Ends(l)
  <2>1. PICK m \in l.todo : \E w \in Visited(CountLoop, l, m) : v \in CountLoop[LoopAfter(l, m, w)]
    BY <1>0, <1>2 DEF Body
  <2>2. PICK w \in Visited(CountLoop, l, m) : v \in CountLoop[LoopAfter(l, m, w)]
    BY <2>1
  <2>3. /\ w \in Outcomes /\ l.visited \cup {m} \subseteq w.visited
        /\ w.count = 0 => \A k \in w.visited \ l.visited : Finished(k, w.visited)
    BY VisitFinds
  <2> DEFINE k == LoopAfter(l, m, w)
  <2>4. k \in Loops
    BY <2>3, LoopsTyped
  <2>5. k.visited = w.visited /\ k.todo = l.todo \ {m} /\ k.limit = l.limit /\ k.count = l.count + w.count
    BY DEF LoopAfter, Loop
  <2> HIDE DEF k
  <2>6. Good(k)
    BY <2>3, <2>4, <2>5
  <2>7. Found(k, v)
    BY <2>2, <2>6 DEF Good, k
  <2>8. l.count \in Nat /\ w.count \in Nat /\ v.count \in Nat
    BY <2>3, <2>7 DEF Loops, Outcomes, Found
  <2>9. l.count <= v.count /\ (v.count = 0 => l.count = 0 /\ w.count = 0)
    BY <2>5, <2>7, <2>8 DEF Found
  <2>10. ASSUME v.count = 0, l.limit > 0
         PROVE  l.todo \subseteq v.visited /\ \A j \in v.visited \ l.visited : Finished(j, v.visited)
    <3>1. l.todo \subseteq v.visited
      BY <2>3, <2>5, <2>7, <2>10 DEF Found
    <3>2. ASSUME NEW j \in v.visited \ l.visited PROVE Finished(j, v.visited)
      <4>1. CASE j \in w.visited
        BY <2>3, <2>5, <2>7, <2>9, <2>10, <4>1 DEF Found, Finished
      <4>2. CASE j \notin w.visited
        BY <2>5, <2>7, <2>10, <4>2 DEF Found
      <4> QED
        BY <4>1, <4>2
    <3> QED
      BY <3>1, <3>2
  <2> QED
    BY <2>3, <2>5, <2>7, <2>9, <2>10 DEF Found
<1> QED
  BY <1>1, <1>2

\* By induction over what is not visited yet, and over what is left to do.
\* A loop calls itself with more visited, or with less left to do.
Calls(l) ==
    {k \in Loops :
        /\ l.visited \subseteq k.visited
        /\ k.visited # l.visited \/ \E m \in l.todo : k.todo = l.todo \ {m}}
Inductive(G) == \A l \in Loops : Calls(l) \subseteq G => l \in G

LEMMA LoopInduction ==
    ASSUME NEW G, Inductive(G)
    PROVE  Loops \subseteq G
<1>0. ASSUME NEW l \in Loops
      PROVE  /\ IsFiniteSet(Comp \ l.visited) /\ Cardinality(Comp \ l.visited) \in Nat
             /\ IsFiniteSet(l.todo) /\ Cardinality(l.todo) \in Nat
  BY CompAssumption, FS_Subset, FS_CardinalityType DEF Loops
<1> DEFINE Q == {u \in Nat : \A l \in Loops : Cardinality(Comp \ l.visited) < u => l \in G}
<1>1. 0 \in Q
  BY <1>0
<1>2. ASSUME NEW u \in Q PROVE u + 1 \in Q
  <2> DEFINE R == {t \in Nat : \A l \in Loops :
                       Cardinality(Comp \ l.visited) < u + 1 /\ Cardinality(l.todo) < t => l \in G}
  <2>1. 0 \in R
    BY <1>0
  <2>2. ASSUME NEW t \in R PROVE t + 1 \in R
    <3>0. t \in Nat /\ u \in Nat
      OBVIOUS
    <3>1. ASSUME NEW l \in Loops, Cardinality(Comp \ l.visited) < u + 1, Cardinality(l.todo) < t + 1
          PROVE  l \in G
      <4>1. ASSUME NEW k \in Loops, l.visited \subseteq k.visited, k.visited # l.visited PROVE k \in G
        <5>1. Comp \ k.visited \subseteq Comp \ l.visited /\ Comp \ k.visited # Comp \ l.visited
          BY <4>1 DEF Loops
        <5>2. Cardinality(Comp \ k.visited) < Cardinality(Comp \ l.visited)
          BY <1>0, <5>1, FS_Subset
        <5>3. Cardinality(Comp \ k.visited) < u
          <6> HIDE DEF Q, R
          <6> QED
            BY <1>0, <3>0, <3>1, <5>2
        <5> QED
          BY <5>3
      <4>2. ASSUME NEW k \in Loops, l.visited \subseteq k.visited, NEW m \in l.todo, k.todo = l.todo \ {m}
            PROVE  k \in G
        <5>1. Cardinality(Comp \ k.visited) <= Cardinality(Comp \ l.visited)
          <6>1. Comp \ k.visited \subseteq Comp \ l.visited
            BY <4>2
          <6> QED
            BY <1>0, <6>1, FS_Subset
        <5>2. Cardinality(k.todo) < Cardinality(l.todo)
          <6>1. k.todo \in SUBSET l.todo /\ k.todo # l.todo
            BY <4>2
          <6>2. IsFiniteSet(l.todo) /\ Cardinality(l.todo) \in Nat /\ Cardinality(k.todo) \in Nat
            BY <1>0
          <6>3. Cardinality(k.todo) <= Cardinality(l.todo) /\ Cardinality(k.todo) # Cardinality(l.todo)
            BY <6>1, <6>2, FS_Subset
          <6> QED
            BY <6>2, <6>3
        <5>3. Cardinality(Comp \ k.visited) < u + 1 /\ Cardinality(k.todo) < t
          <6> HIDE DEF Q, R
          <6> QED
            BY <1>0, <3>0, <3>1, <5>1, <5>2
        <5> QED
          BY <5>3
      <4> HIDE DEF Q, R
      <4>3. ASSUME NEW k \in Calls(l) PROVE k \in G
        <5>1. k \in Loops /\ l.visited \subseteq k.visited
          BY DEF Calls
        <5>2. CASE k.visited # l.visited
          BY <4>1, <5>1, <5>2
        <5>3. CASE \E m \in l.todo : k.todo = l.todo \ {m}
          BY <4>2, <5>1, <5>3
        <5> QED
          BY <5>2, <5>3 DEF Calls
      <4> QED
        BY <4>3 DEF Inductive
    <3> QED
      BY <3>1
  <2>3. R = Nat
    <3> HIDE DEF R
    <3>1. R \in SUBSET Nat
      BY DEF R
    <3> QED
      BY <2>1, <2>2, <3>1, SetInduction
  <2>4. ASSUME NEW l \in Loops, Cardinality(Comp \ l.visited) < u + 1 PROVE l \in G
    <3>1. PICK t \in Nat : t = Cardinality(l.todo)
      BY <1>0
    <3>2. t + 1 \in R /\ t < t + 1
      <4> HIDE DEF R
      <4> QED
        BY <2>3
    <3> QED
      BY <2>4, <3>1, <3>2
  <2> QED
    BY <2>4
<1>3. Q = Nat
  <2> HIDE DEF Q
  <2>1. Q \in SUBSET Nat
    BY DEF Q
  <2> QED
    BY <1>1, <1>2, <2>1, SetInduction
<1>4. ASSUME NEW l \in Loops PROVE l \in G
  <2>1. PICK u \in Nat : u = Cardinality(Comp \ l.visited)
    BY <1>0
  <2>2. u + 1 \in Q /\ u < u + 1
    <3> HIDE DEF Q
    <3> QED
      BY <1>3
  <2> QED
    BY <2>1, <2>2
<1> QED
  BY <1>4

LEMMA WalksFind ==
    ASSUME RecsTyped, NoneZero
    PROVE  \A l \in Loops : Good(l)
<1> DEFINE G == {l \in Loops : Good(l)}
<1>1. Inductive(G)
  BY LoopFinds DEF Inductive, Calls
<1>2. Loops \subseteq G
  <2> HIDE DEF G
  <2> QED
    BY <1>1, LoopInduction
<1> QED
  BY <1>2

-----------------------------------------------------------------------------
(* What a component waits for. *)

\* Components that a walk with no count has found finished are enough to account for all
\* but as many dependencies as the component waits for.
LEMMA TotalCoversZeros ==
    ASSUME NEW A \in SUBSET Comp, NEW f \in [A -> 0 .. Cardinality(Comp)],
           NEW B \in SUBSET A, \A m \in B : f[m] # 0
    PROVE  Total(f) \in Nat /\ Cardinality(B) \in Nat /\ Cardinality(B) <= Total(f)
<1> DEFINE places == {p \in (DOMAIN f) \X (1 .. Cardinality(Comp)) : p[2] <= f[p[1]]}
           g == [m \in B |-> <<m, 1>>]
<1>1. Cardinality(Comp) \in Nat /\ IsFiniteSet(A) /\ IsFiniteSet(B) /\ DOMAIN f = A
  BY CompAssumption, FS_Subset, FS_CardinalityType
<1>2. IsFiniteSet(1 .. Cardinality(Comp))
  BY <1>1, FS_Interval
<1>3. IsFiniteSet((DOMAIN f) \X (1 .. Cardinality(Comp)))
  BY <1>1, <1>2, FS_Product
<1>4. IsFiniteSet(places)
  <2>1. places \subseteq (DOMAIN f) \X (1 .. Cardinality(Comp))
    OBVIOUS
  <2> HIDE DEF places
  <2> QED
    BY <1>3, <2>1, FS_Subset
<1>5. \A m \in B : <<m, 1>> \in places
  <2> SUFFICES ASSUME NEW m \in B PROVE <<m, 1>> \in places
    OBVIOUS
  <2>1. f[m] \in Nat /\ f[m] <= Cardinality(Comp) /\ f[m] # 0
    BY <1>1
  <2> QED
    BY <1>1, <2>1
<1> HIDE DEF places
<1>6. g \in Injection(B, places)
  BY <1>5 DEF Injection, IsInjective
<1>7. Cardinality(B) <= Cardinality(places)
  BY <1>4, <1>6, FS_Injection
<1> QED
  BY <1>1, <1>4, <1>7, FS_CardinalityType DEF Total, places

LEMMA WaitsCover ==
    ASSUME RecsTyped, NoneZero, NEW n \in DOMAIN pending, NEW w \in WaitsForDeps(n)
    PROVE  /\ w \in Nat
           /\ \E S \in SUBSET (DOMAIN pending \ {n}) :
                 /\ \A k \in S : waits(k) # waitsForOwnFrames /\ deps(k) \cap DOMAIN pending \subseteq S \cup {n}
                 /\ Cardinality((deps(n) \cap DOMAIN pending) \ (S \cup {n})) \in Nat
                 /\ Cardinality((deps(n) \cap DOMAIN pending) \ (S \cup {n})) <= w
<1>1. n \in Comp /\ deps(n) \in SUBSET Comp
  BY DEF RecsTyped, RecType, deps
<1>2. Cardinality(Comp) \in Nat /\ Cardinality(Comp) > 0
  BY <1>1, CompAssumption, FS_CardinalityType, FS_EmptySet
<1>3. PICK f \in [deps(n) -> 0 .. Cardinality(Comp)] :
          /\ w = Total(f)
          /\ \A m \in deps(n) : f[m] \in CountDepsTransitivelyWaitingForOwnFrames(m, n)
  BY DEF WaitsForDeps, deps
<1> DEFINE Walked(V) == \A j \in V \ {n} : Finished(j, V)
           S == {k \in DOMAIN pending \ {n} : \E V \in SUBSET Comp : k \in V /\ Walked(V)}
<1>4. ASSUME NEW m \in deps(n), f[m] = 0, m \in DOMAIN pending, m # n PROVE m \in S
  <2> DEFINE l == Loop(Cardinality(Comp), {m}, {n}, 0)
  <2>1. m \in Comp /\ l \in Loops /\ l.visited = {n} /\ l.todo = {m} /\ l.limit = Cardinality(Comp)
    BY <1>1, <1>2 DEF Loop, Loops
  <2>2. PICK v \in CountLoop[l] : v.count = 0
    BY <1>3, <1>4 DEF CountDepsTransitivelyWaitingForOwnFrames
  <2> HIDE DEF l
  <2>3. Found(l, v)
    BY <2>1, <2>2, WalksFind DEF Good
  <2>4. m \in v.visited /\ Walked(v.visited) /\ v.visited \in SUBSET Comp
    BY <1>2, <2>1, <2>2, <2>3 DEF Found, Outcomes
  <2> QED
    BY <1>4, <2>4
<1>5. ASSUME NEW k \in S
      PROVE  waits(k) # waitsForOwnFrames /\ deps(k) \cap DOMAIN pending \subseteq S \cup {n}
  <2>1. PICK V \in SUBSET Comp : k \in V /\ Walked(V)
    OBVIOUS
  <2>2. k \in DOMAIN pending \ {n}
    OBVIOUS
  <2>3. waits(k) # waitsForOwnFrames /\ deps(k) \subseteq V
    BY <2>1, <2>2 DEF Finished, IsPending
  <2> QED
    BY <2>1, <2>3
<1> DEFINE B == (deps(n) \cap DOMAIN pending) \ (S \cup {n})
<1>6. B \in SUBSET deps(n) /\ \A m \in B : f[m] # 0
  BY <1>4
<1>7. S \in SUBSET (DOMAIN pending \ {n})
  OBVIOUS
<1> HIDE DEF S
<1>8. w \in Nat /\ Cardinality(B) \in Nat /\ Cardinality(B) <= w
  <2> HIDE DEF B
  <2> QED
    BY <1>1, <1>3, <1>6, TotalCoversZeros
<1> QED
  BY <1>5, <1>7, <1>8

-----------------------------------------------------------------------------
(* Records, frames and calls of remove fit each other, where nothing has been asked for
   while it was being provided, or after it had been left behind. *)

Straight == cycled = {} /\ revived = {}

Unfinished(n) == IsPending(n) /\ waits(n) = waitsForOwnFrames
Known(n) == IsPending(n) \/ IsRegistered(n)
Linked(d, m) == m \in deps(d) \/ regState[m] = "withNoLcHooks"

\* The calls of remove still to make, and the components they are for.
Scheduled == UNION {removing[i] : i \in DOMAIN removing}
Leaving == {n \in DOMAIN pending : \E c \in Scheduled : c.node = n}
Failing == {n \in DOMAIN pending : \E c \in Scheduled : c.node = n /\ c.err}

LinksFit ==
    /\ \A m \in DOMAIN pending : pending[m].dependents = {d \in DOMAIN pending : m \in deps(d)}
    /\ \A d \in DOMAIN pending : \A m \in deps(d) : Known(m)

\* A component on the stack, or about to be returned, was asked for by the one below it.
StackFits ==
    /\ \A i \in 1 .. Len(stack) : Known(stack[i].node) /\ (stack[i].kind = "lateInit" => i = 1)
    /\ \A i \in 1 .. Len(stack) - 1 : stack[i].kind # "called" /\ Linked(stack[i].node, stack[i + 1].node)
    /\ \A m \in returning : /\ stack # <<>> /\ Top.kind # "called" /\ Linked(Top.node, m)
                            /\ m \in Comp /\ Known(m) /\ providingState[m] = "provided"

ObtainedFits ==
    /\ obtained \in [Comp -> SUBSET Comp]
    /\ \A d \in Comp : \A m \in obtained[d] :
        Known(d) /\ Known(m) /\ providingState[m] = "provided" /\ (IsPending(d) => Linked(d, m))

\* Who depends on a component that is being provided is below it on the stack.
ProvidedBelow ==
    \A n \in DOMAIN pending : providingState[n] # "provided" =>
        \A d \in pending[n].dependents :
            \E i, j \in 1 .. Len(stack) : i < j /\ stack[i].node = d /\ stack[j].node = n

SchedulesFit ==
    /\ \A c, e \in Scheduled : c.err = e.err /\ c.isLateInitErr = e.isLateInitErr
    /\ \A c \in Scheduled : c.isLateInitErr => c.err
    /\ \A c \in Scheduled : c.err =>
          /\ ~c.report => providedErr[c.node]
          /\ c.isLateInitErr => stack = <<>>
          /\ ~c.isLateInitErr /\ IsPending(c.node) =>
                /\ \A d \in pending[c.node].dependents : Unfinished(d)
                /\ \A d \in Comp : c.node \notin obtained[d]
    /\ \A n \in Comp : providedErr[n] => IsRegistered(n) \/ n \in Failing
    /\ \A n \in DOMAIN pending : waits(n) = 0 => n \in Leaving

Structure ==
    RecsTyped /\ LinksFit /\ StackFits /\ ObtainedFits /\ ProvidedBelow /\ SchedulesFit

\* Sets of finished components that lead, except through those in e, to no other.
Closed(S, e) ==
    \A k \in S : waits(k) # waitsForOwnFrames /\ k \notin Failing /\ deps(k) \cap DOMAIN pending \subseteq S \cup e
FreeSets == {S \in SUBSET DOMAIN pending : Closed(S, {})}
ClearSets(e) == {S \in SUBSET (DOMAIN pending \ ({e} \cup Leaving)) : Closed(S, {e})}

\* A component waits for no fewer than those of its dependencies that lead, not through
\* itself, to an unfinished one or to one that is about to be removed; what is about to be
\* registered, and what a registered component has obtained, leads to no unfinished one.
Covered(e) ==
    \E S \in ClearSets(e) : Cardinality((deps(e) \cap DOMAIN pending) \ (S \cup {e})) <= waits(e)
CountsCover == \A e \in DOMAIN pending : ~Unfinished(e) => Covered(e)
LeavingFits == \A n \in Leaving \ Failing : \E S \in FreeSets : n \in S
RegisteredFits ==
    \A d \in Comp : IsRegistered(d) /\ ~providedErr[d] =>
        \E S \in FreeSets : obtained[d] \cap DOMAIN pending \subseteq S

Counting == CountsCover /\ LeavingFits /\ RegisteredFits

-----------------------------------------------------------------------------
(* Steps other than removals. *)

\* No finished component becomes unfinished, or depends on something new.
Calm ==
    /\ removing = <<>>
    /\ DOMAIN pending \subseteq DOMAIN pending'
    /\ \A k \in DOMAIN pending' \ DOMAIN pending : ~Known(k) /\ Unfinished(k)'
    /\ \A k \in DOMAIN pending : ~Unfinished(k) => ~Unfinished(k)' /\ deps(k)' = deps(k)
    /\ \A k \in Leaving' : ~IsPending(k) \/ Unfinished(k)

LEMMA NothingScheduled == ASSUME removing = <<>> PROVE Scheduled = {} /\ Leaving = {} /\ Failing = {}
<1>1. DOMAIN removing = {}
  OBVIOUS
<1> QED
  BY <1>1 DEF Scheduled, Leaving, Failing

LEMMA CalmKeepsClosed ==
    ASSUME LinksFit, Calm, NEW S \in SUBSET DOMAIN pending, NEW e, Closed(S, e)
    PROVE  Closed(S, e)' /\ S \in SUBSET DOMAIN pending'
<1>1. S \in SUBSET DOMAIN pending'
  BY DEF Calm
<1>2. ASSUME NEW k \in S
      PROVE  waits(k)' # waitsForOwnFrames /\ k \notin Failing' /\ deps(k)' \cap DOMAIN pending' \subseteq S \cup e
  <2>1. waits(k) # waitsForOwnFrames /\ deps(k) \cap DOMAIN pending \subseteq S \cup e
    BY DEF Closed
  <2>2. k \in DOMAIN pending /\ ~Unfinished(k) /\ IsPending(k)
    BY <2>1 DEF Unfinished, IsPending
  <2>3. ~Unfinished(k)' /\ deps(k)' = deps(k) /\ k \notin Leaving'
    BY <2>2 DEF Calm
  <2>4. k \notin Failing'
    BY <2>3 DEF Failing, Leaving
  <2>5. waits(k)' # waitsForOwnFrames
    BY <1>1, <2>3 DEF Unfinished, IsPending, waitsForOwnFrames
  <2>6. ASSUME NEW x \in deps(k), x \in DOMAIN pending' PROVE x \in S \cup e
    <3>1. Known(x)
      BY <2>2 DEF LinksFit
    <3>2. x \in DOMAIN pending
      BY <2>6, <3>1 DEF Calm
    <3> QED
      BY <2>1, <2>6, <3>2
  <2> QED
    BY <2>3, <2>4, <2>5, <2>6
<1> QED
  BY <1>1, <1>2 DEF Closed

\* It is enough to look at components that the step makes finished, at what it schedules,
\* and that it gives nothing to a registered component.
LEMMA CalmCounting ==
    ASSUME Structure, Counting, Calm,
           \A e \in DOMAIN pending : Covered(e)' \/ Unfinished(e)' \/ (~Unfinished(e) /\ waits(e)' = waits(e)),
           \A n \in Leaving' \ Failing' : \E S \in FreeSets' : n \in S,
           \A d \in Comp : IsRegistered(d)' /\ ~providedErr'[d] =>
               IsRegistered(d) /\ ~providedErr[d] /\ obtained'[d] = obtained[d]
    PROVE  Counting'
<1>0. LinksFit /\ Leaving = {}
  BY NothingScheduled DEF Structure, Calm
<1>1. ASSUME NEW e \in DOMAIN pending', ~Unfinished(e)' PROVE Covered(e)'
  <2>1. e \in DOMAIN pending
    BY <1>1 DEF Calm
  <2>2. CASE ~Unfinished(e) /\ waits(e)' = waits(e)
    <3>1. PICK S \in ClearSets(e) : Cardinality((deps(e) \cap DOMAIN pending) \ (S \cup {e})) <= waits(e)
      BY <2>1, <2>2 DEF Counting, CountsCover, Covered
    <3>2. S \in SUBSET DOMAIN pending /\ e \notin S /\ Closed(S, {e})
      BY DEF ClearSets
    <3>3. Closed(S, {e})' /\ S \in SUBSET DOMAIN pending'
      BY <1>0, <3>2, CalmKeepsClosed
    <3>4. \A k \in S : k \notin Leaving'
      BY <3>2 DEF Calm, Closed, Unfinished, IsPending
    <3>5. S \in ClearSets(e)'
      BY <3>2, <3>3, <3>4 DEF ClearSets
    <3>6. deps(e)' = deps(e)
      BY <2>1, <2>2 DEF Calm
    <3>7. deps(e) \cap DOMAIN pending' = deps(e) \cap DOMAIN pending
      BY <1>0, <2>1 DEF Calm, LinksFit
    <3> QED
      BY <2>2, <3>1, <3>5, <3>6, <3>7 DEF Covered
  <2> QED
    BY <1>1, <2>1, <2>2
<1>2. ASSUME NEW d \in Comp, IsRegistered(d)', ~providedErr'[d]
      PROVE  \E S \in FreeSets' : obtained'[d] \cap DOMAIN pending' \subseteq S
  <2>1. IsRegistered(d) /\ ~providedErr[d] /\ obtained'[d] = obtained[d]
    BY <1>2
  <2>2. PICK S \in FreeSets : obtained[d] \cap DOMAIN pending \subseteq S
    BY <2>1 DEF Counting, RegisteredFits
  <2>3. S \in FreeSets'
    BY <1>0, CalmKeepsClosed DEF FreeSets
  <2>4. \A m \in obtained[d] : m \in DOMAIN pending' => m \in DOMAIN pending
    BY DEF Calm, Structure, ObtainedFits
  <2> QED
    BY <2>1, <2>2, <2>3, <2>4
<1> QED
  BY <1>1, <1>2 DEF Counting, CountsCover, LeavingFits, RegisteredFits

\* Straight runs: what the lemmas of the next sections start from.
Run == RInv /\ RInv' /\ Straight /\ Straight' /\ Structure

\* A component with a frame in user code is unfinished.
LEMMA UserFrames ==
    ASSUME RInv, Straight, NEW i \in 1 .. Len(stack), stack[i].kind # "called", NEW n, n = stack[i].node
    PROVE  /\ n \in Comp /\ Unfinished(n) /\ IsPending(n) /\ ~IsRegistered(n) /\ ~providedErr[n] /\ ~Over(n)
           /\ totalFramesCount[n] # 0
<1>1. stack \in Seq(Frames) /\ FInv
  BY DEF RInv, FInv, Frames
<1>2. n \in Comp /\ stack[i] \in Frames /\ i \in FramesIn(stack, n)
  <2>1. stack[i] \in Frames /\ i \in FramesIn(stack, n)
    BY <1>1 DEF FramesIn
  <2> QED
    BY <2>1 DEF Frames
<1>3. stack[i] = Frame(n, stack[i].kind) /\ stack[i].kind \in {"provider", "lateInit"}
  BY <1>2 DEF Frames, Frame, FrameKinds
<1>4. Providing(n) # {} \/ InLateInit(n) # {}
  BY <1>3 DEF Providing, InLateInit, Places
<1>5. totalFramesCount[n] # 0 /\ ~Over(n)
  BY <1>1, <1>2, <1>4, HasFrames DEF Over
<1>6. n \notin cycled
  BY DEF Straight
<1> QED
  BY <1>2, <1>5, <1>6 DEF RInv, OverIfRegistered, Unfinished, waits

\* What is registered has no record, and has been provided.
LEMMA RegisteredAreOver ==
    ASSUME RInv, Straight, NEW n \in Comp, IsRegistered(n)
    PROVE  ~IsPending(n) /\ providingState[n] = "provided"
  BY DEF RInv, OverIfRegistered, Straight, Over

\* Nothing happens that the invariant is about.
Untouched == UNCHANGED <<stack, pending, removing, returning, obtained, componentNode>>

LEMMA UntouchedKeep ==
    ASSUME Structure, Counting, Untouched
    PROVE  Structure' /\ Counting' /\ (removing = <<>> => Calm)
<1>1. /\ UNCHANGED <<stack, pending, removing, returning, obtained, providingState, providedErr, regState>>
      /\ Top' = Top
  BY DEF Untouched, componentNode, regResult, Top
<1>2. Leaving' = Leaving /\ Failing' = Failing /\ Scheduled' = Scheduled
  BY <1>1 DEF Scheduled, Leaving, Failing
<1>3. \A n : (Known(n)' <=> Known(n)) /\ (Unfinished(n)' <=> Unfinished(n))
  BY <1>1 DEF Known, Unfinished, IsPending, IsRegistered, waits
<1>4. \A d, m : Linked(d, m)' <=> Linked(d, m)
  BY <1>1 DEF Linked, deps
<1>5. Structure'
  BY <1>1, <1>2, <1>3, <1>4 DEF Structure, RecsTyped, LinksFit, StackFits, ObtainedFits, ProvidedBelow, SchedulesFit,
     IsPending, IsRegistered, waits, deps
<1>6. \A S, e : Closed(S, e)' <=> Closed(S, e)
  BY <1>1, <1>2 DEF Closed, waits, deps
<1>7. FreeSets' = FreeSets /\ \A e : ClearSets(e)' = ClearSets(e)
  BY <1>1, <1>2, <1>6 DEF FreeSets, ClearSets
<1>8. \A e : Covered(e)' <=> Covered(e)
  BY <1>1, <1>7 DEF Covered, waits, deps
<1>9. Counting'
  BY <1>1, <1>2, <1>3, <1>7, <1>8 DEF Counting, CountsCover, LeavingFits, RegisteredFits, IsRegistered
<1>10. removing = <<>> => Calm
  BY <1>1, <1>2, <1>3, NothingScheduled DEF Calm, deps
<1> QED
  BY <1>5, <1>9, <1>10

LEMMA RecByFields ==
    ASSUME NEW r \in RecType, NEW s, s = [f \in DOMAIN r |-> s[f]],
           s["dependsOn"] \in SUBSET Comp, s["dependents"] \in SUBSET Comp,
           s["lcHookBuilders"] \in BOOLEAN, s["lcHooks"] \in BOOLEAN,
           s["waitsForDepsCount"] \in Nat \cup {waitsForOwnFrames},
           s["hasOwnOrTransitiveRunnables"] \in BOOLEAN
    PROVE  s \in RecType
<1>1. DOMAIN r = {"dependsOn", "dependents", "lcHookBuilders", "lcHooks", "waitsForDepsCount",
                  "hasOwnOrTransitiveRunnables"}
  BY DEF RecType
<1>2. s = [dependsOn |-> s["dependsOn"], dependents |-> s["dependents"],
           lcHookBuilders |-> s["lcHookBuilders"], lcHooks |-> s["lcHooks"],
           waitsForDepsCount |-> s["waitsForDepsCount"],
           hasOwnOrTransitiveRunnables |-> s["hasOwnOrTransitiveRunnables"]]
  BY <1>1
<1> QED
  BY <1>2 DEF RecType

-----------------------------------------------------------------------------
(* Asking for a component. *)

\* What Add does to the records.
AddEffect(D, m) ==
    /\ RecsTyped'
    /\ DOMAIN pending' = DOMAIN pending \cup {m} \/ (DOMAIN pending' = DOMAIN pending /\ IsRegistered(m))
    /\ \A n \in DOMAIN pending : /\ waits(n)' = waits(n)
                                 /\ deps(n)' = IF n \in D THEN deps(n) \cup {m} ELSE deps(n)
                                 /\ pending'[n].dependents = IF n = m THEN pending[n].dependents \cup D
                                                                      ELSE pending[n].dependents
    /\ m \in DOMAIN pending' \ DOMAIN pending =>
          waits(m)' = waitsForOwnFrames /\ deps(m)' = {} /\ pending'[m].dependents = D
AddedHooks(D, m) ==
    /\ \A n \in DOMAIN pending :
          /\ pending'[n].lcHooks = pending[n].lcHooks
          /\ pending'[n].hasOwnOrTransitiveRunnables =>
                pending[n].hasOwnOrTransitiveRunnables \/ (n \in D /\ regState[m] = "withLcHooks")
          /\ n \notin D => pending'[n].hasOwnOrTransitiveRunnables = pending[n].hasOwnOrTransitiveRunnables
    /\ m \in DOMAIN pending' \ DOMAIN pending => ~pending'[m].hasOwnOrTransitiveRunnables

HookedRec(r, m) == [r EXCEPT !.dependsOn = @ \cup {m}, !.hasOwnOrTransitiveRunnables = TRUE]

LEMMA HookedRecFields ==
    ASSUME NEW r \in RecType, NEW m \in Comp
    PROVE  /\ HookedRec(r, m) \in RecType
           /\ HookedRec(r, m).dependsOn = r.dependsOn \cup {m} /\ HookedRec(r, m).dependents = r.dependents
           /\ HookedRec(r, m).waitsForDepsCount = r.waitsForDepsCount
           /\ HookedRec(r, m).lcHooks = r.lcHooks /\ HookedRec(r, m).lcHookBuilders = r.lcHookBuilders
           /\ HookedRec(r, m).hasOwnOrTransitiveRunnables = TRUE
<1>1. PICK s : s = HookedRec(r, m)
  OBVIOUS
<1>2. DOMAIN r = {"dependsOn", "dependents", "lcHookBuilders", "lcHooks", "waitsForDepsCount",
                  "hasOwnOrTransitiveRunnables"}
  BY DEF RecType
<1>3. s = [r EXCEPT !.dependsOn = @ \cup {m}, !.hasOwnOrTransitiveRunnables = TRUE]
  BY <1>1 DEF HookedRec
<1>4. /\ s["dependsOn"] = r["dependsOn"] \cup {m} /\ s["dependents"] = r["dependents"]
      /\ s["waitsForDepsCount"] = r["waitsForDepsCount"]
      /\ s["hasOwnOrTransitiveRunnables"] = TRUE
      /\ s["lcHooks"] = r["lcHooks"] /\ s["lcHookBuilders"] = r["lcHookBuilders"]
  BY <1>2, <1>3
<1>5. s = [f \in DOMAIN r |-> s[f]]
  BY <1>3, Zenon
<1>6. /\ r["dependents"] \in SUBSET Comp /\ r["lcHooks"] \in BOOLEAN /\ r["lcHookBuilders"] \in BOOLEAN
      /\ r["waitsForDepsCount"] \in Nat \cup {waitsForOwnFrames} /\ r["dependsOn"] \cup {m} \in SUBSET Comp
  BY DEF RecType
<1>7. s \in RecType
  BY <1>4, <1>5, <1>6, RecByFields
<1> QED
  BY <1>1, <1>4, <1>7

LEMMA AddHasEffect ==
    ASSUME RecsTyped, NEW m \in Comp, NEW D \in SUBSET DOMAIN pending, Add(D, m), IsRegistered(m) => ~IsPending(m),
           \A d, e \in D : d = e
    PROVE  AddEffect(D, m) /\ AddedHooks(D, m)
<1>1. CASE regState[m] = "none"
  <2> DEFINE known == [n \in DOMAIN pending \cup {m} |-> IF IsPending(n) THEN pending[n] ELSE Rec(waitsForOwnFrames)]
             rec(n) == [known[n] EXCEPT !.dependsOn = IF n \in D THEN @ \cup {m} ELSE @,
                                        !.dependents = IF n = m THEN @ \cup D ELSE @]
  <2>1. DOMAIN pending' = DOMAIN pending \cup {m} /\ \A n \in DOMAIN pending \cup {m} : pending'[n] = rec(n)
    <3>1. D \cap DOMAIN known = D
      OBVIOUS
    <3> QED
      BY <1>1, <3>1 DEF Add
  <2>2. \A n \in DOMAIN pending \cup {m} : known[n] \in RecType
    BY DEF RecsTyped, RecType, Rec, waitsForOwnFrames, IsPending
  <2>3. ASSUME NEW n \in DOMAIN pending \cup {m}
        PROVE  /\ pending'[n] \in RecType
               /\ pending'[n].waitsForDepsCount = known[n].waitsForDepsCount
               /\ pending'[n].dependsOn = IF n \in D THEN known[n].dependsOn \cup {m} ELSE known[n].dependsOn
               /\ pending'[n].dependents = IF n = m THEN known[n].dependents \cup D ELSE known[n].dependents
               /\ pending'[n].lcHooks = known[n].lcHooks
               /\ pending'[n].hasOwnOrTransitiveRunnables = known[n].hasOwnOrTransitiveRunnables
    <3>1. PICK r : r = known[n]
      OBVIOUS
    <3>2. r \in RecType /\ D \in SUBSET Comp
      BY <2>2, <3>1 DEF RecsTyped
    <3>3. PICK a, b : /\ a = IF n \in D THEN r.dependsOn \cup {m} ELSE r.dependsOn
                     /\ b = IF n = m THEN r.dependents \cup D ELSE r.dependents
      OBVIOUS
    <3>10. a \in SUBSET Comp /\ b \in SUBSET Comp
      <4>1. r.dependsOn \in SUBSET Comp /\ r.dependents \in SUBSET Comp
        BY <3>2 DEF RecType
      <4> QED
        BY <3>2, <3>3, <4>1
    <3>4. PICK s : s = pending'[n]
      OBVIOUS
    <3>5. s = [r EXCEPT !.dependsOn = a, !.dependents = b]
      BY <2>1, <3>1, <3>3, <3>4
    <3> HIDE DEF known, rec
    <3>6. DOMAIN r = {"dependsOn", "dependents", "lcHookBuilders", "lcHooks", "waitsForDepsCount",
                      "hasOwnOrTransitiveRunnables"}
      BY <3>2 DEF RecType
    <3>7. /\ s["dependsOn"] = a /\ s["dependents"] = b /\ s["waitsForDepsCount"] = r["waitsForDepsCount"]
          /\ s["hasOwnOrTransitiveRunnables"] = r["hasOwnOrTransitiveRunnables"]
          /\ s["lcHooks"] = r["lcHooks"] /\ s["lcHookBuilders"] = r["lcHookBuilders"]
      BY <3>5, <3>6
    <3>8. s = [f \in DOMAIN r |-> s[f]]
      BY <3>5
    <3>9. s \in RecType
      BY <3>2, <3>7, <3>8, <3>10, RecByFields DEF RecType
    <3> QED
      BY <3>1, <3>3, <3>4, <3>7, <3>9
  <2>4. \A n \in DOMAIN pending : known[n] = pending[n]
    BY DEF IsPending
  <2>5. m \notin DOMAIN pending => /\ known[m].waitsForDepsCount = waitsForOwnFrames
                                   /\ known[m].dependsOn = {} /\ known[m].dependents = {} /\ m \notin D
                                   /\ ~known[m].hasOwnOrTransitiveRunnables
    BY DEF IsPending, Rec
  <2> HIDE DEF known, rec
  <2>6. RecsTyped'
    BY <2>1, <2>3 DEF RecsTyped
  <2> QED
    <3>1. AddEffect(D, m)
      BY <2>1, <2>3, <2>4, <2>5, <2>6 DEF AddEffect, waits, deps
    <3>2. AddedHooks(D, m)
      BY <1>1, <2>1, <2>3, <2>4, <2>5 DEF AddedHooks
    <3> QED
      BY <3>1, <3>2
<1>2. CASE regState[m] # "none"
  <2>1. PICK d \in D : pending' = With(d, HookedRec(RecOf(d), m))
    BY <1>2 DEF Add, HookedRec
  <2>8. regState[m] = "withLcHooks"
    BY <1>2 DEF Add
  <2>2. d \in DOMAIN pending /\ RecOf(d) = pending[d] /\ D = {d} /\ pending[d] \in RecType
    BY <2>1 DEF RecOf, IsPending, RecsTyped
  <2>3. /\ DOMAIN pending' = DOMAIN pending
        /\ \A n \in DOMAIN pending \ {d} : pending'[n] = pending[n]
        /\ pending'[d] = HookedRec(pending[d], m)
    BY <2>1, <2>2 DEF With
  <2>4. /\ pending'[d] \in RecType /\ pending'[d].dependsOn = pending[d].dependsOn \cup {m}
        /\ pending'[d].waitsForDepsCount = pending[d].waitsForDepsCount
        /\ pending'[d].dependents = pending[d].dependents
        /\ pending'[d].lcHooks = pending[d].lcHooks
    <3>1. PICK r \in RecType : r = pending[d]
      BY <2>2
    <3>2. pending'[d] = HookedRec(r, m)
      BY <2>3, <3>1
    <3>3. PICK s : s = HookedRec(r, m)
      OBVIOUS
    <3>4. /\ s \in RecType /\ s.dependsOn = r.dependsOn \cup {m} /\ s.dependents = r.dependents
          /\ s.waitsForDepsCount = r.waitsForDepsCount /\ s.lcHooks = r.lcHooks
      BY <3>3, HookedRecFields, Zenon
    <3> QED
      BY <3>1, <3>2, <3>3, <3>4
  <2>5. m \notin DOMAIN pending /\ IsRegistered(m)
    BY <1>2 DEF IsRegistered, IsPending
  <2>6. RecsTyped'
    BY <2>3, <2>4 DEF RecsTyped
  <2>7. ASSUME NEW n \in DOMAIN pending
        PROVE  /\ waits(n)' = waits(n)
               /\ deps(n)' = IF n \in D THEN deps(n) \cup {m} ELSE deps(n)
               /\ pending'[n].dependents = IF n = m THEN pending[n].dependents \cup D ELSE pending[n].dependents
               /\ pending'[n].lcHooks = pending[n].lcHooks
               /\ pending'[n].hasOwnOrTransitiveRunnables =>
                     pending[n].hasOwnOrTransitiveRunnables \/ (n \in D /\ regState[m] = "withLcHooks")
               /\ n \notin D => pending'[n].hasOwnOrTransitiveRunnables = pending[n].hasOwnOrTransitiveRunnables
    <3>1. CASE n = d
      BY <2>2, <2>4, <2>5, <2>8, <3>1 DEF waits, deps
    <3>2. CASE n # d
      BY <2>2, <2>3, <2>5, <3>2 DEF waits, deps
    <3> QED
      BY <3>1, <3>2
  <2> QED
    <3>1. AddEffect(D, m)
      BY <2>3, <2>5, <2>6, <2>7 DEF AddEffect
    <3>2. AddedHooks(D, m)
      BY <2>3, <2>7 DEF AddedHooks
    <3> QED
      BY <3>1, <3>2
<1> QED
  BY <1>1, <1>2

\* What a step does to one end of the stack.
LEMMA StackGrows ==
    ASSUME stack \in Seq(Frames), NEW f \in Frames, stack' = Append(stack, f)
    PROVE  /\ Len(stack) \in Nat /\ Len(stack') = Len(stack) + 1 /\ stack'[Len(stack) + 1] = f
           /\ \A i \in 1 .. Len(stack) : stack'[i] = stack[i] /\ i \in 1 .. Len(stack')
           /\ \A i \in 1 .. Len(stack') : i \in 1 .. Len(stack) \/ i = Len(stack) + 1
  OBVIOUS

LEMMA StackShrinks ==
    ASSUME stack \in Seq(Frames), stack # <<>>, stack' = Below
    PROVE  /\ Len(stack) \in Nat \ {0} /\ Len(stack') = Len(stack) - 1
           /\ \A i \in 1 .. Len(stack') : stack'[i] = stack[i] /\ i \in 1 .. Len(stack) - 1
           /\ \A i \in 1 .. Len(stack) - 1 : i \in 1 .. Len(stack')
           /\ stack' # <<>> => Len(stack) - 1 \in 1 .. Len(stack) - 1 /\ Top' = stack[Len(stack) - 1]
<1>1. /\ Len(stack) \in Nat \ {0} /\ Len(Below) = Len(stack) - 1 /\ Below \in Seq(Frames)
      /\ \A i \in 1 .. Len(stack) - 1 : Below[i] = stack[i]
  BY LastAndFront DEF Below
<1>2. ASSUME stack' # <<>> PROVE Len(stack) - 1 \in 1 .. Len(stack) - 1
  <2>1. Len(Below) # 0
    BY <1>1, <1>2
  <2> QED
    BY <1>1, <2>1
<1>3. stack' # <<>> => Top' = stack[Len(stack) - 1]
  BY <1>1, <1>2 DEF Top
<1> QED
  BY <1>1, <1>2, <1>3

LEMMA AskedStructure ==
    ASSUME RInv, RInv', Straight, Straight', Structure, NEW m \in Comp,
           NEW D \in SUBSET Comp, D = IF stack = <<>> THEN {} ELSE {Top.node},
           stack # <<>> => Top.kind # "called", removing = <<>>, returning = {},
           Add(D, m), PushProviderFrame(m), UNCHANGED <<componentNode, removing, obtained, returning>>
    PROVE  /\ Structure' /\ Calm /\ AddEffect(D, m) /\ AddedHooks(D, m)
           /\ \A e \in DOMAIN pending : waits(e)' = waits(e) /\ (Unfinished(e)' <=> Unfinished(e))
<1>1. stack \in Seq(Frames) /\ stack' = Append(stack, Frame(m, "called")) /\ Frame(m, "called") \in Frames
  BY DEF RInv, FInv, PushProviderFrame, Frames, Frame, FrameKinds
<1>2. UNCHANGED <<removing, obtained, returning, providingState, providedErr, regState>>
  BY DEF componentNode, regResult
<1>3. stack # <<>> => /\ Len(stack) \in 1 .. Len(stack) /\ Top = stack[Len(stack)] /\ IsPending(Top.node)
                      /\ Unfinished(Top.node)
  <2> SUFFICES ASSUME stack # <<>>
               PROVE  Len(stack) \in 1 .. Len(stack) /\ Top = stack[Len(stack)] /\ IsPending(Top.node) /\ Unfinished(Top.node)
    OBVIOUS
  <2>1. Len(stack) \in 1 .. Len(stack) /\ Top = stack[Len(stack)]
    BY <1>1 DEF Top
  <2> QED
    BY <2>1, UserFrames
<1>4. D \in SUBSET DOMAIN pending /\ \A d, e \in D : d = e
  BY <1>3 DEF IsPending
<1>5. RecsTyped /\ LinksFit /\ StackFits /\ ObtainedFits /\ ProvidedBelow /\ SchedulesFit
  BY DEF Structure
<1>6. AddEffect(D, m) /\ AddedHooks(D, m)
  BY <1>4, <1>5, AddHasEffect, RegisteredAreOver
<1>7. DOMAIN pending \subseteq DOMAIN pending'
  BY <1>6 DEF AddEffect
<1>8. \A k : (Known(k) => Known(k)') /\ (IsRegistered(k)' <=> IsRegistered(k)) /\ (IsPending(k) => IsPending(k)')
  BY <1>2, <1>7 DEF Known, IsPending, IsRegistered
<1>9. Known(m)' /\ \A k : k \in DOMAIN pending' => k \in DOMAIN pending \/ k = m
  BY <1>6, <1>8 DEF AddEffect, Known, IsPending
<1>10. m \in DOMAIN pending' \ DOMAIN pending => ~Known(m) /\ Unfinished(m)'
  <2>1. IsRegistered(m) => m \notin DOMAIN pending'
    BY <1>8, RegisteredAreOver DEF IsPending, Straight, RInv, OverIfRegistered
  <2> QED
    BY <1>6, <2>1 DEF AddEffect, Known, Unfinished, IsPending
<1>11. /\ \A d \in DOMAIN pending : deps(d) \subseteq deps(d)'
       /\ \A d, k : d \in DOMAIN pending /\ Linked(d, k) => Linked(d, k)'
  BY <1>2, <1>6 DEF AddEffect, Linked
<1>12. LinksFit'
  <2>1. ASSUME NEW k \in DOMAIN pending' PROVE pending'[k].dependents = {d \in DOMAIN pending' : k \in deps(d)'}
    <3>1. CASE k \in DOMAIN pending
      <4>1. pending[k].dependents = {d \in DOMAIN pending : k \in deps(d)}
        BY <1>5, <3>1 DEF LinksFit
      <4>2. pending'[k].dependents = IF k = m THEN pending[k].dependents \cup D ELSE pending[k].dependents
        BY <1>6, <3>1 DEF AddEffect
      <4>3. \A d \in DOMAIN pending' : k \in deps(d)' <=>
               d \in DOMAIN pending /\ (k \in deps(d) \/ (k = m /\ d \in D))
        BY <1>6, <1>9, <3>1 DEF AddEffect
      <4> QED
        BY <1>4, <1>7, <4>1, <4>2, <4>3
    <3>2. CASE k \notin DOMAIN pending
      <4>1. k = m /\ pending'[m].dependents = D /\ deps(m)' = {} /\ ~Known(m)
        BY <1>6, <1>9, <1>10, <2>1, <3>2 DEF AddEffect
      <4>2. \A d \in DOMAIN pending : m \notin deps(d)
        BY <1>5, <4>1 DEF LinksFit
      <4>3. ASSUME NEW d \in DOMAIN pending' PROVE m \in deps(d)' <=> d \in D
        <5>1. CASE d \in DOMAIN pending
          BY <1>6, <4>2, <5>1 DEF AddEffect
        <5>2. CASE d \notin DOMAIN pending
          BY <1>4, <1>9, <4>1, <4>3, <5>2
        <5> QED
          BY <5>1, <5>2
      <4> QED
        BY <1>4, <1>7, <4>1, <4>3
    <3> QED
      BY <3>1, <3>2
  <2>2. ASSUME NEW d \in DOMAIN pending', NEW k \in deps(d)' PROVE Known(k)'
    <3>1. CASE d \in DOMAIN pending
      <4>1. k \in deps(d) \/ k = m
        BY <1>6, <2>2, <3>1 DEF AddEffect
      <4> QED
        BY <1>5, <1>8, <1>9, <3>1, <4>1 DEF LinksFit
    <3>2. CASE d \notin DOMAIN pending
      BY <1>6, <1>9, <2>2, <3>2 DEF AddEffect
    <3> QED
      BY <3>1, <3>2
  <2> QED
    BY <2>1, <2>2 DEF LinksFit
<1>13. /\ Len(stack) \in Nat /\ Len(stack') = Len(stack) + 1 /\ stack'[Len(stack) + 1] = Frame(m, "called")
       /\ \A i \in 1 .. Len(stack) : stack'[i] = stack[i] /\ i \in 1 .. Len(stack')
       /\ \A i \in 1 .. Len(stack') : i \in 1 .. Len(stack) \/ i = Len(stack) + 1
  BY <1>1, StackGrows
<1>14. StackFits'
  <2>1. ASSUME NEW i \in 1 .. Len(stack') PROVE Known(stack[i].node)' /\ (stack'[i].kind = "lateInit" => i = 1)
    <3>1. CASE i \in 1 .. Len(stack)
      <4>1. PICK k : k = stack[i].node /\ k = stack'[i].node
        BY <1>13, <3>1
      <4>2. Known(k)' /\ (stack'[i].kind = "lateInit" => i = 1)
        BY <1>5, <1>8, <1>13, <3>1, <4>1 DEF StackFits
      <4> QED
        BY <4>1, <4>2
    <3>2. CASE i = Len(stack) + 1
      <4>1. stack'[i].node = m /\ stack'[i].kind = "called"
        BY <1>13, <3>2 DEF Frame
      <4> QED
        BY <1>9, <4>1
    <3> QED
      BY <1>13, <2>1, <3>1, <3>2
  <2>2. ASSUME NEW i \in 1 .. Len(stack') - 1
        PROVE  stack'[i].kind # "called" /\ Linked(stack[i].node, stack[i + 1].node)'
    <3>1. i \in 1 .. Len(stack) /\ stack'[i] = stack[i] /\ stack # <<>>
      BY <1>13
    <3>2. PICK d, k : d = stack'[i].node /\ k = stack'[i + 1].node
      OBVIOUS
    <3>3. CASE i = Len(stack)
      <4>1. stack[i] = Top /\ k = m /\ d \in D
        BY <1>3, <1>13, <3>1, <3>2, <3>3 DEF Frame
      <4>2. m \in deps(d)'
        BY <1>4, <1>6, <4>1 DEF AddEffect
      <4> QED
        BY <3>1, <3>2, <4>1, <4>2 DEF Linked
    <3>4. CASE i # Len(stack)
      <4>1. i \in 1 .. Len(stack) - 1 /\ i + 1 \in 1 .. Len(stack)
        BY <1>13, <3>1, <3>4
      <4>2. stack[i].kind # "called" /\ Linked(d, k) /\ d = stack[i].node
        BY <1>5, <1>13, <3>2, <4>1 DEF StackFits
      <4>3. IsPending(d)
        BY <3>1, <4>2, UserFrames
      <4>4. Linked(d, k)'
        BY <1>11, <4>2, <4>3 DEF IsPending
      <4> QED
        BY <3>1, <3>2, <4>2, <4>4
    <3> QED
      BY <3>3, <3>4
  <2> QED
    BY <1>2, <2>1, <2>2 DEF StackFits
<1>15. ObtainedFits'
  <2> SUFFICES ASSUME NEW d \in Comp, NEW k \in obtained[d]
               PROVE  /\ Known(d)' /\ Known(k)' /\ providingState'[k] = "provided"
                      /\ IsPending(d)' => Linked(d, k)'
    BY <1>2, <1>5 DEF ObtainedFits
  <2>1. Known(d) /\ Known(k) /\ providingState[k] = "provided" /\ (IsPending(d) => Linked(d, k))
    BY <1>5 DEF ObtainedFits
  <2>2. IsPending(d)' => IsPending(d)
    BY <1>9, <1>10, <2>1 DEF IsPending
  <2> QED
    BY <1>2, <1>8, <1>11, <2>1, <2>2 DEF IsPending
<1>16. ProvidedBelow'
  <2> SUFFICES ASSUME NEW n \in DOMAIN pending', providingState'[n] # "provided", NEW d \in pending'[n].dependents
               PROVE  \E i, j \in 1 .. Len(stack') : i < j /\ stack'[i].node = d /\ stack'[j].node = n
    BY DEF ProvidedBelow
  <2>1. CASE n \in DOMAIN pending /\ d \in pending[n].dependents
    <3>1. PICK i, j \in 1 .. Len(stack) : i < j /\ stack[i].node = d /\ stack[j].node = n
      BY <1>2, <1>5, <2>1 DEF ProvidedBelow
    <3>2. i \in 1 .. Len(stack') /\ j \in 1 .. Len(stack') /\ stack'[i] = stack[i] /\ stack'[j] = stack[j]
      BY <1>13
    <3> QED
      BY <3>1, <3>2
  <2>2. CASE ~(n \in DOMAIN pending /\ d \in pending[n].dependents)
    <3>1. n = m /\ d \in D
      BY <1>6, <1>9, <2>2 DEF AddEffect
    <3>2. stack # <<>> /\ d = Top.node
      BY <3>1
    <3>3. /\ Len(stack) \in 1 .. Len(stack') /\ Len(stack) + 1 \in 1 .. Len(stack') /\ Len(stack) < Len(stack) + 1
          /\ stack'[Len(stack)] = Top /\ stack'[Len(stack) + 1].node = m
      BY <1>3, <1>13, <3>2 DEF Frame
    <3> QED
      BY <3>1, <3>2, <3>3
  <2> QED
    BY <2>1, <2>2
<1>17. Scheduled = {} /\ Leaving = {} /\ Failing = {} /\ Scheduled' = {} /\ Leaving' = {} /\ Failing' = {}
  <2>1. removing' = <<>>
    BY <1>2
  <2> QED
    BY <2>1, NothingScheduled DEF Scheduled, Leaving, Failing
<1>18. SchedulesFit'
  <2>1. \A n \in Comp : providedErr'[n] => IsRegistered(n)'
    BY <1>2, <1>5, <1>8, <1>17 DEF SchedulesFit
  <2>2. ASSUME NEW n \in DOMAIN pending' PROVE waits(n)' # 0
    <3>1. CASE n \in DOMAIN pending
      BY <1>5, <1>6, <1>17, <3>1 DEF SchedulesFit, AddEffect
    <3>2. CASE n \notin DOMAIN pending
      BY <1>9, <1>10, <2>2, <3>2 DEF Unfinished, waitsForOwnFrames
    <3> QED
      BY <3>1, <3>2
  <2> QED
    BY <1>17, <2>1, <2>2 DEF SchedulesFit
<1>19. Structure'
  BY <1>6, <1>12, <1>14, <1>15, <1>16, <1>18 DEF Structure, AddEffect
<1>20. \A e \in DOMAIN pending : waits(e)' = waits(e) /\ (Unfinished(e)' <=> Unfinished(e))
  BY <1>6, <1>7 DEF AddEffect, Unfinished, IsPending
<1>21. Calm
  <2>1. ASSUME NEW k \in DOMAIN pending, ~Unfinished(k) PROVE ~Unfinished(k)' /\ deps(k)' = deps(k)
    <3>1. k \notin D
      BY <1>3, <2>1
    <3> QED
      BY <1>6, <1>20, <2>1, <3>1 DEF AddEffect
  <2> QED
    BY <1>7, <1>9, <1>10, <1>17, <2>1 DEF Calm
<1> QED
  BY <1>6, <1>19, <1>20, <1>21

-----------------------------------------------------------------------------
(* Steps that leave the links between records alone. *)

SettleRecs(x) ==
    /\ RecsTyped' /\ DOMAIN pending' = DOMAIN pending
    /\ \A n \in DOMAIN pending : /\ deps(n)' = deps(n) /\ pending'[n].dependents = pending[n].dependents
                                 /\ n # x => waits(n)' = waits(n)
SameRecs ==
    /\ RecsTyped' /\ DOMAIN pending' = DOMAIN pending
    /\ \A n \in DOMAIN pending : /\ deps(n)' = deps(n) /\ pending'[n].dependents = pending[n].dependents
                                 /\ waits(n)' = waits(n)

LEMMA LinksStay ==
    ASSUME LinksFit, NEW x, SettleRecs(x), regState' = regState
    PROVE  /\ LinksFit'
           /\ \A k : (Known(k)' <=> Known(k)) /\ (IsPending(k)' <=> IsPending(k)) /\ (IsRegistered(k)' <=> IsRegistered(k))
           /\ \A d, k : IsPending(d) => (Linked(d, k)' <=> Linked(d, k))
<1>1. \A k : (Known(k)' <=> Known(k)) /\ (IsPending(k)' <=> IsPending(k)) /\ (IsRegistered(k)' <=> IsRegistered(k))
  BY DEF SettleRecs, Known, IsPending, IsRegistered
<1>2. \A d, k : IsPending(d) => (Linked(d, k)' <=> Linked(d, k))
  BY DEF SettleRecs, Linked, IsPending
<1>3. LinksFit'
  <2>1. ASSUME NEW k \in DOMAIN pending' PROVE pending'[k].dependents = {d \in DOMAIN pending' : k \in deps(d)'}
    BY DEF SettleRecs, LinksFit
  <2>2. ASSUME NEW d \in DOMAIN pending', NEW k \in deps(d)' PROVE Known(k)'
    BY <1>1 DEF SettleRecs, LinksFit
  <2> QED
    BY <2>1, <2>2 DEF LinksFit
<1> QED
  BY <1>1, <1>2, <1>3

LEMMA SameRecsKeep ==
    ASSUME Structure, SameRecs, removing = <<>>, removing' = removing, UNCHANGED <<regState, providedErr>>
    PROVE  /\ RecsTyped' /\ LinksFit' /\ SchedulesFit' /\ Calm
           /\ \A e \in DOMAIN pending : waits(e)' = waits(e) /\ (Unfinished(e)' <=> Unfinished(e))
           /\ \A k : (Known(k)' <=> Known(k)) /\ (IsPending(k)' <=> IsPending(k)) /\ (IsRegistered(k)' <=> IsRegistered(k))
           /\ \A d, k : IsPending(d) => (Linked(d, k)' <=> Linked(d, k))
           /\ Leaving' = {}
<1>1. LinksFit /\ SchedulesFit
  BY DEF Structure
<1>2. PICK x : SettleRecs(x)
  BY DEF SameRecs, SettleRecs
<1>3. /\ LinksFit'
      /\ \A k : (Known(k)' <=> Known(k)) /\ (IsPending(k)' <=> IsPending(k)) /\ (IsRegistered(k)' <=> IsRegistered(k))
      /\ \A d, k : IsPending(d) => (Linked(d, k)' <=> Linked(d, k))
  BY <1>1, <1>2, LinksStay
<1>4. \A e \in DOMAIN pending : waits(e)' = waits(e) /\ (Unfinished(e)' <=> Unfinished(e))
  BY DEF SameRecs, Unfinished, IsPending
<1>5. Scheduled = {} /\ Leaving = {} /\ Failing = {} /\ Scheduled' = {} /\ Leaving' = {} /\ Failing' = {}
  <2>1. removing' = <<>>
    OBVIOUS
  <2> QED
    BY <2>1, NothingScheduled DEF Scheduled, Leaving, Failing
<1>6. SchedulesFit'
  BY <1>1, <1>3, <1>5 DEF SchedulesFit, SameRecs
<1>7. Calm
  BY <1>4, <1>5 DEF Calm, SameRecs
<1> QED
  BY <1>3, <1>4, <1>5, <1>6, <1>7 DEF SameRecs

\* The end of a frame, whatever becomes of its component.
LEMMA PopStructure ==
    ASSUME RInv, Straight, Structure, stack # <<>>, NEW x, x = Top.node, stack' = Below,
           SettleRecs(x), UNCHANGED <<regState, obtained>>, x \in Comp,
           providingState' = [providingState EXCEPT ![x] = "provided"],
           returning' = {} \/ (returning' = {x} /\ stack' # <<>>)
    PROVE  RecsTyped' /\ LinksFit' /\ StackFits' /\ ObtainedFits' /\ ProvidedBelow'
<1>1. RecsTyped /\ LinksFit /\ StackFits /\ ObtainedFits /\ ProvidedBelow /\ RecsTyped'
  BY DEF Structure, SettleRecs
<1>2. /\ LinksFit'
      /\ \A k : (Known(k)' <=> Known(k)) /\ (IsPending(k)' <=> IsPending(k)) /\ (IsRegistered(k)' <=> IsRegistered(k))
      /\ \A d, k : IsPending(d) => (Linked(d, k)' <=> Linked(d, k))
  BY <1>1, LinksStay
<1>3. stack \in Seq(Frames) /\ providingState = [n \in Comp |-> providingState[n]]
  BY DEF RInv, FInv, Frames, Types
<1>4. /\ Len(stack) \in Nat \ {0} /\ Len(stack') = Len(stack) - 1
      /\ \A i \in 1 .. Len(stack') : stack'[i] = stack[i] /\ i \in 1 .. Len(stack) - 1
      /\ \A i \in 1 .. Len(stack) - 1 : i \in 1 .. Len(stack')
      /\ stack' # <<>> => Len(stack) - 1 \in 1 .. Len(stack) - 1 /\ Top' = stack[Len(stack) - 1]
  BY <1>3, StackShrinks
<1>5. \A n \in Comp : /\ providingState[n] = "provided" => providingState'[n] = "provided"
                      /\ n # x => providingState'[n] = providingState[n]
                      /\ providingState'[x] = "provided"
  BY <1>3
<1>6. ASSUME NEW i \in 1 .. Len(stack) - 1
      PROVE  /\ i \in 1 .. Len(stack) /\ i + 1 \in 1 .. Len(stack)
             /\ Known(stack[i].node) /\ (stack[i].kind = "lateInit" => i = 1)
             /\ stack[i].kind # "called" /\ Linked(stack[i].node, stack[i + 1].node)
             /\ IsPending(stack[i].node)
  <2>1. i \in 1 .. Len(stack) /\ i + 1 \in 1 .. Len(stack)
    BY <1>4
  <2>2. /\ Known(stack[i].node) /\ (stack[i].kind = "lateInit" => i = 1)
        /\ stack[i].kind # "called" /\ Linked(stack[i].node, stack[i + 1].node)
    BY <1>1, <2>1 DEF StackFits
  <2> QED
    BY <2>1, <2>2, UserFrames
<1>7. StackFits'
  <2>1. ASSUME NEW i \in 1 .. Len(stack') PROVE Known(stack[i].node)' /\ (stack'[i].kind = "lateInit" => i = 1)
    <3>1. PICK k : k = stack[i].node /\ k = stack'[i].node
      BY <1>4
    <3>2. Known(k)' /\ (stack'[i].kind = "lateInit" => i = 1)
      BY <1>2, <1>4, <1>6, <3>1
    <3> QED
      BY <3>1, <3>2
  <2>2. ASSUME NEW i \in 1 .. Len(stack') - 1
        PROVE  stack'[i].kind # "called" /\ Linked(stack[i].node, stack[i + 1].node)'
    <3>1. i \in 1 .. Len(stack') /\ i + 1 \in 1 .. Len(stack') /\ i \in 1 .. Len(stack) - 1
      BY <1>4
    <3>2. PICK d, k : d = stack[i].node /\ k = stack[i + 1].node
      OBVIOUS
    <3>3. d = stack'[i].node /\ k = stack'[i + 1].node /\ stack'[i] = stack[i]
      BY <1>4, <3>1, <3>2
    <3>4. Linked(d, k)'
      BY <1>2, <1>6, <3>1, <3>2
    <3> QED
      BY <1>6, <3>1, <3>3, <3>4
  <2>3. ASSUME NEW m \in returning'
        PROVE  /\ stack' # <<>> /\ Top'.kind # "called" /\ Linked(Top.node, m)'
               /\ m \in Comp /\ Known(m)' /\ providingState'[m] = "provided"
    <3>1. m = x /\ stack' # <<>>
      OBVIOUS
    <3>2. PICK j \in 1 .. Len(stack) - 1 : j = Len(stack) - 1 /\ Top' = stack[j] /\ j + 1 = Len(stack)
      BY <1>4, <3>1
    <3>3. PICK d : d = stack[j].node /\ d = Top'.node
      BY <3>2
    <3>4. x = stack[j + 1].node
      BY <3>2 DEF Top
    <3>5. Linked(d, x)' /\ stack[j].kind # "called"
      BY <1>2, <1>6, <3>3, <3>4
    <3>6. Known(x)'
      <4>1. Len(stack) \in 1 .. Len(stack)
        BY <1>4
      <4> QED
        BY <1>1, <1>2, <4>1 DEF StackFits, Top
    <3> QED
      BY <1>5, <3>1, <3>2, <3>3, <3>5, <3>6
  <2> QED
    BY <2>1, <2>2, <2>3 DEF StackFits
<1>8. ObtainedFits'
  <2> SUFFICES ASSUME NEW d \in Comp, NEW k \in obtained[d]
               PROVE  /\ Known(d)' /\ Known(k)' /\ providingState'[k] = "provided"
                      /\ IsPending(d)' => Linked(d, k)'
    BY <1>1 DEF ObtainedFits
  <2>1. Known(d) /\ Known(k) /\ providingState[k] = "provided" /\ (IsPending(d) => Linked(d, k))
    BY <1>1 DEF ObtainedFits
  <2>2. k \in Comp
    BY <1>1 DEF ObtainedFits
  <2> QED
    BY <1>2, <1>5, <2>1, <2>2
<1>9. ProvidedBelow'
  <2> SUFFICES ASSUME NEW n \in DOMAIN pending', providingState'[n] # "provided", NEW d \in pending'[n].dependents
               PROVE  \E i, j \in 1 .. Len(stack') : i < j /\ stack'[i].node = d /\ stack'[j].node = n
    BY DEF ProvidedBelow
  <2>1. n \in DOMAIN pending /\ d \in pending[n].dependents /\ n \in Comp
    BY <1>1 DEF SettleRecs, RecsTyped
  <2>2. n # x /\ providingState[n] # "provided"
    BY <1>5, <2>1
  <2>3. PICK i, j \in 1 .. Len(stack) : i < j /\ stack[i].node = d /\ stack[j].node = n
    BY <1>1, <2>1, <2>2 DEF ProvidedBelow
  <2>4. j # Len(stack)
    BY <2>2, <2>3 DEF Top
  <2>5. i \in 1 .. Len(stack) - 1 /\ j \in 1 .. Len(stack) - 1
    <3>1. Len(stack) \in Nat
      BY <1>4
    <3> QED
      BY <2>3, <2>4, <3>1
  <2>6. i \in 1 .. Len(stack') /\ j \in 1 .. Len(stack') /\ stack'[i] = stack[i] /\ stack'[j] = stack[j]
    BY <1>4, <2>5
  <2> QED
    BY <2>3, <2>6
<1> QED
  BY <1>1, <1>2, <1>7, <1>8, <1>9

LEMMA SameCounting ==
    ASSUME Structure, Counting, Calm, Leaving' = {},
           \A e \in DOMAIN pending : waits(e)' = waits(e) /\ (Unfinished(e)' <=> Unfinished(e)),
           \A d \in Comp : IsRegistered(d)' /\ ~providedErr'[d] =>
               IsRegistered(d) /\ ~providedErr[d] /\ obtained'[d] = obtained[d]
    PROVE  Counting'
<1>1. \A e \in DOMAIN pending : Covered(e)' \/ Unfinished(e)' \/ (~Unfinished(e) /\ waits(e)' = waits(e))
  OBVIOUS
<1>2. \A n \in Leaving' \ Failing' : \E S \in FreeSets' : n \in S
  OBVIOUS
<1> QED
  BY <1>1, <1>2, CalmCounting

LEMMA TopPlace ==
    ASSUME RInv, stack # <<>>
    PROVE  /\ stack \in Seq(Frames) /\ Len(stack) \in 1 .. Len(stack) /\ Top = stack[Len(stack)]
           /\ Top.node \in Comp /\ Len(stack) \in Nat \ {0}
<1>1. stack \in Seq(Frames)
  BY DEF RInv, FInv, Frames
<1>2. Len(stack) \in 1 .. Len(stack) /\ Len(stack) \in Nat \ {0}
  BY <1>1
<1> QED
  BY <1>1, <1>2, TopFrame DEF Top

\* User code gets a component, without an error or not, or adds a hook.
LEMMA QuietStructure ==
    ASSUME RInv, Straight, Structure, Counting, stack # <<>>, Top.kind # "called", removing = <<>>, SameRecs,
           UNCHANGED <<stack, removing, componentNode>>, returning' = returning \/ returning' = {},
           \/ obtained' = obtained
           \/ \E m \in Comp : /\ Known(m) /\ Linked(Top.node, m) /\ providingState[m] = "provided"
                              /\ obtained' = [obtained EXCEPT ![Top.node] = @ \cup {m}]
    PROVE  Structure' /\ Counting' /\ Calm
<1>1. UNCHANGED <<providingState, providedErr, regState>> /\ Top' = Top
  BY DEF componentNode, regResult, Top
<1>2. RecsTyped /\ LinksFit /\ StackFits /\ ObtainedFits /\ ProvidedBelow /\ stack \in Seq(Frames)
  BY DEF Structure, RInv, FInv, Frames
<1>3. PICK x : x = Top.node
  OBVIOUS
<1>4. x \in Comp /\ ~IsRegistered(x) /\ IsPending(x)
  BY <1>3, TopPlace, UserFrames
<1>6. /\ RecsTyped' /\ LinksFit' /\ SchedulesFit' /\ Calm
      /\ \A e \in DOMAIN pending : waits(e)' = waits(e) /\ (Unfinished(e)' <=> Unfinished(e))
      /\ \A k : (Known(k)' <=> Known(k)) /\ (IsPending(k)' <=> IsPending(k)) /\ (IsRegistered(k)' <=> IsRegistered(k))
      /\ \A d, k : IsPending(d) => (Linked(d, k)' <=> Linked(d, k))
      /\ Leaving' = {}
  BY <1>1, SameRecsKeep
<1>7. /\ obtained' \in [Comp -> SUBSET Comp]
      /\ \A d \in Comp \ {x} : obtained'[d] = obtained[d]
      /\ \A k \in obtained'[x] \ obtained[x] : Known(k) /\ Linked(x, k) /\ providingState[k] = "provided"
  <2>1. CASE obtained' = obtained
    BY <1>2, <2>1 DEF ObtainedFits
  <2>2. ASSUME NEW m \in Comp, Known(m), Linked(x, m), providingState[m] = "provided",
               obtained' = [obtained EXCEPT ![x] = @ \cup {m}]
        PROVE  /\ obtained' \in [Comp -> SUBSET Comp]
               /\ \A d \in Comp \ {x} : obtained'[d] = obtained[d]
               /\ \A k \in obtained'[x] \ obtained[x] : Known(k) /\ Linked(x, k) /\ providingState[k] = "provided"
    <3>1. obtained \in [Comp -> SUBSET Comp]
      BY <1>2 DEF ObtainedFits
    <3>2. /\ obtained' \in [Comp -> SUBSET Comp] /\ obtained'[x] = obtained[x] \cup {m}
          /\ \A d \in Comp \ {x} : obtained'[d] = obtained[d]
      BY <1>4, <2>2, <3>1
    <3> QED
      BY <2>2, <3>2
  <2> QED
    BY <1>3, <2>1, <2>2
<1>8. StackFits'
  <2>1. ASSUME NEW i \in 1 .. Len(stack) PROVE Known(stack[i].node)' /\ (stack[i].kind = "lateInit" => i = 1)
    <3>1. PICK k : k = stack[i].node
      OBVIOUS
    <3>2. Known(k)' /\ k = stack'[i].node
      BY <1>2, <1>6, <3>1 DEF StackFits
    <3> QED
      BY <1>2, <3>1, <3>2 DEF StackFits
  <2>2. ASSUME NEW i \in 1 .. Len(stack) - 1
        PROVE  stack[i].kind # "called" /\ Linked(stack[i].node, stack[i + 1].node)'
    <3>1. PICK d, k : d = stack[i].node /\ k = stack[i + 1].node
      OBVIOUS
    <3>2. i \in 1 .. Len(stack) /\ stack[i].kind # "called" /\ Linked(d, k)
      BY <1>2, <3>1 DEF StackFits
    <3>3. Linked(d, k)'
      BY <1>6, <3>1, <3>2, UserFrames
    <3> QED
      BY <3>1, <3>2, <3>3
  <2>3. ASSUME NEW m \in returning'
        PROVE  /\ stack # <<>> /\ Top.kind # "called" /\ Linked(Top.node, m)'
               /\ m \in Comp /\ Known(m)' /\ providingState[m] = "provided"
    <3>1. m \in Comp /\ Known(m) /\ providingState[m] = "provided" /\ Linked(x, m)
      BY <1>2, <1>3 DEF StackFits
    <3>2. Linked(x, m)' /\ x = Top'.node
      BY <1>1, <1>3, <1>4, <1>6, <3>1
    <3> QED
      BY <1>6, <3>1, <3>2
  <2>4. Top' = Top /\ stack' = stack
    BY <1>1
  <2> QED
    BY <1>1, <2>1, <2>2, <2>3, <2>4 DEF StackFits
<1>9. ObtainedFits'
  <2> SUFFICES ASSUME NEW d \in Comp, NEW k \in obtained'[d]
               PROVE  /\ Known(d)' /\ Known(k)' /\ providingState'[k] = "provided"
                      /\ IsPending(d)' => Linked(d, k)'
    BY <1>7 DEF ObtainedFits
  <2>1. Known(d) /\ Known(k) /\ providingState[k] = "provided" /\ (IsPending(d) => Linked(d, k))
    <3>1. CASE k \in obtained[d]
      BY <1>2, <3>1 DEF ObtainedFits
    <3>2. CASE k \notin obtained[d]
      BY <1>3, <1>4, <1>7, <3>2 DEF Known
    <3> QED
      BY <3>1, <3>2
  <2> QED
    BY <1>1, <1>6, <2>1
<1>10. ProvidedBelow'
  BY <1>1, <1>2 DEF ProvidedBelow, SameRecs
<1>11. \A d \in Comp : IsRegistered(d)' /\ ~providedErr'[d] =>
               IsRegistered(d) /\ ~providedErr[d] /\ obtained'[d] = obtained[d]
  BY <1>1, <1>4, <1>6, <1>7
<1> QED
  BY <1>6, <1>8, <1>9, <1>10, <1>11, SameCounting DEF Structure

BuilderRec(r) == [r EXCEPT !.lcHookBuilders = TRUE]

LEMMA BuilderRecs ==
    ASSUME RecsTyped, NEW x \in DOMAIN pending, AddLifecycleHookBuilder(x)
    PROVE  /\ SameRecs
           /\ \A n \in DOMAIN pending : /\ pending'[n].lcHooks = pending[n].lcHooks
                                        /\ pending'[n].hasOwnOrTransitiveRunnables = pending[n].hasOwnOrTransitiveRunnables
<1>1. PICK r \in RecType : r = pending[x]
  BY DEF RecsTyped
<1>2. PICK s : s = BuilderRec(r)
  OBVIOUS
<1>3. /\ DOMAIN pending' = DOMAIN pending /\ pending'[x] = s
      /\ \A n \in DOMAIN pending \ {x} : pending'[n] = pending[n]
  BY <1>1, <1>2 DEF AddLifecycleHookBuilder, With, RecOf, IsPending, BuilderRec
<1>4. DOMAIN r = {"dependsOn", "dependents", "lcHookBuilders", "lcHooks", "waitsForDepsCount",
                  "hasOwnOrTransitiveRunnables"}
  BY DEF RecType
<1>5. s = [r EXCEPT !.lcHookBuilders = TRUE]
  BY <1>2 DEF BuilderRec
<1>6. /\ s["dependsOn"] = r["dependsOn"] /\ s["dependents"] = r["dependents"]
      /\ s["waitsForDepsCount"] = r["waitsForDepsCount"]
      /\ s["hasOwnOrTransitiveRunnables"] = r["hasOwnOrTransitiveRunnables"]
      /\ s["lcHooks"] = r["lcHooks"] /\ s["lcHookBuilders"] = TRUE
  BY <1>4, <1>5
<1>7. s = [f \in DOMAIN r |-> s[f]]
  BY <1>5, Zenon
<1>8. s \in RecType
  BY <1>6, <1>7, RecByFields DEF RecType
<1>9. RecsTyped'
  BY <1>3, <1>8 DEF RecsTyped
<1> QED
  BY <1>1, <1>3, <1>6, <1>9 DEF SameRecs, deps, waits

\* The provider of the component on top starts.
LEMMA ProviderStartStructure ==
    ASSUME RInv, Straight, Structure, Counting, stack # <<>>, Top.kind = "called", removing = <<>>, returning = {},
           NEW x, x = Top.node, providingState[x] = "none",
           providingState' = [providingState EXCEPT ![x] = "inProgress"],
           stack' = Append(Below, Frame(x, "provider")),
           UNCHANGED <<providedErr, regResult, pending, removing, returning, obtained>>
    PROVE  Structure' /\ Counting' /\ Calm
<1>1. /\ RecsTyped /\ LinksFit /\ StackFits /\ ObtainedFits /\ ProvidedBelow /\ stack \in Seq(Frames)
      /\ providingState = [n \in Comp |-> providingState[n]] /\ regState' = regState
  BY DEF Structure, RInv, FInv, Frames, Types, regResult
<1>2. x \in Comp /\ Len(stack) \in 1 .. Len(stack) /\ Top = stack[Len(stack)] /\ Len(stack) \in Nat \ {0}
  BY TopPlace
<1>3. SameRecs
  BY <1>1 DEF SameRecs, RecsTyped, deps, waits
<1>4. /\ RecsTyped' /\ LinksFit' /\ SchedulesFit' /\ Calm
      /\ \A e \in DOMAIN pending : waits(e)' = waits(e) /\ (Unfinished(e)' <=> Unfinished(e))
      /\ \A k : (Known(k)' <=> Known(k)) /\ (IsPending(k)' <=> IsPending(k)) /\ (IsRegistered(k)' <=> IsRegistered(k))
      /\ Leaving' = {}
  BY <1>1, <1>3, SameRecsKeep
<1>5. \A d, k : Linked(d, k)' <=> Linked(d, k)
  BY <1>1 DEF Linked, deps
<1>6. /\ Len(stack') = Len(stack)
      /\ \A i \in 1 .. Len(stack) : stack'[i].node = stack[i].node /\ (i # Len(stack) => stack'[i] = stack[i])
      /\ stack'[Len(stack)].kind = "provider"
  <2>1. /\ Below \in Seq(Frames) /\ Len(Below) = Len(stack) - 1
        /\ \A i \in 1 .. Len(stack) - 1 : Below[i] = stack[i]
    BY <1>1, LastAndFront DEF Below
  <2>2. Frame(x, "provider") \in Frames
    BY <1>2 DEF Frame, Frames, FrameKinds
  <2> DEFINE b == Below
             f == Frame(x, "provider")
  <2>3. /\ b \in Seq(Frames) /\ Len(b) = Len(stack) - 1 /\ f \in Frames /\ stack' = Append(b, f)
        /\ \A i \in 1 .. Len(stack) - 1 : b[i] = stack[i]
    BY <2>1, <2>2
  <2>4. f.node = x /\ f.kind = "provider"
    BY DEF Frame
  <2> HIDE DEF b, f
  <2>5. /\ Len(stack') = Len(stack) /\ stack'[Len(stack)] = f
        /\ \A i \in 1 .. Len(stack) - 1 : stack'[i] = stack[i]
    BY <1>2, <2>3
  <2>6. \A i \in 1 .. Len(stack) : i = Len(stack) \/ i \in 1 .. Len(stack) - 1
    BY <1>2
  <2> QED
    BY <1>2, <2>4, <2>5, <2>6
<1>7. StackFits'
  <2>1. ASSUME NEW i \in 1 .. Len(stack) PROVE Known(stack[i].node)' /\ (stack'[i].kind = "lateInit" => i = 1)
    <3>1. PICK k : k = stack[i].node /\ k = stack'[i].node
      BY <1>6
    <3>2. Known(k)' /\ (stack'[i].kind = "lateInit" => i = 1)
      BY <1>1, <1>4, <1>6, <3>1 DEF StackFits
    <3> QED
      BY <3>1, <3>2
  <2>2. ASSUME NEW i \in 1 .. Len(stack) - 1
        PROVE  stack'[i].kind # "called" /\ Linked(stack[i].node, stack[i + 1].node)'
    <3>0. i \in 1 .. Len(stack) /\ i + 1 \in 1 .. Len(stack) /\ i # Len(stack)
      BY <1>2
    <3>1. PICK d, k : d = stack'[i].node /\ k = stack'[i + 1].node
      OBVIOUS
    <3>2. d = stack[i].node /\ k = stack[i + 1].node /\ stack'[i] = stack[i]
      BY <1>6, <3>0, <3>1
    <3>3. stack[i].kind # "called" /\ Linked(d, k)'
      BY <1>1, <1>5, <3>2 DEF StackFits
    <3> QED
      BY <3>1, <3>2, <3>3
  <2> QED
    BY <1>6, <2>1, <2>2 DEF StackFits
<1>8. ObtainedFits'
  <2> SUFFICES ASSUME NEW d \in Comp, NEW k \in obtained[d]
               PROVE  /\ Known(d)' /\ Known(k)' /\ providingState'[k] = "provided"
                      /\ IsPending(d)' => Linked(d, k)'
    BY <1>1 DEF ObtainedFits
  <2>1. Known(d) /\ Known(k) /\ providingState[k] = "provided" /\ (IsPending(d) => Linked(d, k))
    BY <1>1 DEF ObtainedFits
  <2>2. k \in Comp
    BY <1>1 DEF ObtainedFits
  <2>3. providingState'[k] = "provided"
    BY <1>1, <2>1, <2>2
  <2> QED
    BY <1>4, <1>5, <2>1, <2>3
<1>9. ProvidedBelow'
  <2> SUFFICES ASSUME NEW n \in DOMAIN pending, providingState'[n] # "provided", NEW d \in pending[n].dependents
               PROVE  \E i, j \in 1 .. Len(stack') : i < j /\ stack'[i].node = d /\ stack'[j].node = n
    BY DEF ProvidedBelow
  <2>1. n \in Comp
    BY <1>1 DEF RecsTyped
  <2>2. providingState[n] # "provided"
    BY <1>1, <2>1
  <2>3. PICK i, j \in 1 .. Len(stack) : i < j /\ stack[i].node = d /\ stack[j].node = n
    <3>1. ProvidedBelow
      BY <1>1
    <3> QED
      BY <2>2, <3>1, Zenon DEF ProvidedBelow
  <2>4. Len(stack') = Len(stack) /\ stack'[i].node = d /\ stack'[j].node = n
    BY <1>6, <2>3
  <2> QED
    BY <2>3, <2>4, Zenon
<1>10. \A d \in Comp : IsRegistered(d)' /\ ~providedErr'[d] =>
               IsRegistered(d) /\ ~providedErr[d] /\ obtained'[d] = obtained[d]
  BY <1>4
<1> QED
  BY <1>4, <1>7, <1>8, <1>9, <1>10, SameCounting DEF Structure

\* A queued late init starts, on the empty stack: its component is not registered.
LEMMA LateInitStartStructure ==
    ASSUME RInv, Straight, Structure, Counting, ExecuteQueuedLateInit
    PROVE  Structure' /\ Counting' /\ Calm
<1>0. PICK x : x = items[frontIndex + 1]
  OBVIOUS
<1>1. /\ stack = <<>> /\ frontIndex \in Int /\ frontIndex >= 0 /\ Len(items) \in Nat /\ frontIndex < Len(items)
      /\ FInv /\ Types
  <2>1. FInv /\ Types
    BY DEF RInv
  <2>2. Len(items) \in Nat /\ frontIndex \in -1 .. Len(items)
    BY <2>1 DEF FInv, IsQueue
  <2>3. stack = <<>> /\ QueueLen > 0
    BY DEF ExecuteQueuedLateInit
  <2> QED
    BY <2>1, <2>2, <2>3 DEF QueueLen, QueueLength
<1>2. x \in Comp
  BY <1>0, <1>1, SMTT(30) DEF FInv, IsQueue
<1>3. queuedLateInitsCount[x] # 0
  <2>1. frontIndex + 1 \in Queued(items, frontIndex, x)
    BY <1>0, <1>1 DEF Queued
  <2>2. IsFiniteSet(Queued(items, frontIndex, x))
    BY <1>1, PlacesAreFinite
  <2>3. Cardinality(Queued(items, frontIndex, x)) # 0
    BY <2>1, <2>2, FS_EmptySet
  <2> QED
    BY <1>1, <1>2, <2>3 DEF FInv, Counted
<1>4. Known(x)
  <2>1. totalFramesCount[x] # 0
    BY <1>1, <1>2, <1>3, NoFrames
  <2>2. x \notin cycled /\ ~Over(x)
    BY <1>3 DEF Straight, Over
  <2> QED
    BY <1>2, <2>1, <2>2 DEF RInv, OverIfRegistered, Known
<1>5. /\ UNCHANGED <<providingState, providedErr, regState, pending, removing, returning, obtained>>
      /\ removing = <<>>
      /\ stack' = Append(stack, Frame(x, "lateInit"))
  BY <1>0 DEF ExecuteQueuedLateInit, PushQueuedLateInitFrameToStack, componentNode, regResult, user
<1>6. /\ RecsTyped /\ LinksFit /\ StackFits /\ ObtainedFits /\ ProvidedBelow
  BY DEF Structure
<1>7. SameRecs
  BY <1>5, <1>6 DEF SameRecs, RecsTyped, deps, waits
<1>8. /\ RecsTyped' /\ LinksFit' /\ SchedulesFit' /\ Calm
      /\ \A e \in DOMAIN pending : waits(e)' = waits(e) /\ (Unfinished(e)' <=> Unfinished(e))
      /\ \A k : (Known(k)' <=> Known(k)) /\ (IsPending(k)' <=> IsPending(k)) /\ (IsRegistered(k)' <=> IsRegistered(k))
      /\ Leaving' = {}
  BY <1>5, <1>7, SameRecsKeep
<1>9. Len(stack') = 1 /\ stack'[1] = Frame(x, "lateInit") /\ Len(stack) = 0
  BY <1>1, <1>5
<1>10. StackFits'
  <2>1. stack'[1].node = x /\ Known(x)'
    BY <1>4, <1>8, <1>9 DEF Frame
  <2>2. ASSUME NEW i \in 1 .. Len(stack') PROVE Known(stack[i].node)' /\ i = 1
    BY <1>9, <2>1
  <2>3. returning' = {}
    BY <1>1, <1>5, <1>6 DEF StackFits
  <2>4. 1 .. Len(stack') - 1 = {}
    BY <1>9
  <2> QED
    BY <2>2, <2>3, <2>4 DEF StackFits
<1>11. ObtainedFits'
  <2>1. \A d, k : Linked(d, k)' <=> Linked(d, k)
    BY <1>5 DEF Linked, deps
  <2> QED
    BY <1>5, <1>6, <1>8, <2>1 DEF ObtainedFits
<1>12. ProvidedBelow'
  <2>1. \A i : i \notin 1 .. Len(stack)
    BY <1>9
  <2> QED
    BY <1>5, <1>6, <2>1 DEF ProvidedBelow
<1>13. \A d \in Comp : IsRegistered(d)' /\ ~providedErr'[d] =>
               IsRegistered(d) /\ ~providedErr[d] /\ obtained'[d] = obtained[d]
  BY <1>5, <1>8
<1> QED
  BY <1>8, <1>10, <1>11, <1>12, <1>13, SameCounting DEF Structure

-----------------------------------------------------------------------------
(* The end of a frame. *)

LEMMA OneScheduled ==
    ASSUME NEW A, removing' = ToRemove(A, <<>>)
    PROVE  /\ Scheduled' = A
           /\ Leaving' = {n \in DOMAIN pending' : \E c \in A : c.node = n}
           /\ Failing' = {n \in DOMAIN pending' : \E c \in A : c.node = n /\ c.err}
<1>1. Scheduled' = A
  <2>1. CASE A = {}
    <3>1. removing' = <<>>
      BY <2>1 DEF ToRemove
    <3>2. DOMAIN removing' = {}
      BY <3>1
    <3> QED
      BY <2>1, <3>2 DEF Scheduled
  <2>2. CASE A # {}
    <3>1. removing' = <<A>>
      BY <2>2 DEF ToRemove
    <3>2. DOMAIN removing' = {1} /\ removing'[1] = A
      BY <3>1
    <3> QED
      BY <3>2 DEF Scheduled
  <2> QED
    BY <2>1, <2>2
<1> QED
  BY <1>1 DEF Leaving, Failing

\* What the end of a frame does to the stack, and to the component of the frame.
FrameEnds(x) ==
    /\ stack # <<>> /\ x = Top.node /\ x \in Comp /\ removing = <<>> /\ stack' = Below
    /\ UNCHANGED <<regState, obtained>>
    /\ providingState' = [providingState EXCEPT ![x] = "provided"]
    /\ returning' = {} \/ (returning' = {x} /\ stack' # <<>>)

\* What it leaves alone, and whether a getter is about to return.
EndsAlone(x) ==
    /\ UNCHANGED <<nodeDependsOn, nodeHasHooks, lateInitsAdded>> /\ returning = {}
    /\ \A n \in Comp : /\ n # x => totalFramesCount'[n] = totalFramesCount[n]
                       /\ queuedLateInitsCount'[n] \in {queuedLateInitsCount[n], 0}
    /\ stack' # <<>> => returning' = {x}

\* The two ways a frame ends.
FailsWith(x, li, report) ==
    /\ pending' = pending /\ removing' = ToRemove({RemoveArgs(x, TRUE, li, report)}, <<>>)
    /\ li => Top.kind = "lateInit" /\ providedErr' = providedErr
    /\ Unfinished(x) \/ ~IsPending(x)
    /\ ~li /\ IsPending(x) => providingState[x] # "provided"
    /\ ~report => providedErr'[x]
    /\ \A n \in Comp : /\ providedErr[n] => providedErr'[n]
                       /\ providedErr'[n] => providedErr[n] \/ (n = x /\ IsPending(x))
Succeeds(x) ==
    /\ providedErr' = providedErr
    /\ IF PopsLastFrame THEN OnLastNodeFramePoppedWithNoErr(x) ELSE UNCHANGED <<pending, removing>>
    /\ Unfinished(x) \/ x \notin LeftBehind

\* The frame of x on top of the stack ends.
EndOf(x) ==
    /\ FrameEnds(x) /\ EndsAlone(x)
    /\ Succeeds(x) \/ \E li, report \in BOOLEAN : FailsWith(x, li, report)

LEMMA EndsInSilence ==
    ASSUME RInv, Straight, Structure, Counting, NEW x, FrameEnds(x), UNCHANGED <<pending, removing, providedErr>>
    PROVE  Structure' /\ Counting' /\ Calm
<1>1. SameRecs
  BY DEF SameRecs, Structure, RecsTyped, deps, waits
<1>2. SettleRecs(x)
  BY <1>1 DEF SameRecs, SettleRecs
<1>3. RecsTyped' /\ LinksFit' /\ StackFits' /\ ObtainedFits' /\ ProvidedBelow'
  BY <1>2, PopStructure DEF FrameEnds
<1>4. /\ SchedulesFit' /\ Calm /\ Leaving' = {}
      /\ \A e \in DOMAIN pending : waits(e)' = waits(e) /\ (Unfinished(e)' <=> Unfinished(e))
      /\ \A k : IsRegistered(k)' <=> IsRegistered(k)
  BY <1>1, SameRecsKeep DEF FrameEnds
<1>5. \A d \in Comp : IsRegistered(d)' /\ ~providedErr'[d] =>
               IsRegistered(d) /\ ~providedErr[d] /\ obtained'[d] = obtained[d]
  BY <1>4 DEF FrameEnds
<1> QED
  BY <1>3, <1>4, <1>5, SameCounting DEF Structure

\* With an error. Those that depend on the component are below it on the stack, and have not
\* got it, unless its late init fails.
LEMMA EndsWithError ==
    ASSUME RInv, Straight, Structure, Counting, NEW x, FrameEnds(x), NEW li \in BOOLEAN, NEW report \in BOOLEAN,
           FailsWith(x, li, report)
    PROVE  Structure' /\ Counting' /\ Calm
<1> SUFFICES ASSUME pending' = pending, removing' = ToRemove({RemoveArgs(x, TRUE, li, report)}, <<>>),
                    li => Top.kind = "lateInit", Unfinished(x) \/ ~IsPending(x),
                    ~li /\ IsPending(x) => providingState[x] # "provided",
                    ~report => providedErr'[x],
                    \A n \in Comp : /\ providedErr[n] => providedErr'[n]
                                    /\ providedErr'[n] => providedErr[n] \/ (n = x /\ IsPending(x))
             PROVE  Structure' /\ Counting' /\ Calm
  BY DEF FailsWith
<1>1. SettleRecs(x)
  BY DEF SettleRecs, Structure, RecsTyped, deps, waits
<1>2. RecsTyped' /\ LinksFit' /\ StackFits' /\ ObtainedFits' /\ ProvidedBelow'
  BY <1>1, PopStructure DEF FrameEnds
<1>3. PICK a : a = RemoveArgs(x, TRUE, li, report)
  OBVIOUS
<1>4. a.node = x /\ a.err /\ a.isLateInitErr = li /\ a.report = report
  BY <1>3 DEF RemoveArgs
<1>5. /\ Scheduled' = {a}
      /\ Leaving' = {n \in DOMAIN pending : n = x} /\ Failing' = {n \in DOMAIN pending : n = x}
  <2>1. PICK A : A = {a} /\ removing' = ToRemove(A, <<>>)
    BY <1>3
  <2>2. /\ Scheduled' = A
        /\ Leaving' = {n \in DOMAIN pending' : \E c \in A : c.node = n}
        /\ Failing' = {n \in DOMAIN pending' : \E c \in A : c.node = n /\ c.err}
    BY <2>1, OneScheduled, Zenon
  <2> QED
    BY <1>4, <2>1, <2>2
<1>6. Scheduled = {} /\ Leaving = {} /\ Failing = {} /\ SchedulesFit /\ StackFits /\ ObtainedFits /\ ProvidedBelow
  BY NothingScheduled DEF FrameEnds, Structure
<1>7. /\ stack \in Seq(Frames) /\ Len(stack) \in Nat \ {0} /\ Len(stack) \in 1 .. Len(stack) /\ Top = stack[Len(stack)]
      /\ Len(stack') = Len(stack) - 1
      /\ \A i \in 1 .. Len(stack') : stack'[i] = stack[i] /\ i \in 1 .. Len(stack) - 1
  BY TopPlace, StackShrinks DEF FrameEnds
<1>8. SchedulesFit'
  <2>1. a.isLateInitErr => stack' = <<>>
    <3> SUFFICES ASSUME li PROVE stack' = <<>>
      BY <1>4
    <3>1. Len(stack) = 1
      BY <1>6, <1>7 DEF StackFits
    <3>2. Below \in Seq(Frames) /\ Len(Below) = 0
      BY <1>7, <3>1, TopFrame DEF FrameEnds
    <3> QED
      BY <3>2 DEF FrameEnds
  <2>2. ASSUME ~li, IsPending(x), NEW d \in pending[x].dependents PROVE Unfinished(d)'
    <3>0. x \in DOMAIN pending /\ providingState[x] # "provided"
      BY <2>2 DEF IsPending
    <3>1. PICK i, j \in 1 .. Len(stack) : i < j /\ stack[i].node = d /\ stack[j].node = x
      <4>1. ProvidedBelow
        BY <1>6
      <4> QED
        BY <2>2, <3>0, <4>1, Zenon DEF ProvidedBelow
    <3>2. i \in 1 .. Len(stack) - 1
      BY <1>7, <3>1
    <3>3. stack[i].kind # "called"
      BY <1>6, <3>2 DEF StackFits
    <3>4. Unfinished(d)
      BY <3>1, <3>3, UserFrames
    <3> QED
      BY <3>4 DEF Unfinished, IsPending, waits
  <2>3. ASSUME ~li, IsPending(x), NEW d \in Comp PROVE x \notin obtained'[d]
    BY <1>6, <2>3 DEF ObtainedFits, FrameEnds
  <2>4. ASSUME NEW n \in Comp, providedErr'[n] PROVE IsRegistered(n)' \/ n \in Failing'
    <3>1. CASE providedErr[n]
      BY <1>6, <3>1 DEF SchedulesFit, IsRegistered, FrameEnds
    <3>2. CASE n = x /\ IsPending(x)
      BY <1>5, <3>2 DEF IsPending
    <3> QED
      BY <2>4, <3>1, <3>2
  <2>5. \A n \in DOMAIN pending' : waits(n)' # 0
    BY <1>6 DEF SchedulesFit, waits
  <2>6. IsPending(x)' <=> IsPending(x)
    BY DEF IsPending
  <2> QED
    BY <1>4, <1>5, <2>1, <2>2, <2>3, <2>4, <2>5, <2>6 DEF SchedulesFit
<1>9. Structure'
  BY <1>2, <1>8 DEF Structure
<1>10. \A k \in DOMAIN pending : (Unfinished(k)' <=> Unfinished(k)) /\ deps(k)' = deps(k) /\ waits(k)' = waits(k)
  BY DEF Unfinished, IsPending, waits, deps
<1>11. Calm
  BY <1>5, <1>10 DEF Calm, FrameEnds, IsPending
<1>12. Leaving' \ Failing' = {}
  BY <1>5
<1>13. \A d \in Comp : IsRegistered(d)' /\ ~providedErr'[d] =>
               IsRegistered(d) /\ ~providedErr[d] /\ obtained'[d] = obtained[d]
  BY DEF IsRegistered, FrameEnds
<1>14. \A e \in DOMAIN pending : Covered(e)' \/ Unfinished(e)' \/ (~Unfinished(e) /\ waits(e)' = waits(e))
  BY <1>10
<1>15. \A n \in Leaving' \ Failing' : \E S \in FreeSets' : n \in S
  BY <1>12
<1>16. Counting'
  BY <1>11, <1>13, <1>14, <1>15, CalmCounting
<1> QED
  BY <1>9, <1>11, <1>16

SettledRec(r, w, hooks, all) ==
    [r EXCEPT !.waitsForDepsCount = w, !.lcHooks = hooks, !.lcHookBuilders = FALSE,
              !.hasOwnOrTransitiveRunnables = all]

LEMMA SettledRecFields ==
    ASSUME NEW r \in RecType, NEW w \in Nat, NEW hooks \in BOOLEAN, NEW all \in BOOLEAN
    PROVE  /\ SettledRec(r, w, hooks, all) \in RecType
           /\ SettledRec(r, w, hooks, all).dependsOn = r.dependsOn
           /\ SettledRec(r, w, hooks, all).dependents = r.dependents
           /\ SettledRec(r, w, hooks, all).waitsForDepsCount = w
           /\ SettledRec(r, w, hooks, all).lcHooks = hooks
           /\ SettledRec(r, w, hooks, all).hasOwnOrTransitiveRunnables = all
<1>1. PICK s : s = SettledRec(r, w, hooks, all)
  OBVIOUS
<1>2. DOMAIN r = {"dependsOn", "dependents", "lcHookBuilders", "lcHooks", "waitsForDepsCount",
                  "hasOwnOrTransitiveRunnables"}
  BY DEF RecType
<1>3. s = [r EXCEPT !.waitsForDepsCount = w, !.lcHooks = hooks, !.lcHookBuilders = FALSE,
                    !.hasOwnOrTransitiveRunnables = all]
  BY <1>1 DEF SettledRec
<1>4. /\ s["dependsOn"] = r["dependsOn"] /\ s["dependents"] = r["dependents"]
      /\ s["waitsForDepsCount"] = w /\ s["hasOwnOrTransitiveRunnables"] = all
      /\ s["lcHooks"] = hooks /\ s["lcHookBuilders"] = FALSE
  BY <1>2, <1>3
<1>5. s = [f \in DOMAIN r |-> s[f]]
  BY <1>3, Zenon
<1>6. r["dependsOn"] \in SUBSET Comp /\ r["dependents"] \in SUBSET Comp
  BY DEF RecType
<1>7. s \in RecType
  BY <1>4, <1>5, <1>6, RecByFields
<1> QED
  BY <1>1, <1>4, <1>7

LEMMA Settles ==
    ASSUME RecsTyped, NoneZero, NEW x \in DOMAIN pending, OnLastNodeFramePoppedWithNoErr(x)
    PROVE  \E w \in WaitsForDeps(x) :
              /\ SettleRecs(x) /\ waits(x)' = w
              /\ removing' = ToRemove(IF w = 0 THEN {RemoveArgs(x, FALSE, FALSE, FALSE)} ELSE {}, removing)
              /\ pending'[x].lcHooks = (pending[x].lcHooks \/ pending[x].lcHookBuilders)
              /\ pending'[x].hasOwnOrTransitiveRunnables =
                    (pending[x].hasOwnOrTransitiveRunnables \/ pending'[x].lcHooks)
              /\ \A n \in DOMAIN pending \ {x} : pending'[n] = pending[n]
<1>1. PICK w \in WaitsForDeps(x) :
            LET hooks == pending[x].lcHooks \/ pending[x].lcHookBuilders
            IN  /\ pending' = [pending EXCEPT
                                   ![x].waitsForDepsCount = w,
                                   ![x].lcHooks = hooks,
                                   ![x].lcHookBuilders = FALSE,
                                   ![x].hasOwnOrTransitiveRunnables = @ \/ hooks]
                /\ removing' = ToRemove(IF w = 0 THEN {RemoveArgs(x, FALSE, FALSE, FALSE)} ELSE {}, removing)
  BY DEF OnLastNodeFramePoppedWithNoErr, IsPending
<1>2. w \in Nat
  BY WaitsCover
<1>3. PICK r \in RecType : r = pending[x]
  BY DEF RecsTyped
<1>4. PICK hooks \in BOOLEAN : hooks = (r.lcHooks \/ r.lcHookBuilders)
  OBVIOUS
<1>5. PICK all \in BOOLEAN : all = (r.hasOwnOrTransitiveRunnables \/ hooks)
  OBVIOUS
<1>6. pending' = [pending EXCEPT ![x].waitsForDepsCount = w, ![x].lcHooks = hooks, ![x].lcHookBuilders = FALSE,
                                 ![x].hasOwnOrTransitiveRunnables = all]
  <2>1. pending' = [pending EXCEPT
                                   ![x].waitsForDepsCount = w,
                                   ![x].lcHooks = pending[x].lcHooks \/ pending[x].lcHookBuilders,
                                   ![x].lcHookBuilders = FALSE,
                                   ![x].hasOwnOrTransitiveRunnables = @ \/ (pending[x].lcHooks \/ pending[x].lcHookBuilders)]
    BY <1>1
  <2> QED
    BY <1>3, <1>4, <1>5, <2>1
<1>7. /\ DOMAIN pending' = DOMAIN pending
      /\ \A n \in DOMAIN pending \ {x} : pending'[n] = pending[n]
      /\ pending'[x] = SettledRec(r, w, hooks, all)
  BY <1>3, <1>6 DEF SettledRec
<1>8. PICK s : s = SettledRec(r, w, hooks, all)
  OBVIOUS
<1>9. /\ s \in RecType /\ s.dependsOn = r.dependsOn /\ s.dependents = r.dependents /\ s.waitsForDepsCount = w
      /\ s.lcHooks = hooks /\ s.hasOwnOrTransitiveRunnables = all
  <2>1. PICK v \in Nat : v = w
    BY <1>2
  <2>2. /\ SettledRec(r, v, hooks, all) \in RecType
        /\ SettledRec(r, v, hooks, all).dependsOn = r.dependsOn
        /\ SettledRec(r, v, hooks, all).dependents = r.dependents
        /\ SettledRec(r, v, hooks, all).waitsForDepsCount = v
        /\ SettledRec(r, v, hooks, all).lcHooks = hooks
        /\ SettledRec(r, v, hooks, all).hasOwnOrTransitiveRunnables = all
    BY SettledRecFields
  <2>3. s = SettledRec(r, v, hooks, all)
    BY <1>8, <2>1
  <2> QED
    BY <2>1, <2>2, <2>3, Zenon
<1>10. RecsTyped'
  BY <1>7, <1>8, <1>9 DEF RecsTyped
<1>11. SettleRecs(x) /\ waits(x)' = w
  BY <1>3, <1>7, <1>8, <1>9, <1>10 DEF SettleRecs, deps, waits
<1>12. /\ pending'[x].lcHooks = (pending[x].lcHooks \/ pending[x].lcHookBuilders)
       /\ pending'[x].hasOwnOrTransitiveRunnables =
                    (pending[x].hasOwnOrTransitiveRunnables \/ pending'[x].lcHooks)
  BY <1>3, <1>4, <1>5, <1>7, <1>8, <1>9
<1> QED
  BY <1>1, <1>7, <1>11, <1>12

\* Without an error, and with no frame left: the component finishes, and waits for others
\* or is about to be registered.
LEMMA EndsAndSettles ==
    ASSUME RInv, Straight, Structure, Counting, NEW x, FrameEnds(x), providedErr' = providedErr,
           x \in DOMAIN pending, OnLastNodeFramePoppedWithNoErr(x), Unfinished(x) \/ x \notin LeftBehind
    PROVE  Structure' /\ Counting' /\ Calm
<1>1. RecsTyped /\ LinksFit /\ SchedulesFit
  BY DEF Structure
<1>2. Scheduled = {} /\ Leaving = {} /\ Failing = {} /\ removing = <<>>
  BY NothingScheduled DEF FrameEnds
<1>3. \A n \in DOMAIN pending : waits(n) # 0
  BY <1>1, <1>2 DEF SchedulesFit
<1>4. NoneZero
  BY <1>3 DEF NoneZero, waits
<1>5. PICK w \in WaitsForDeps(x) :
              /\ SettleRecs(x) /\ waits(x)' = w
              /\ removing' = ToRemove(IF w = 0 THEN {RemoveArgs(x, FALSE, FALSE, FALSE)} ELSE {}, removing)
  BY <1>1, <1>4, Settles
<1>6. PICK S \in SUBSET (DOMAIN pending \ {x}) :
          /\ w \in Nat
          /\ \A k \in S : waits(k) # waitsForOwnFrames /\ deps(k) \cap DOMAIN pending \subseteq S \cup {x}
          /\ Cardinality((deps(x) \cap DOMAIN pending) \ (S \cup {x})) \in Nat
          /\ Cardinality((deps(x) \cap DOMAIN pending) \ (S \cup {x})) <= w
  BY <1>1, <1>4, WaitsCover
<1>7. RecsTyped' /\ LinksFit' /\ StackFits' /\ ObtainedFits' /\ ProvidedBelow'
  BY <1>5, PopStructure DEF FrameEnds
<1>8. /\ DOMAIN pending' = DOMAIN pending
      /\ \A n \in DOMAIN pending : deps(n)' = deps(n) /\ (n # x => waits(n)' = waits(n))
  BY <1>5 DEF SettleRecs
<1>9. PICK A : A = (IF w = 0 THEN {RemoveArgs(x, FALSE, FALSE, FALSE)} ELSE {})
  OBVIOUS
<1>10. \A c \in A : c.node = x /\ ~c.err /\ ~c.isLateInitErr /\ w = 0
  BY <1>9 DEF RemoveArgs
<1>11. /\ Scheduled' = A
       /\ Leaving' = {n \in DOMAIN pending' : \E c \in A : c.node = n}
       /\ Failing' = {n \in DOMAIN pending' : \E c \in A : c.node = n /\ c.err}
  BY <1>2, <1>5, <1>9, OneScheduled, Zenon
<1>12. Failing' = {} /\ Leaving' \subseteq {x} /\ (Leaving' # {} => w = 0) /\ (w = 0 => x \in Leaving')
  <2>1. w = 0 => RemoveArgs(x, FALSE, FALSE, FALSE) \in A /\ RemoveArgs(x, FALSE, FALSE, FALSE).node = x
    BY <1>9 DEF RemoveArgs
  <2> QED
    BY <1>8, <1>10, <1>11, <2>1
<1>13. SchedulesFit'
  <2>1. \A c, e \in A : c = e
    BY <1>9
  <2>2. \A n \in Comp : providedErr'[n] => IsRegistered(n)'
    BY <1>1, <1>2 DEF SchedulesFit, IsRegistered, FrameEnds
  <2>3. \A n \in DOMAIN pending' : waits(n)' = 0 => n \in Leaving'
    BY <1>3, <1>5, <1>8, <1>12
  <2> QED
    BY <1>10, <1>11, <2>1, <2>2, <2>3 DEF SchedulesFit
<1>14. Closed(S, {x})'
  <2>1. \A k \in S : k \in DOMAIN pending /\ k # x
    OBVIOUS
  <2> QED
    BY <1>6, <1>8, <1>12, <2>1 DEF Closed
<1>15. Covered(x)'
  <2>1. S \in ClearSets(x)'
    BY <1>8, <1>12, <1>14 DEF ClearSets
  <2> QED
    BY <1>5, <1>6, <1>8, <2>1 DEF Covered
<1>16. ASSUME w = 0 PROVE deps(x) \cap DOMAIN pending \subseteq S \cup {x}
  <2>1. IsFiniteSet((deps(x) \cap DOMAIN pending) \ (S \cup {x}))
    <3>1. (deps(x) \cap DOMAIN pending) \ (S \cup {x}) \subseteq Comp
      BY <1>1 DEF RecsTyped
    <3> QED
      BY <3>1, CompAssumption, FS_Subset
  <2>2. Cardinality((deps(x) \cap DOMAIN pending) \ (S \cup {x})) = 0
    BY <1>6, <1>16
  <2>3. (deps(x) \cap DOMAIN pending) \ (S \cup {x}) = {}
    BY <2>1, <2>2, FS_EmptySet
  <2> QED
    BY <2>3
<1>17. ASSUME w = 0 PROVE S \cup {x} \in FreeSets'
  <2>1. \A k \in S \cup {x} : waits(k)' # waitsForOwnFrames /\ deps(k)' \cap DOMAIN pending' \subseteq S \cup {x}
    BY <1>5, <1>6, <1>8, <1>16, <1>17 DEF waitsForOwnFrames
  <2> QED
    BY <1>8, <1>12, <2>1 DEF FreeSets, Closed
<1>18. ASSUME w = 0 PROVE Unfinished(x)
  <2> SUFFICES ASSUME ~Unfinished(x) PROVE FALSE
    OBVIOUS
  <2>1. waits(x) # waitsForOwnFrames
    BY DEF Unfinished, IsPending
  <2>2. \A n \in S \cup {x} : n \in DOMAIN pending /\ waits(n) # waitsForOwnFrames
                              /\ deps(n) \cap DOMAIN pending \subseteq S \cup {x}
    BY <1>6, <1>16, <1>18, <2>1
  <2>3. x \in LeftBehind
    BY <2>2 DEF LeftBehind, waits, deps
  <2> QED
    BY <2>3
<1>19. ~Unfinished(x)'
  BY <1>5, <1>6 DEF Unfinished, waitsForOwnFrames
<1>20. \A k \in DOMAIN pending : ~Unfinished(k) => ~Unfinished(k)'
  BY <1>8, <1>19 DEF Unfinished, IsPending
<1>21. Calm
  BY <1>2, <1>8, <1>12, <1>18, <1>20 DEF Calm
<1>22. \A e \in DOMAIN pending : Covered(e)' \/ Unfinished(e)' \/ (~Unfinished(e) /\ waits(e)' = waits(e))
  BY <1>8, <1>15 DEF Unfinished, IsPending
<1>23. \A n \in Leaving' \ Failing' : \E T \in FreeSets' : n \in T
  BY <1>12, <1>17
<1>24. \A d \in Comp : IsRegistered(d)' /\ ~providedErr'[d] =>
               IsRegistered(d) /\ ~providedErr[d] /\ obtained'[d] = obtained[d]
  BY DEF IsRegistered, FrameEnds
<1>25. Counting'
  BY <1>21, <1>22, <1>23, <1>24, CalmCounting
<1> QED
  BY <1>7, <1>13, <1>21, <1>25 DEF Structure

LEMMA EndOfStructure ==
    ASSUME RInv, Straight, Structure, Counting, NEW x, EndOf(x)
    PROVE  Structure' /\ Counting' /\ Calm
<1>1. FrameEnds(x)
  BY DEF EndOf
<1>2. CASE Succeeds(x)
  <2>1. CASE UNCHANGED <<pending, removing>>
    BY <1>1, <1>2, <2>1, EndsInSilence DEF Succeeds
  <2>2. CASE x \in DOMAIN pending /\ OnLastNodeFramePoppedWithNoErr(x)
    BY <1>1, <1>2, <2>2, EndsAndSettles DEF Succeeds
  <2> QED
    BY <1>2, <2>1, <2>2 DEF Succeeds, OnLastNodeFramePoppedWithNoErr, IsPending
<1>3. CASE \E li, report \in BOOLEAN : FailsWith(x, li, report)
  BY <1>1, <1>3, EndsWithError
<1> QED
  BY <1>2, <1>3 DEF EndOf

\* What PopTopFrame leaves alone.
LEMMA PopsAlone ==
    ASSUME RInv, NEW err \in BOOLEAN, PopTopFrame(err), NEW x \in Comp, x = Top.node,
           UNCHANGED <<nodeDependsOn, nodeHasHooks, lateInitsAdded>>, returning = {},
           returning' = (IF Below = <<>> THEN {} ELSE {x}) \/ Below = <<>>
    PROVE  EndsAlone(x)
<1>1. totalFramesCount \in [Comp -> Nat] /\ queuedLateInitsCount \in [Comp -> Nat]
  BY DEF RInv, FInv
<1>2. /\ totalFramesCount' = [totalFramesCount EXCEPT ![x] = @ - 1 - Dropped(x, err)]
      /\ queuedLateInitsCount' = [queuedLateInitsCount EXCEPT ![x] = @ - Dropped(x, err)]
      /\ stack' = Below
  BY DEF PopTopFrame
<1>3. ASSUME NEW n \in Comp
      PROVE  /\ n # x => totalFramesCount'[n] = totalFramesCount[n]
             /\ queuedLateInitsCount'[n] \in {queuedLateInitsCount[n], 0}
  <2>1. CASE n # x
    BY <1>1, <1>2, <2>1
  <2>2. CASE n = x
    <3>1. queuedLateInitsCount'[x] = queuedLateInitsCount[x] - Dropped(x, err) /\ queuedLateInitsCount[x] \in Nat
      BY <1>1, <1>2
    <3> QED
      BY <2>2, <3>1 DEF Dropped
  <2> QED
    BY <2>1, <2>2
<1> QED
  BY <1>2, <1>3 DEF EndsAlone

\* What StartProviding does.
LEMMA StartProvidingSteps ==
    ASSUME RInv, Straight, Straight', Structure, StartProviding, NEW x, x = Top.node
    PROVE  /\ stack # <<>> /\ Top.kind = "called" /\ removing = <<>> /\ returning = {} /\ x \in Comp
           /\ \/ /\ providingState[x] = "none"
                 /\ providingState' = [providingState EXCEPT ![x] = "inProgress"]
                 /\ stack' = Append(Below, Frame(x, "provider"))
                 /\ UNCHANGED <<providedErr, regResult, lateInitsQueue, stats, pending, removing, returning, user>>
              \/ EndOf(x)
<1>1. /\ stack # <<>> /\ Top.kind = "called" /\ removing = <<>> /\ returning = {} /\ x \in Comp /\ Types
  BY TopPlace DEF StartProviding, Settled, RInv
<1>2. CASE /\ providingState[x] = "none"
           /\ providingState' = [providingState EXCEPT ![x] = "inProgress"]
           /\ stack' = Append(Below, Frame(x, "provider"))
           /\ UNCHANGED <<providedErr, regResult, lateInitsQueue, stats, pending, removing, returning, user>>
  BY <1>1, <1>2
<1>3. CASE cycled' = cycled \cup {x}
  BY <1>3 DEF Straight
<1>4. CASE /\ providingState[x] = "provided"
           /\ revived' = revived \cup ({x} \cap LeftBehind)
           /\ UNCHANGED <<providingState, providedErr>>
           /\ ProviderFrameEnds(providedErr[x], FALSE)
  <2>1. x \notin LeftBehind
    BY <1>4 DEF Straight
  <2>2. providingState' = [providingState EXCEPT ![x] = "provided"]
    BY <1>1, <1>4 DEF Types
  <2>3. FrameEnds(x)
    BY <1>1, <1>4, <2>2 DEF FrameEnds, ProviderFrameEnds, PopTopFrame, regResult
  <2>4. EndsAlone(x)
    <3>1. PICK err \in BOOLEAN : err = providedErr[x]
      BY <1>1 DEF Types
    <3>2. PopTopFrame(err) /\ returning' = (IF Below = <<>> THEN {} ELSE {x})
      BY <1>4, <3>1 DEF ProviderFrameEnds
    <3>3. UNCHANGED <<nodeDependsOn, nodeHasHooks, lateInitsAdded>>
      BY <1>4 DEF ProviderFrameEnds, regResult
    <3> QED
      BY <1>1, <3>2, <3>3, PopsAlone
  <2>5. CASE ~providedErr[x]
    <3>1. IF PopsLastFrame THEN OnLastNodeFramePoppedWithNoErr(x) ELSE UNCHANGED <<pending, removing>>
      BY <1>4, <2>5 DEF ProviderFrameEnds
    <3> QED
      BY <1>1, <1>4, <2>1, <2>3, <2>4, <3>1 DEF EndOf, Succeeds
  <2>6. CASE providedErr[x]
    <3>1. OnDepFrameErr(x, FALSE)
      BY <1>4, <2>6 DEF ProviderFrameEnds
    <3>2. pending' = pending /\ removing' = ToRemove({RemoveArgs(x, TRUE, FALSE, FALSE)}, <<>>)
      BY <1>1, <3>1 DEF OnDepFrameErr
    <3>3. Failing = {} /\ SchedulesFit
      BY <1>1, NothingScheduled DEF Structure
    <3>4. ~IsPending(x)
      BY <1>1, <2>6, <3>3, RegisteredAreOver DEF SchedulesFit
    <3>5. FailsWith(x, FALSE, FALSE)
      BY <1>4, <2>6, <3>2, <3>4 DEF FailsWith
    <3> QED
      BY <1>1, <2>3, <2>4, <3>5 DEF EndOf
  <2> QED
    BY <2>5, <2>6
<1> QED
  BY <1>2, <1>3, <1>4 DEF StartProviding

LEMMA StartProvidingStructure ==
    ASSUME RInv, Straight, Straight', Structure, Counting, StartProviding
    PROVE  Structure' /\ Counting' /\ Calm
<1>0. PICK x : x = Top.node
  OBVIOUS
<1>1. /\ stack # <<>> /\ Top.kind = "called" /\ removing = <<>> /\ returning = {} /\ x \in Comp
      /\ \/ /\ providingState[x] = "none"
            /\ providingState' = [providingState EXCEPT ![x] = "inProgress"]
            /\ stack' = Append(Below, Frame(x, "provider"))
            /\ UNCHANGED <<providedErr, regResult, lateInitsQueue, stats, pending, removing, returning, user>>
         \/ EndOf(x)
  BY <1>0, StartProvidingSteps
<1>2. CASE EndOf(x)
  BY <1>2, EndOfStructure
<1>3. CASE ~EndOf(x)
  BY <1>0, <1>1, <1>3, ProviderStartStructure DEF user
<1> QED
  BY <1>2, <1>3

LEMMA ProviderEnds ==
    ASSUME RInv, Straight, Straight', ProviderReturns \/ ProviderPanics, NEW x, x = Top.node
    PROVE  EndOf(x) /\ Unfinished(x) /\ IsPending(x)
<1>1. /\ stack # <<>> /\ Top.kind = "provider" /\ removing = <<>> /\ returning = {} /\ Types
      /\ providingState' = [providingState EXCEPT ![x] = "provided"]
  BY DEF ProviderReturns, ProviderPanics, UserCode, Settled, RInv
<1>2. x \in Comp /\ Unfinished(x) /\ IsPending(x) /\ ~providedErr[x]
  BY <1>1, TopPlace, UserFrames
<1>3. providingState[x] # "provided"
  <2>1. Providing(x) # {} /\ FramesFit(x) /\ x \notin cycled
    BY <1>1, <1>2, RunsItsCode DEF RInv, Straight
  <2> QED
    BY <2>1 DEF FramesFit
<1>4. ASSUME NEW err \in BOOLEAN, NEW report \in BOOLEAN, ProviderFrameEnds(err, report)
      PROVE  FrameEnds(x) /\ EndsAlone(x)
  <2>1. FrameEnds(x)
    BY <1>1, <1>2, <1>4 DEF FrameEnds, ProviderFrameEnds, PopTopFrame, regResult
  <2>2. PopTopFrame(err) /\ returning' = (IF Below = <<>> THEN {} ELSE {x})
    BY <1>4 DEF ProviderFrameEnds
  <2>3. UNCHANGED <<nodeDependsOn, nodeHasHooks, lateInitsAdded>>
    BY <1>4 DEF ProviderFrameEnds, regResult
  <2> QED
    BY <1>1, <1>2, <2>1, <2>2, <2>3, PopsAlone
<1>5. CASE providedErr' = [providedErr EXCEPT ![x] = FALSE] /\ ProviderFrameEnds(FALSE, FALSE)
  <2>1. providedErr' = providedErr
    BY <1>1, <1>2, <1>5 DEF Types
  <2>2. IF PopsLastFrame THEN OnLastNodeFramePoppedWithNoErr(x) ELSE UNCHANGED <<pending, removing>>
    BY <1>5 DEF ProviderFrameEnds
  <2> QED
    BY <1>2, <1>4, <1>5, <2>1, <2>2 DEF EndOf, Succeeds
<1>6. ASSUME NEW report \in BOOLEAN, ProviderFrameEnds(TRUE, report), ~report => providedErr'[x],
             \A n \in Comp : /\ providedErr[n] => providedErr'[n]
                             /\ providedErr'[n] => providedErr[n] \/ n = x
      PROVE  EndOf(x)
  <2>1. OnDepFrameErr(x, report)
    BY <1>6 DEF ProviderFrameEnds
  <2>2. pending' = pending /\ removing' = ToRemove({RemoveArgs(x, TRUE, FALSE, report)}, <<>>)
    BY <1>1, <2>1 DEF OnDepFrameErr
  <2>3. FrameEnds(x) /\ EndsAlone(x)
    BY <1>4, <1>6
  <2>4. \A n \in Comp : /\ providedErr[n] => providedErr'[n]
                       /\ providedErr'[n] => providedErr[n] \/ (n = x /\ IsPending(x))
    BY <1>2, <1>6
  <2>5. FailsWith(x, FALSE, report)
    BY <1>2, <1>3, <1>6, <2>2, <2>4 DEF FailsWith
  <2> QED
    BY <2>3, <2>5 DEF EndOf
<1>7. CASE providedErr' = [providedErr EXCEPT ![x] = TRUE] /\ ProviderFrameEnds(TRUE, FALSE)
  <2>1. providedErr \in [Comp -> BOOLEAN]
    BY <1>1 DEF Types
  <2>2. providedErr'[x] /\ \A n \in Comp : /\ providedErr[n] => providedErr'[n]
                                           /\ providedErr'[n] => providedErr[n] \/ n = x
    BY <1>2, <1>7, <2>1
  <2> QED
    BY <1>2, <1>6, <1>7, <2>2
<1>8. CASE providedErr' = providedErr /\ ProviderFrameEnds(TRUE, TRUE)
  BY <1>2, <1>6, <1>8
<1> QED
  BY <1>2, <1>5, <1>7, <1>8 DEF ProviderReturns, ProviderPanics

LEMMA LateInitEnds ==
    ASSUME RInv, Straight, Straight', Structure, LateInitReturns, NEW x, x = Top.node
    PROVE  EndOf(x)
<1>1. stack # <<>> /\ Top.kind = "lateInit" /\ removing = <<>> /\ Types /\ returning = {}
  BY DEF LateInitReturns, UserCode, Settled, RInv
<1>2. x \in Comp /\ Unfinished(x)
  BY <1>1, TopPlace, UserFrames
<1>3. providingState[x] = "provided"
  <2>1. InLateInit(x) # {} /\ FramesFit(x)
    BY <1>1, <1>2, RunsItsCode DEF RInv
  <2> QED
    BY <2>1 DEF FramesFit
<1>4. PICK err \in BOOLEAN :
          /\ PopTopFrame(err)
          /\ IF ~PopsLastFrame THEN UNCHANGED <<pending, removing>>
             ELSE IF err THEN OnDepLateInitFrameErr(x)
             ELSE OnLastNodeFramePoppedWithNoErr(x)
  <2>1. {FALSE} \cup {"lateInit" \in Failures} \subseteq BOOLEAN
    OBVIOUS
  <2>2. \E err \in {FALSE} \cup {"lateInit" \in Failures} :
          /\ PopTopFrame(err)
          /\ IF ~PopsLastFrame THEN UNCHANGED <<pending, removing>>
             ELSE IF err THEN OnDepLateInitFrameErr(x)
             ELSE OnLastNodeFramePoppedWithNoErr(x)
    BY Zenon DEF LateInitReturns
  <2> QED
    BY <2>1, <2>2, Zenon
<1>5. UNCHANGED <<providingState, providedErr, regState, nodeDependsOn, nodeHasHooks, returning, obtained, lateInitsAdded>>
  BY DEF LateInitReturns, componentNode, regResult, user
<1>6. providingState' = [providingState EXCEPT ![x] = "provided"]
  BY <1>1, <1>2, <1>3, <1>5 DEF Types
<1>7. FrameEnds(x)
  BY <1>1, <1>2, <1>4, <1>5, <1>6 DEF FrameEnds, PopTopFrame
<1>8. EndsAlone(x)
  <2>1. Len(stack) = 1
    <3>1. Len(stack) \in 1 .. Len(stack) /\ Top = stack[Len(stack)]
      BY <1>1, TopPlace
    <3> QED
      BY <1>1, <3>1 DEF Structure, StackFits
  <2>2. Below = <<>>
    <3>1. Below \in Seq(Frames) /\ Len(Below) = 0
      BY <1>1, <2>1, TopFrame DEF RInv, FInv, Frames
    <3> QED
      BY <3>1
  <2> QED
    BY <1>1, <1>2, <1>4, <1>5, <2>2, PopsAlone
<1>9. CASE OnDepLateInitFrameErr(x)
  <2>1. pending' = pending /\ removing' = ToRemove({RemoveArgs(x, TRUE, TRUE, TRUE)}, <<>>)
    BY <1>1, <1>9 DEF OnDepLateInitFrameErr
  <2>2. FailsWith(x, TRUE, TRUE)
    BY <1>1, <1>2, <1>5, <2>1 DEF FailsWith
  <2> QED
    BY <1>7, <1>8, <2>2 DEF EndOf
<1>10. CASE IF PopsLastFrame THEN OnLastNodeFramePoppedWithNoErr(x) ELSE UNCHANGED <<pending, removing>>
  BY <1>2, <1>5, <1>7, <1>8, <1>10 DEF EndOf, Succeeds
<1> QED
  BY <1>4, <1>9, <1>10

-----------------------------------------------------------------------------
(* Removals. *)

Members(s) == UNION {s[i] : i \in DOMAIN s}

LEMMA ScheduledBy ==
    ASSUME NEW T, NEW calls \in SUBSET T, NEW rest \in Seq(SUBSET T)
    PROVE  Members(ToRemove(calls, rest)) = calls \cup Members(rest)
<1>1. CASE calls = {}
  BY <1>1 DEF ToRemove, Members
<1>2. CASE calls # {}
  <2>1. PICK s : s = <<calls>> \o rest
    OBVIOUS
  <2>2. <<calls>> \in Seq(SUBSET T) /\ Len(<<calls>>) = 1 /\ <<calls>>[1] = calls
    OBVIOUS
  <2>3. /\ s \in Seq(SUBSET T) /\ Len(s) = Len(rest) + 1 /\ s[1] = calls /\ Len(rest) \in Nat
        /\ \A i \in 1 .. Len(rest) : s[i + 1] = rest[i]
    BY <2>1, <2>2
  <2>4. DOMAIN s = 1 .. Len(rest) + 1 /\ DOMAIN rest = 1 .. Len(rest)
    BY <2>3
  <2>5. ASSUME NEW i \in DOMAIN s PROVE s[i] \subseteq calls \cup UNION {rest[j] : j \in DOMAIN rest}
    <3>1. CASE i = 1
      BY <2>3, <3>1
    <3>2. CASE i # 1
      <4>1. PICK j \in DOMAIN rest : i = j + 1
        <5>1. i - 1 \in DOMAIN rest /\ i = (i - 1) + 1
          BY <2>3, <2>4, <3>2
        <5> QED
          BY <5>1
      <4> QED
        BY <2>3, <2>4, <4>1
    <3> QED
      BY <3>1, <3>2
  <2>6. 1 \in DOMAIN s /\ \A j \in DOMAIN rest : j + 1 \in DOMAIN s /\ s[j + 1] = rest[j]
    BY <2>3, <2>4
  <2>7. UNION {s[i] : i \in DOMAIN s} = calls \cup UNION {rest[j] : j \in DOMAIN rest}
    BY <2>3, <2>5, <2>6
  <2> QED
    BY <1>2, <2>1, <2>7 DEF ToRemove, Members
<1> QED
  BY <1>1, <1>2

\* What a removal leaves of the calls still to make, and what it adds to them.
LEMMA ScheduledNext ==
    ASSUME RInv, removing # <<>>, NEW a \in Head(removing), NEW B \in SUBSET RemoveCalls,
           removing' = ToRemove(B, ToRemove(Head(removing) \ {a}, Tail(removing)))
    PROVE  /\ a \in Scheduled
           /\ Scheduled \ {a} \subseteq Scheduled' /\ B \subseteq Scheduled' /\ Scheduled' \subseteq Scheduled \cup B
<1>1. removing \in Seq(SUBSET CallsOver)
  BY DEF RInv
<1>2. CallsOver \subseteq RemoveCalls
  BY DEF CallsOver
<1>3. PICK s : s = removing
  OBVIOUS
<1>4. s \in Seq(SUBSET RemoveCalls) /\ s # <<>>
  <2> HIDE DEF CallsOver, RemoveCalls
  <2>1. removing \in Seq(SUBSET CallsOver)
    BY <1>1
  <2>2. \A i \in 1 .. Len(removing) : removing[i] \in SUBSET RemoveCalls
    BY <1>2, <2>1
  <2> QED
    BY <1>3, <2>1, <2>2
<1> HIDE DEF RemoveCalls
<1>5. /\ Len(s) \in Nat \ {0} /\ Head(s) = s[1] /\ Tail(s) \in Seq(SUBSET RemoveCalls) /\ Len(Tail(s)) = Len(s) - 1
      /\ \A i \in 1 .. Len(s) - 1 : Tail(s)[i] = s[i + 1]
      /\ Head(s) \in SUBSET RemoveCalls
  BY <1>4
<1>6. Scheduled = Head(s) \cup Members(Tail(s))
  <2>1. DOMAIN s = 1 .. Len(s) /\ DOMAIN Tail(s) = 1 .. Len(s) - 1
    BY <1>4, <1>5
  <2>2. ASSUME NEW i \in DOMAIN s PROVE s[i] \subseteq Head(s) \cup UNION {Tail(s)[j] : j \in DOMAIN Tail(s)}
    <3>1. CASE i = 1
      BY <1>5, <3>1
    <3>2. CASE i # 1
      <4>1. PICK j \in DOMAIN Tail(s) : i = j + 1
        <5>1. i - 1 \in DOMAIN Tail(s) /\ i = (i - 1) + 1
          BY <1>5, <2>1, <3>2
        <5> QED
          BY <5>1
      <4> QED
        BY <1>5, <2>1, <4>1
    <3> QED
      BY <3>1, <3>2
  <2>3. 1 \in DOMAIN s /\ \A j \in DOMAIN Tail(s) : j + 1 \in DOMAIN s /\ s[j + 1] = Tail(s)[j]
    BY <1>5, <2>1
  <2>4. UNION {s[i] : i \in DOMAIN s} = Head(s) \cup UNION {Tail(s)[j] : j \in DOMAIN Tail(s)}
    BY <1>5, <2>2, <2>3
  <2> QED
    BY <1>3, <2>4 DEF Scheduled, Members
<1>7. PICK H : H = Head(s) \ {a} /\ H \in SUBSET RemoveCalls
  BY <1>5
<1>8. PICK t \in Seq(SUBSET RemoveCalls) : t = Tail(s)
  BY <1>5
<1>9. PICK r \in Seq(SUBSET RemoveCalls) : r = ToRemove(H, t)
  BY <1>7, ToRemoveType
<1>10. Members(r) = H \cup Members(t)
  BY <1>7, <1>9, ScheduledBy
<1>11. removing' = ToRemove(B, r)
  BY <1>3, <1>7, <1>8, <1>9
<1>12. Members(ToRemove(B, r)) = B \cup Members(r)
  BY ScheduledBy
<1>13. Scheduled' = B \cup Members(r)
  BY <1>11, <1>12 DEF Scheduled, Members
<1>14. Scheduled = Head(s) \cup Members(t) /\ Scheduled' = B \cup H \cup Members(t)
  BY <1>6, <1>8, <1>10, <1>13
<1> QED
  BY <1>3, <1>7, <1>14

RemovedRec(r, a, b, w) == [r EXCEPT !.dependents = a, !.dependsOn = b, !.waitsForDepsCount = w]

LEMMA RemovedRecFields ==
    ASSUME NEW r \in RecType, NEW a \in SUBSET Comp, NEW b \in SUBSET Comp, NEW w \in Nat \cup {waitsForOwnFrames}
    PROVE  /\ RemovedRec(r, a, b, w) \in RecType
           /\ RemovedRec(r, a, b, w).dependents = a
           /\ RemovedRec(r, a, b, w).dependsOn = b
           /\ RemovedRec(r, a, b, w).waitsForDepsCount = w
           /\ RemovedRec(r, a, b, w).lcHooks = r.lcHooks
           /\ RemovedRec(r, a, b, w).hasOwnOrTransitiveRunnables = r.hasOwnOrTransitiveRunnables
<1>1. PICK s : s = RemovedRec(r, a, b, w)
  OBVIOUS
<1>2. DOMAIN r = {"dependsOn", "dependents", "lcHookBuilders", "lcHooks", "waitsForDepsCount",
                  "hasOwnOrTransitiveRunnables"}
  BY DEF RecType
<1>3. s = [r EXCEPT !.dependents = a, !.dependsOn = b, !.waitsForDepsCount = w]
  BY <1>1 DEF RemovedRec
<1>4. /\ s["dependents"] = a /\ s["dependsOn"] = b /\ s["waitsForDepsCount"] = w
      /\ s["hasOwnOrTransitiveRunnables"] = r["hasOwnOrTransitiveRunnables"]
      /\ s["lcHooks"] = r["lcHooks"] /\ s["lcHookBuilders"] = r["lcHookBuilders"]
  BY <1>2, <1>3
<1>5. s = [f \in DOMAIN r |-> s[f]]
  BY <1>3, Zenon
<1>6. s \in RecType
  BY <1>4, <1>5, RecByFields DEF RecType
<1> QED
  BY <1>1, <1>4, <1>6

LEMMA OneFewer ==
    ASSUME NEW X, IsFiniteSet(X), NEW n \in X, NEW w \in Int, Cardinality(X) <= w
    PROVE  /\ w >= 1 /\ Cardinality(X \ {n}) <= w - 1
           /\ w = 1 => X = {n}
<1>1. Cardinality(X) \in Nat /\ Cardinality(X \ {n}) \in Nat /\ Cardinality(X \ {n}) = Cardinality(X) - 1 /\ IsFiniteSet(X \ {n})
  BY FS_CardinalityType, FS_RemoveElement
<1>2. w >= 1 /\ Cardinality(X \ {n}) <= w - 1
  BY <1>1
<1>3. ASSUME w = 1 PROVE X = {n}
  <2>1. Cardinality(X \ {n}) = 0
    BY <1>1, <1>2, <1>3
  <2>2. X \ {n} = {}
    BY <1>1, <2>1, FS_EmptySet
  <2> QED
    BY <2>2
<1> QED
  BY <1>2, <1>3

LEMMA FewerCover ==
    ASSUME NEW X, IsFiniteSet(X), NEW Y \in SUBSET X, NEW w \in Int, Cardinality(X) <= w
    PROVE  Cardinality(Y) <= w
<1>1. Cardinality(X) \in Nat /\ Cardinality(Y) \in Nat /\ Cardinality(Y) <= Cardinality(X)
  BY FS_Subset, FS_CardinalityType
<1> QED
  BY <1>1

\* The components that go with the one that a call of remove is for.
GoesToo(a) == {d \in Waiting(a.node) : a.isLateInitErr \/ waits(d) = 1}

LEMMA RemovedFacts ==
    ASSUME RInv, Straight, Structure, Counting, NEW a \in Scheduled, NEW n \in DOMAIN pending, n = a.node
    PROVE  /\ n \in Comp /\ Over(n) /\ n \in Leaving /\ ~IsRegistered(n) /\ IsPending(n)
           /\ a.err \in BOOLEAN /\ a.isLateInitErr \in BOOLEAN /\ (a.isLateInitErr => a.err)
           /\ Waiting(n) = {d \in DOMAIN pending \ {n} : n \in deps(d) /\ waits(d) # waitsForOwnFrames}
           /\ a.err /\ ~a.isLateInitErr => Waiting(n) = {}
           /\ \A d \in Waiting(n) : waits(d) \in Nat \ {0}
<1>1. RecsTyped /\ LinksFit /\ SchedulesFit
  BY DEF Structure
<1>2. a \in CallsOver
  <2>1. removing \in Seq(SUBSET CallsOver)
    BY DEF RInv
  <2> HIDE DEF CallsOver
  <2> QED
    BY <2>1 DEF Scheduled
<1>3. n \in Comp /\ Over(n) /\ a.err \in BOOLEAN /\ a.isLateInitErr \in BOOLEAN
  BY <1>2 DEF CallsOver, RemoveCalls, Straight
<1>4. n \in Leaving /\ ~IsRegistered(n) /\ IsPending(n)
  BY <1>3, RegisteredAreOver DEF Leaving, IsPending
<1>5. Waiting(n) = {d \in DOMAIN pending \ {n} : n \in deps(d) /\ waits(d) # waitsForOwnFrames}
  BY <1>1 DEF Waiting, LinksFit, IsPending, waits
<1>6. ASSUME a.err, ~a.isLateInitErr, NEW d \in Waiting(n) PROVE FALSE
  <2>1. d \in pending[n].dependents /\ waits(d) # waitsForOwnFrames
    BY DEF Waiting, waits
  <2>2. Unfinished(d)
    BY <1>1, <1>4, <1>6, <2>1 DEF SchedulesFit
  <2> QED
    BY <2>1, <2>2 DEF Unfinished
<1>7. ASSUME NEW d \in Waiting(n) PROVE waits(d) \in Nat \ {0}
  <2>1. d \in DOMAIN pending /\ n \in deps(d) /\ ~Unfinished(d) /\ d # n
    BY <1>5 DEF Unfinished
  <2>2. PICK S \in ClearSets(d) : Cardinality((deps(d) \cap DOMAIN pending) \ (S \cup {d})) <= waits(d)
    BY <2>1 DEF Counting, CountsCover, Covered
  <2>3. n \notin S
    BY <1>4 DEF ClearSets
  <2>4. n \in (deps(d) \cap DOMAIN pending) \ (S \cup {d}) /\ IsFiniteSet((deps(d) \cap DOMAIN pending) \ (S \cup {d}))
    <3>1. (deps(d) \cap DOMAIN pending) \ (S \cup {d}) \subseteq Comp
      BY <1>1 DEF RecsTyped
    <3> QED
      BY <2>1, <2>3, <3>1, CompAssumption, FS_Subset
  <2>5. waits(d) \in Nat \cup {waitsForOwnFrames} /\ waits(d) \in Int
    <3>1. pending[d] \in RecType
      BY <1>1, <2>1 DEF RecsTyped
    <3> QED
      BY <3>1 DEF RecType, waits, waitsForOwnFrames
  <2>6. waits(d) >= 1
    BY <2>2, <2>4, <2>5, OneFewer
  <2> QED
    BY <2>5, <2>6
<1> QED
  BY <1>1, <1>3, <1>4, <1>5, <1>6, <1>7 DEF SchedulesFit

\* What the removal of a pending component does to the other records and to the calls.
RemoveEffect(a, n) ==
    /\ RecsTyped' /\ DOMAIN pending' = DOMAIN pending \ {n}
    /\ \A m \in DOMAIN pending \ {n} :
          /\ deps(m)' = IF a.err THEN deps(m) \ {n} ELSE deps(m)
          /\ pending'[m].dependents = pending[m].dependents \ {n}
          /\ waits(m)' = IF m \in Waiting(n) \ GoesToo(a) THEN waits(m) - 1 ELSE waits(m)
          /\ pending'[m].lcHooks = pending[m].lcHooks
          /\ pending'[m].hasOwnOrTransitiveRunnables = pending[m].hasOwnOrTransitiveRunnables
    /\ Scheduled \ {a} \subseteq Scheduled'
    /\ \A d \in GoesToo(a) : RemoveArgs(d, a.err, a.isLateInitErr, TRUE) \in Scheduled'
    /\ \A c \in Scheduled' : c \in Scheduled
          \/ \E d \in GoesToo(a) : c = RemoveArgs(d, a.err, a.isLateInitErr, TRUE)

LEMMA RemoveHasEffect ==
    ASSUME RInv, Straight, Structure, Counting, removing # <<>>, NEW a \in Head(removing), Remove(a),
           NEW n, n = a.node, IsPending(n)
    PROVE  RemoveEffect(a, n) /\ a \in Scheduled
<1>1. RecsTyped /\ LinksFit
  BY DEF Structure
<1>2. n \in DOMAIN pending
  BY DEF IsPending
<1>3. a \in Scheduled
  <2>1. removing \in Seq(SUBSET CallsOver)
    BY DEF RInv
  <2> HIDE DEF CallsOver
  <2>2. 1 \in DOMAIN removing /\ Head(removing) = removing[1]
    BY <2>1
  <2> QED
    BY <2>2 DEF Scheduled
<1>4. /\ n \in Comp /\ a.err \in BOOLEAN /\ a.isLateInitErr \in BOOLEAN
      /\ Waiting(n) = {d \in DOMAIN pending \ {n} : n \in deps(d) /\ waits(d) # waitsForOwnFrames}
      /\ \A d \in Waiting(n) : waits(d) \in Nat \ {0}
  BY <1>2, <1>3, RemovedFacts
<1> DEFINE D == GoesToo(a)
           goesToo == {d \in Waiting(n) : a.isLateInitErr \/ pending[d].waitsForDepsCount = 1}
           B == {RemoveArgs(d, a.err, a.isLateInitErr, TRUE) : d \in D}
<1>5. goesToo = D
  BY DEF GoesToo, waits
<1>6. /\ pending' = [m \in DOMAIN pending \ {n} |->
                            [pending[m] EXCEPT
                                !.dependents = IF m \in pending[n].dependsOn THEN @ \ {n} ELSE @,
                                !.dependsOn = IF m \in LosesDependency(n, a.err) THEN @ \ {n} ELSE @,
                                !.waitsForDepsCount = IF m \in Waiting(n) \ goesToo THEN @ - 1 ELSE @]]
      /\ removing' = ToRemove({RemoveArgs(d, a.err, a.isLateInitErr, TRUE) : d \in goesToo},
                              ToRemove(Head(removing) \ {a}, Tail(removing)))
  BY DEF Remove
<1> HIDE DEF goesToo
<1>7. removing' = ToRemove(B, ToRemove(Head(removing) \ {a}, Tail(removing)))
  BY <1>5, <1>6
<1>8. B \in SUBSET RemoveCalls
  <2>1. D \subseteq Comp
    BY <1>1, <1>4 DEF GoesToo, RecsTyped
  <2>2. ASSUME NEW d \in D PROVE RemoveArgs(d, a.err, a.isLateInitErr, TRUE) \in RemoveCalls
    BY <1>4, <2>1 DEF RemoveArgs, RemoveCalls
  <2> QED
    BY <2>2
<1>9. /\ Scheduled \ {a} \subseteq Scheduled' /\ B \subseteq Scheduled' /\ Scheduled' \subseteq Scheduled \cup B
  <2>1. PICK C \in SUBSET RemoveCalls : C = B
    BY <1>8
  <2> HIDE DEF B
  <2>2. removing' = ToRemove(C, ToRemove(Head(removing) \ {a}, Tail(removing)))
    BY <1>7, <2>1
  <2>3. Scheduled \ {a} \subseteq Scheduled' /\ C \subseteq Scheduled' /\ Scheduled' \subseteq Scheduled \cup C
    BY <2>2, ScheduledNext
  <2> QED
    BY <2>1, <2>3
<1>10. ASSUME NEW m \in DOMAIN pending \ {n}
       PROVE  /\ pending'[m] \in RecType
              /\ deps(m)' = IF a.err THEN deps(m) \ {n} ELSE deps(m)
              /\ pending'[m].dependents = pending[m].dependents \ {n}
              /\ waits(m)' = IF m \in Waiting(n) \ D THEN waits(m) - 1 ELSE waits(m)
              /\ pending'[m].lcHooks = pending[m].lcHooks
              /\ pending'[m].hasOwnOrTransitiveRunnables = pending[m].hasOwnOrTransitiveRunnables
  <2>1. PICK r \in RecType : r = pending[m]
    BY <1>1 DEF RecsTyped
  <2>2. r.dependents \in SUBSET Comp /\ r.dependsOn \in SUBSET Comp /\ r.waitsForDepsCount \in Nat \cup {waitsForOwnFrames}
    BY DEF RecType
  <2>3. PICK p \in SUBSET Comp : p = r.dependents \ {n}
    BY <2>2
  <2>4. PICK q \in SUBSET Comp : q = IF a.err THEN r.dependsOn \ {n} ELSE r.dependsOn
    BY <2>2
  <2>5. PICK w \in Nat \cup {waitsForOwnFrames} :
            w = IF m \in Waiting(n) \ D THEN r.waitsForDepsCount - 1 ELSE r.waitsForDepsCount
    <3>1. m \in Waiting(n) => r.waitsForDepsCount \in Nat \ {0}
      BY <1>4, <2>1 DEF waits
    <3> HIDE DEF D
    <3>2. CASE m \in Waiting(n) \ D
      <4>1. r.waitsForDepsCount - 1 \in Nat
        BY <3>1, <3>2
      <4> QED
        BY <3>2, <4>1
    <3>3. CASE m \notin Waiting(n) \ D
      BY <2>2, <3>3
    <3> QED
      BY <3>2, <3>3
  <2>6. p = IF m \in pending[n].dependsOn THEN r.dependents \ {n} ELSE r.dependents
    <3>1. n \in r.dependents <=> m \in pending[n].dependsOn
      BY <1>1, <1>2, <2>1 DEF LinksFit, deps
    <3> QED
      BY <2>3, <3>1
  <2>7. q = IF m \in LosesDependency(n, a.err) THEN r.dependsOn \ {n} ELSE r.dependsOn
    <3>1. n \in r.dependsOn <=> m \in pending[n].dependents
      BY <1>1, <1>2, <2>1 DEF LinksFit, deps
    <3> QED
      BY <2>4, <3>1 DEF LosesDependency
  <2>8. pending'[m] = RemovedRec(r, p, q, w)
    <3>1. pending'[m] = [r EXCEPT
                                !.dependents = IF m \in pending[n].dependsOn THEN r.dependents \ {n} ELSE r.dependents,
                                !.dependsOn = IF m \in LosesDependency(n, a.err) THEN r.dependsOn \ {n} ELSE r.dependsOn,
                                !.waitsForDepsCount = IF m \in Waiting(n) \ D THEN r.waitsForDepsCount - 1 ELSE r.waitsForDepsCount]
      BY <1>5, <1>6, <2>1
    <3> QED
      BY <2>5, <2>6, <2>7, <3>1, Zenon DEF RemovedRec
  <2>9. PICK s : s = RemovedRec(r, p, q, w)
    OBVIOUS
  <2>10. /\ s \in RecType /\ s.dependents = p /\ s.dependsOn = q /\ s.waitsForDepsCount = w
         /\ s.lcHooks = r.lcHooks /\ s.hasOwnOrTransitiveRunnables = r.hasOwnOrTransitiveRunnables
    BY <2>9, RemovedRecFields
  <2> HIDE DEF D
  <2> QED
    BY <2>1, <2>3, <2>4, <2>5, <2>8, <2>9, <2>10 DEF deps, waits
<1>11. DOMAIN pending' = DOMAIN pending \ {n}
  BY <1>6
<1>12. RecsTyped'
  BY <1>1, <1>10, <1>11 DEF RecsTyped
<1>13. /\ \A d \in GoesToo(a) : RemoveArgs(d, a.err, a.isLateInitErr, TRUE) \in Scheduled'
       /\ \A c \in Scheduled' : c \in Scheduled
             \/ \E d \in GoesToo(a) : c = RemoveArgs(d, a.err, a.isLateInitErr, TRUE)
  BY <1>9
<1> QED
  BY <1>3, <1>9, <1>10, <1>11, <1>12, <1>13 DEF RemoveEffect

RegEffect(a, n) ==
    /\ \A k \in Comp \ {n} : regState'[k] = regState[k] /\ providedErr'[k] = providedErr[k]
    /\ regState'[n] # "none" /\ (a.err => regState'[n] = "withNoLcHooks")
    /\ providedErr'[n] <=> providedErr[n] \/ (a.err /\ a.report)

LEMMA RemoveRegisters ==
    ASSUME RInv, NEW a, Remove(a), NEW n \in Comp, n = a.node, IsPending(n)
    PROVE  RegEffect(a, n)
<1>1. /\ providedErr \in [Comp -> BOOLEAN] /\ regState \in [Comp -> {"none", "withLcHooks", "withNoLcHooks"}]
  BY DEF RInv, Types
<1>2. SetRegResult(n, a.err /\ a.report, IF a.err THEN {} ELSE pending[n].dependsOn, pending[n].lcHooks,
                   ~a.err /\ HasDirectOrTransitiveRunnables(n))
  BY DEF Remove
<1>3. /\ providedErr' = [providedErr EXCEPT ![n] = @ \/ (a.err /\ a.report)]
      /\ regState' = [regState EXCEPT ![n] =
            IF ~a.err /\ HasDirectOrTransitiveRunnables(n) THEN "withLcHooks" ELSE "withNoLcHooks"]
  BY <1>2 DEF SetRegResult
<1>4. providedErr'[n] <=> providedErr[n] \/ (a.err /\ a.report)
  BY <1>1, <1>3
<1>5. regState'[n] # "none" /\ (a.err => regState'[n] = "withNoLcHooks")
  BY <1>1, <1>3
<1>6. \A k \in Comp \ {n} : regState'[k] = regState[k] /\ providedErr'[k] = providedErr[k]
  BY <1>1, <1>3
<1> QED
  BY <1>4, <1>5, <1>6 DEF RegEffect

\* The removal of a pending component, in a straight run.
RemovalOf(a, n) ==
    /\ RInv /\ Straight /\ Structure /\ Counting
    /\ a \in Scheduled /\ n = a.node /\ n \in DOMAIN pending
    /\ RemoveEffect(a, n) /\ RegEffect(a, n)
    /\ UNCHANGED <<stack, returning, obtained, providingState>>

\* Who is about to be removed afterwards.
LEMMA LeavingNext ==
    ASSUME NEW a, NEW n, RemovalOf(a, n)
    PROVE  /\ \A k \in Leaving \ {n} : k \in Leaving'
           /\ \A k \in Failing \ {n} : k \in Failing'
           /\ \A k \in Leaving' : k # n /\ k \in DOMAIN pending /\ (k \in Leaving \/ k \in GoesToo(a))
           /\ a.err => Leaving' \subseteq Failing' /\ n \in Failing
           /\ ~a.err => Failing' = {} /\ Failing = {}
           /\ \A c \in Scheduled' : c.err = a.err /\ c.isLateInitErr = a.isLateInitErr
           /\ Failing' \subseteq Leaving'
           /\ GoesToo(a) \subseteq Leaving'
<1>1. SchedulesFit /\ a \in Scheduled /\ n = a.node /\ n \in DOMAIN pending
  BY DEF RemovalOf, Structure
<1>2. /\ DOMAIN pending' = DOMAIN pending \ {n}
      /\ Scheduled \ {a} \subseteq Scheduled'
      /\ \A d \in GoesToo(a) : RemoveArgs(d, a.err, a.isLateInitErr, TRUE) \in Scheduled'
      /\ \A c \in Scheduled' : c \in Scheduled
             \/ \E d \in GoesToo(a) : c = RemoveArgs(d, a.err, a.isLateInitErr, TRUE)
  BY DEF RemovalOf, RemoveEffect
<1>3. \A c \in Scheduled' : c.err = a.err /\ c.isLateInitErr = a.isLateInitErr
  BY <1>1, <1>2 DEF SchedulesFit, RemoveArgs
<1>4. \A k \in Leaving \ {n} : k \in Leaving'
  BY <1>1, <1>2 DEF Leaving
<1>5. \A k \in Failing \ {n} : k \in Failing'
  BY <1>1, <1>2 DEF Failing
<1>6. \A k \in Leaving' : k # n /\ k \in DOMAIN pending /\ (k \in Leaving \/ k \in GoesToo(a))
  BY <1>2 DEF Leaving, RemoveArgs
<1>7. a.err => Leaving' \subseteq Failing' /\ n \in Failing
  BY <1>1, <1>3 DEF Leaving, Failing
<1>8. ~a.err => Failing' = {} /\ Failing = {}
  BY <1>1, <1>3 DEF Failing, SchedulesFit
<1>9. GoesToo(a) \subseteq Leaving'
  <2> SUFFICES ASSUME NEW d \in GoesToo(a) PROVE d \in Leaving'
    OBVIOUS
  <2>1. d \in DOMAIN pending' /\ RemoveArgs(d, a.err, a.isLateInitErr, TRUE).node = d
    BY <1>1, <1>2 DEF GoesToo, Waiting, IsPending, RemoveArgs
  <2> QED
    BY <1>2, <2>1 DEF Leaving
<1> QED
  BY <1>3, <1>4, <1>5, <1>6, <1>7, <1>8, <1>9 DEF Leaving, Failing

LEMMA RemovalStructure ==
    ASSUME NEW a, NEW n, RemovalOf(a, n)
    PROVE  Structure'
<1>1. /\ RInv /\ Straight /\ Structure /\ Counting
      /\ a \in Scheduled /\ n = a.node /\ n \in DOMAIN pending
      /\ UNCHANGED <<stack, returning, obtained, providingState>> /\ Top' = Top
  BY DEF RemovalOf, Top
<1>2. /\ n \in Comp /\ Over(n) /\ n \in Leaving /\ ~IsRegistered(n) /\ IsPending(n)
      /\ (a.isLateInitErr => a.err)
      /\ Waiting(n) = {d \in DOMAIN pending \ {n} : n \in deps(d) /\ waits(d) # waitsForOwnFrames}
      /\ a.err /\ ~a.isLateInitErr => Waiting(n) = {}
      /\ \A d \in Waiting(n) : waits(d) \in Nat \ {0}
  BY <1>1, RemovedFacts
<1>3. RecsTyped /\ LinksFit /\ StackFits /\ ObtainedFits /\ ProvidedBelow /\ SchedulesFit
  BY <1>1 DEF Structure
<1>4. /\ RecsTyped' /\ DOMAIN pending' = DOMAIN pending \ {n}
      /\ \A m \in DOMAIN pending \ {n} :
            /\ deps(m)' = IF a.err THEN deps(m) \ {n} ELSE deps(m)
            /\ pending'[m].dependents = pending[m].dependents \ {n}
            /\ waits(m)' = IF m \in Waiting(n) \ GoesToo(a) THEN waits(m) - 1 ELSE waits(m)
      /\ Scheduled \ {a} \subseteq Scheduled'
      /\ \A c \in Scheduled' : c \in Scheduled
             \/ \E d \in GoesToo(a) : c = RemoveArgs(d, a.err, a.isLateInitErr, TRUE)
  BY DEF RemovalOf, RemoveEffect
<1>5. /\ \A k \in Comp \ {n} : regState'[k] = regState[k] /\ providedErr'[k] = providedErr[k]
      /\ regState'[n] # "none" /\ (a.err => regState'[n] = "withNoLcHooks")
      /\ providedErr'[n] <=> providedErr[n] \/ (a.err /\ a.report)
  BY DEF RemovalOf, RegEffect
<1>6. /\ \A k \in Comp : (Known(k)' <=> Known(k)) /\ (IsRegistered(k)' <=> IsRegistered(k) \/ k = n)
      /\ \A k : IsPending(k)' <=> IsPending(k) /\ k # n
  BY <1>2, <1>4, <1>5 DEF Known, IsPending, IsRegistered
<1>7. ASSUME NEW d, IsPending(d), d # n, NEW m \in Comp, Linked(d, m) PROVE Linked(d, m)'
  <2>1. d \in DOMAIN pending \ {n}
    BY <1>7 DEF IsPending
  <2>2. CASE m = n
    <3>1. m \in deps(d)
      BY <1>2, <1>7, <2>2 DEF Linked, IsRegistered
    <3> QED
      BY <1>4, <1>5, <2>1, <2>2, <3>1 DEF Linked
  <2>3. CASE m # n
    BY <1>4, <1>5, <1>7, <2>1, <2>3 DEF Linked
  <2> QED
    BY <2>2, <2>3
<1>8. \A d \in DOMAIN pending : deps(d) \subseteq Comp /\ d \in Comp
  BY <1>3 DEF RecsTyped, RecType, deps
<1>9. LinksFit'
  <2>1. ASSUME NEW m \in DOMAIN pending' PROVE pending'[m].dependents = {d \in DOMAIN pending' : m \in deps(d)'}
    <3>1. m \in DOMAIN pending \ {n} /\ pending[m].dependents = {d \in DOMAIN pending : m \in deps(d)}
      BY <1>3, <1>4 DEF LinksFit
    <3>2. \A d \in DOMAIN pending \ {n} : m \in deps(d)' <=> m \in deps(d)
      BY <1>4, <3>1
    <3> QED
      BY <1>4, <3>1, <3>2
  <2>2. ASSUME NEW d \in DOMAIN pending', NEW m \in deps(d)' PROVE Known(m)'
    <3>1. d \in DOMAIN pending \ {n} /\ m \in deps(d)
      BY <1>4
    <3>2. Known(m) /\ m \in Comp
      BY <1>3, <1>8, <3>1 DEF LinksFit
    <3> QED
      BY <1>6, <3>2
  <2> QED
    BY <2>1, <2>2 DEF LinksFit
<1>10. \A i \in 1 .. Len(stack) : stack[i].kind # "called" => IsPending(stack[i].node) /\ stack[i].node # n
  BY <1>1, <1>2, UserFrames
<1>11. stack \in Seq(Frames)
  BY <1>1 DEF RInv, FInv, Frames
<1>12. \A i \in 1 .. Len(stack) : stack[i].node \in Comp
  <2> SUFFICES ASSUME NEW i \in 1 .. Len(stack) PROVE stack[i].node \in Comp
    OBVIOUS
  <2>1. stack[i] \in Frames
    <3> HIDE DEF Frames
    <3> QED
      BY <1>11
  <2> QED
    BY <2>1 DEF Frames
<1>13. StackFits'
  <2>1. ASSUME NEW i \in 1 .. Len(stack) PROVE Known(stack[i].node)' /\ (stack[i].kind = "lateInit" => i = 1)
    <3>1. PICK k \in Comp : k = stack[i].node /\ k = stack'[i].node
      BY <1>1, <1>12
    <3>2. Known(k)' /\ (stack[i].kind = "lateInit" => i = 1)
      BY <1>3, <1>6, <3>1 DEF StackFits
    <3> QED
      BY <3>1, <3>2
  <2>2. ASSUME NEW i \in 1 .. Len(stack) - 1
        PROVE  stack[i].kind # "called" /\ Linked(stack[i].node, stack[i + 1].node)'
    <3>0. i \in 1 .. Len(stack) /\ i + 1 \in 1 .. Len(stack)
      BY <1>11
    <3>1. PICK d \in Comp, k \in Comp : d = stack[i].node /\ k = stack[i + 1].node
      BY <1>12, <3>0
    <3>2. stack[i].kind # "called" /\ Linked(d, k)
      BY <1>3, <3>1 DEF StackFits
    <3>3. Linked(d, k)'
      BY <1>7, <1>10, <3>0, <3>1, <3>2
    <3>4. d = stack'[i].node /\ k = stack'[i + 1].node
      BY <1>1, <3>1
    <3> QED
      BY <3>2, <3>3, <3>4
  <2>3. ASSUME NEW m \in returning
        PROVE  /\ stack # <<>> /\ Top.kind # "called" /\ Linked(Top.node, m)'
               /\ m \in Comp /\ Known(m)' /\ providingState[m] = "provided"
    <3>1. m \in Comp /\ Known(m) /\ providingState[m] = "provided" /\ Linked(Top.node, m) /\ stack # <<>> /\ Top.kind # "called"
      BY <1>3 DEF StackFits
    <3>2. PICK d : d = Top.node /\ d = Top'.node
      BY <1>1
    <3>3. IsPending(d) /\ d # n
      <4>1. Len(stack) \in 1 .. Len(stack) /\ Top = stack[Len(stack)]
        BY <1>1, <3>1, TopPlace
      <4> QED
        BY <1>10, <3>1, <3>2, <4>1
    <3>4. Linked(d, m)'
      BY <1>7, <3>1, <3>2, <3>3
    <3> QED
      BY <1>6, <3>1, <3>2, <3>4
  <2> QED
    BY <1>1, <2>1, <2>2, <2>3 DEF StackFits
<1>14. ObtainedFits'
  <2> SUFFICES ASSUME NEW d \in Comp, NEW k \in obtained[d]
               PROVE  /\ Known(d)' /\ Known(k)' /\ providingState[k] = "provided"
                      /\ IsPending(d)' => Linked(d, k)'
    BY <1>1, <1>3 DEF ObtainedFits
  <2>1. Known(d) /\ Known(k) /\ providingState[k] = "provided" /\ (IsPending(d) => Linked(d, k)) /\ k \in Comp
    BY <1>3 DEF ObtainedFits
  <2> QED
    BY <1>6, <1>7, <2>1
<1>15. ProvidedBelow'
  <2> SUFFICES ASSUME NEW m \in DOMAIN pending', providingState[m] # "provided", NEW d \in pending'[m].dependents
               PROVE  \E i, j \in 1 .. Len(stack) : i < j /\ stack[i].node = d /\ stack[j].node = m
    BY <1>1 DEF ProvidedBelow
  <2>1. m \in DOMAIN pending /\ d \in pending[m].dependents
    BY <1>4
  <2>2. ProvidedBelow
    BY <1>3
  <2> QED
    BY <2>1, <2>2, Zenon DEF ProvidedBelow
<1>16. /\ \A k \in Leaving \ {n} : k \in Leaving'
       /\ \A k \in Failing \ {n} : k \in Failing'
       /\ \A c \in Scheduled' : c.err = a.err /\ c.isLateInitErr = a.isLateInitErr
  BY LeavingNext
<1>17. SchedulesFit'
  <2>1. ASSUME NEW c \in Scheduled', c.err, ~c.report PROVE providedErr'[c.node]
    <3>1. c \in Scheduled
      BY <1>4, <2>1 DEF RemoveArgs
    <3>2. providedErr[c.node]
      BY <1>3, <2>1, <3>1 DEF SchedulesFit
    <3>3. c.node \in Comp
      <4>1. removing \in Seq(SUBSET CallsOver)
        BY <1>1 DEF RInv
      <4>2. c \in CallsOver
        <5> HIDE DEF CallsOver
        <5> QED
          BY <3>1, <4>1 DEF Scheduled
      <4> QED
        BY <4>2 DEF CallsOver, RemoveCalls
    <3> QED
      BY <1>5, <3>2, <3>3
  <2>2. ASSUME NEW c \in Scheduled', c.err, c.isLateInitErr PROVE stack' = <<>>
    BY <1>1, <1>3, <1>16, <2>2 DEF SchedulesFit
  <2>3. ASSUME NEW c \in Scheduled', c.err, ~c.isLateInitErr, IsPending(c.node)'
        PROVE  /\ \A d \in pending'[c.node].dependents : Unfinished(d)'
               /\ \A d \in Comp : c.node \notin obtained'[d]
    <3>1. a.err /\ ~a.isLateInitErr /\ Waiting(n) = {}
      BY <1>2, <1>16, <2>3
    <3>2. c \in Scheduled
      <4>1. GoesToo(a) = {}
        BY <1>1, <3>1 DEF GoesToo
      <4> QED
        BY <1>4, <4>1
    <3>3. PICK k : k = c.node
      OBVIOUS
    <3>4. k \in DOMAIN pending \ {n} /\ IsPending(k)
      BY <1>6, <2>3, <3>3 DEF IsPending
    <3>5. /\ \A d \in pending[k].dependents : Unfinished(d)
          /\ \A d \in Comp : k \notin obtained[d]
      BY <1>3, <2>3, <3>2, <3>3, <3>4 DEF SchedulesFit
    <3>6. ASSUME NEW d \in pending'[k].dependents PROVE Unfinished(d)'
      <4>1. Unfinished(d) /\ d # n
        BY <1>4, <3>4, <3>5
      <4>2. d \in DOMAIN pending \ {n} /\ waits(d)' = waits(d)
        BY <1>4, <3>1, <4>1 DEF Unfinished, IsPending
      <4> QED
        BY <1>4, <4>1, <4>2 DEF Unfinished, IsPending, waitsForOwnFrames
    <3> QED
      BY <1>1, <3>3, <3>5, <3>6
  <2>4. ASSUME NEW k \in Comp, providedErr'[k] PROVE IsRegistered(k)' \/ k \in Failing'
    <3>1. CASE k = n
      BY <1>6, <3>1
    <3>2. CASE k # n
      <4>1. IsRegistered(k) \/ k \in Failing
        BY <1>3, <1>5, <2>4, <3>2 DEF SchedulesFit
      <4> QED
        BY <1>6, <1>16, <3>2, <4>1
    <3> QED
      BY <3>1, <3>2
  <2>5. ASSUME NEW k \in DOMAIN pending', waits(k)' = 0 PROVE k \in Leaving'
    <3>1. k \in DOMAIN pending \ {n}
      BY <1>4
    <3>2. waits(k) = 0
      <4>1. CASE k \in Waiting(n) \ GoesToo(a)
        <5>1. waits(k) # 1 /\ waits(k) \in Nat \ {0} /\ waits(k)' = waits(k) - 1
          BY <1>1, <1>2, <1>4, <3>1, <4>1 DEF GoesToo
        <5> QED
          BY <2>5, <5>1
      <4>2. CASE k \notin Waiting(n) \ GoesToo(a)
        BY <1>4, <2>5, <3>1, <4>2
      <4> QED
        BY <4>1, <4>2
    <3> QED
      BY <1>3, <1>16, <3>1, <3>2 DEF SchedulesFit
  <2>6. \A c \in Scheduled' : c.isLateInitErr => c.err
    BY <1>2, <1>16
  <2> QED
    BY <1>16, <2>1, <2>2, <2>3, <2>4, <2>5, <2>6 DEF SchedulesFit
<1> QED
  BY <1>4, <1>9, <1>13, <1>14, <1>15, <1>17 DEF Structure

\* A closed set without the removed component, if none of the set is about to fail.
LEMMA RemovalKeepsClosed ==
    ASSUME NEW a, NEW n, RemovalOf(a, n), NEW S \in SUBSET DOMAIN pending, NEW e, Closed(S, e),
           \A k \in S \ {n} : k \notin Failing'
    PROVE  Closed(S \ {n}, e)' /\ S \ {n} \in SUBSET DOMAIN pending'
<1>1. /\ DOMAIN pending' = DOMAIN pending \ {n}
      /\ \A m \in DOMAIN pending \ {n} :
            /\ deps(m)' = IF a.err THEN deps(m) \ {n} ELSE deps(m)
            /\ waits(m)' = IF m \in Waiting(n) \ GoesToo(a) THEN waits(m) - 1 ELSE waits(m)
  BY DEF RemovalOf, RemoveEffect
<1>2. \A d \in Waiting(n) : waits(d) \in Nat \ {0}
  BY RemovedFacts DEF RemovalOf
<1>3. ASSUME NEW k \in S \ {n}
      PROVE  waits(k)' # waitsForOwnFrames /\ k \notin Failing' /\ deps(k)' \cap DOMAIN pending' \subseteq (S \ {n}) \cup e
  <2>1. waits(k) # waitsForOwnFrames /\ deps(k) \cap DOMAIN pending \subseteq S \cup e /\ k \in DOMAIN pending \ {n}
    BY DEF Closed
  <2>2. waits(k)' # waitsForOwnFrames
    <3>1. CASE k \in Waiting(n) \ GoesToo(a)
      <4>1. waits(k)' = waits(k) - 1 /\ waits(k) \in Nat \ {0}
        BY <1>1, <1>2, <2>1, <3>1
      <4> QED
        BY <4>1 DEF waitsForOwnFrames
    <3>2. CASE k \notin Waiting(n) \ GoesToo(a)
      BY <1>1, <2>1, <3>2 DEF waitsForOwnFrames
    <3> QED
      BY <3>1, <3>2
  <2>3. deps(k)' \subseteq deps(k)
    BY <1>1, <2>1
  <2> QED
    BY <1>1, <1>3, <2>1, <2>2, <2>3
<1> QED
  BY <1>1, <1>3 DEF Closed

LEMMA RemovalCovers ==
    ASSUME NEW a, NEW n, RemovalOf(a, n), NEW e \in DOMAIN pending', ~Unfinished(e)'
    PROVE  Covered(e)'
<1>1. /\ DOMAIN pending' = DOMAIN pending \ {n}
      /\ \A m \in DOMAIN pending \ {n} :
            /\ deps(m)' = IF a.err THEN deps(m) \ {n} ELSE deps(m)
            /\ waits(m)' = IF m \in Waiting(n) \ GoesToo(a) THEN waits(m) - 1 ELSE waits(m)
      /\ n = a.node /\ n \in DOMAIN pending /\ RInv /\ Straight /\ Structure /\ Counting /\ a \in Scheduled
  BY DEF RemovalOf, RemoveEffect
<1>2. /\ n \in Leaving
      /\ Waiting(n) = {d \in DOMAIN pending \ {n} : n \in deps(d) /\ waits(d) # waitsForOwnFrames}
  BY <1>1, RemovedFacts
<1>3. e \in DOMAIN pending \ {n} /\ ~Unfinished(e)
  <2>1. CASE e \in Waiting(n)
    BY <1>1, <1>2, <2>1 DEF Unfinished
  <2>2. CASE e \notin Waiting(n)
    BY <1>1, <2>2 DEF Unfinished, IsPending, waitsForOwnFrames
  <2> QED
    BY <2>1, <2>2
<1>4. PICK S \in ClearSets(e) : Cardinality((deps(e) \cap DOMAIN pending) \ (S \cup {e})) <= waits(e)
  BY <1>1, <1>3 DEF Counting, CountsCover, Covered
<1>5. S \in SUBSET DOMAIN pending /\ e \notin S /\ S \cap Leaving = {} /\ Closed(S, {e}) /\ n \notin S /\ S \ {n} = S
  BY <1>2, <1>4 DEF ClearSets
<1>6. \A k \in S : k \notin Leaving'
  <2> SUFFICES ASSUME NEW k \in S, k \in Leaving' PROVE FALSE
    OBVIOUS
  <2>1. k \in GoesToo(a)
    BY <1>5, LeavingNext
  <2>2. n \in deps(k) /\ n \in DOMAIN pending
    BY <1>1, <1>2, <2>1 DEF GoesToo
  <2>3. n \in S \cup {e}
    BY <1>5, <2>2 DEF Closed
  <2> QED
    BY <1>3, <1>5, <2>3
<1>7. \A k \in S : k \notin Failing'
  BY <1>6, LeavingNext
<1>8. Closed(S \ {n}, {e})' /\ S \ {n} \in SUBSET DOMAIN pending'
  BY <1>5, <1>7, RemovalKeepsClosed
<1>9. S \in ClearSets(e)'
  <2>1. Closed(S, {e})'
    BY <1>5, <1>8
  <2> QED
    BY <1>5, <1>6, <1>8, <2>1 DEF ClearSets
<1> DEFINE X == (deps(e) \cap DOMAIN pending) \ (S \cup {e})
           Y == (deps(e)' \cap DOMAIN pending') \ (S \cup {e})
<1>10. Y = X \ {n}
  BY <1>1, <1>3
<1>11. IsFiniteSet(X) /\ waits(e) \in Int
  <2>1. DOMAIN pending \subseteq Comp /\ pending[e] \in RecType
    BY <1>1, <1>3 DEF Structure, RecsTyped
  <2>2. X \subseteq Comp
    BY <2>1
  <2>3. waits(e) \in Int
    BY <2>1 DEF RecType, waits, waitsForOwnFrames
  <2> QED
    BY <2>2, <2>3, CompAssumption, FS_Subset
<1>12. Cardinality(Y) <= waits(e)'
  <2>1. CASE e \in Waiting(n) \ GoesToo(a)
    <3>1. n \in X
      BY <1>1, <1>2, <1>3, <1>5, <2>1
    <3>2. Cardinality(X \ {n}) <= waits(e) - 1
      BY <1>4, <1>11, <3>1, OneFewer
    <3> QED
      BY <1>1, <1>3, <1>10, <2>1, <3>2
  <2>2. CASE e \notin Waiting(n) \ GoesToo(a)
    <3>1. Cardinality(X \ {n}) <= waits(e)
      BY <1>4, <1>11, FewerCover
    <3> QED
      BY <1>1, <1>3, <1>10, <2>2, <3>1
  <2> QED
    BY <2>1, <2>2
<1> QED
  BY <1>9, <1>12 DEF Covered

\* A dependent that waited for the removed component only.
LEMMA FollowersAreFree ==
    ASSUME NEW a, NEW n, RemovalOf(a, n), ~a.err, NEW k \in GoesToo(a)
    PROVE  \E T \in FreeSets' : k \in T
<1>1. n = a.node /\ n \in DOMAIN pending /\ RInv /\ Straight /\ Structure /\ Counting /\ a \in Scheduled
  BY DEF RemovalOf
<1>2. /\ n \in Leaving /\ ~a.isLateInitErr
      /\ Waiting(n) = {d \in DOMAIN pending \ {n} : n \in deps(d) /\ waits(d) # waitsForOwnFrames}
  BY <1>1, RemovedFacts
<1>3. k \in DOMAIN pending \ {n} /\ n \in deps(k) /\ waits(k) = 1 /\ ~Unfinished(k)
  BY <1>1, <1>2 DEF GoesToo, Unfinished
<1>4. PICK S \in ClearSets(k) : Cardinality((deps(k) \cap DOMAIN pending) \ (S \cup {k})) <= waits(k)
  BY <1>1, <1>3 DEF Counting, CountsCover, Covered
<1>5. S \in SUBSET DOMAIN pending /\ k \notin S /\ S \cap Leaving = {} /\ Closed(S, {k}) /\ n \notin S
  BY <1>2, <1>4 DEF ClearSets
<1> DEFINE X == (deps(k) \cap DOMAIN pending) \ (S \cup {k})
<1>6. IsFiniteSet(X)
  <2>1. X \subseteq Comp
    BY <1>1 DEF Structure, RecsTyped
  <2> QED
    BY <2>1, CompAssumption, FS_Subset
<1>7. n \in X
  BY <1>1, <1>3, <1>5
<1>8. X = {n}
  <2>1. PICK x : x = X
    OBVIOUS
  <2>2. IsFiniteSet(x) /\ n \in x /\ Cardinality(x) <= 1
    BY <1>3, <1>4, <1>6, <1>7, <2>1
  <2>3. 1 \in Int
    OBVIOUS
  <2>4. x = {n}
    BY <2>2, <2>3, OneFewer
  <2> QED
    BY <2>1, <2>4
<1>9. Failing = {} /\ Failing' = {}
  BY LeavingNext
<1>10. PICK T : T = S \cup {k}
  OBVIOUS
<1>11. Closed(T, {n})
  BY <1>3, <1>5, <1>8, <1>9, <1>10 DEF Closed, waitsForOwnFrames
<1>12. T \in SUBSET DOMAIN pending /\ T \ {n} = T /\ k \in T
  BY <1>3, <1>5, <1>10
<1>13. PICK N : N = {n}
  OBVIOUS
<1>14. Closed(T, N)' /\ T \in SUBSET DOMAIN pending'
  <2>1. Closed(T \ {n}, N)' /\ T \ {n} \in SUBSET DOMAIN pending'
    BY <1>9, <1>11, <1>12, <1>13, RemovalKeepsClosed
  <2> QED
    BY <1>12, <2>1
<1>15. n \notin DOMAIN pending'
  BY DEF RemovalOf, RemoveEffect
<1>16. Closed(T, {})'
  BY <1>13, <1>14, <1>15 DEF Closed
<1> QED
  BY <1>12, <1>14, <1>16 DEF FreeSets

LEMMA RemovalKeepsFree ==
    ASSUME NEW a, NEW n, RemovalOf(a, n), NEW T \in FreeSets
    PROVE  T \ {n} \in FreeSets'
<1>1. T \in SUBSET DOMAIN pending /\ Closed(T, {})
  BY DEF FreeSets
<1>2. ASSUME NEW k \in T \ {n}, k \in Failing' PROVE FALSE
  <2>1. a.err
    BY <1>2, LeavingNext
  <2>2. n \in Failing /\ k \in Leaving'
    BY <1>2, <2>1, LeavingNext
  <2>3. n \notin T /\ k \notin Failing
    BY <1>1, <1>2, <2>2 DEF Closed
  <2>4. k \in Leaving \/ k \in GoesToo(a)
    BY <2>2, LeavingNext
  <2>5. k \notin Leaving
    <3>1. \A c \in Scheduled : c.err = a.err
      BY DEF RemovalOf, Structure, SchedulesFit
    <3> QED
      BY <2>1, <2>3, <3>1 DEF Leaving, Failing
  <2>6. n \in deps(k) /\ n \in DOMAIN pending
    <3>1. Waiting(n) = {d \in DOMAIN pending \ {n} : n \in deps(d) /\ waits(d) # waitsForOwnFrames} /\ n = a.node
      BY RemovedFacts DEF RemovalOf
    <3> QED
      BY <2>4, <2>5, <3>1 DEF GoesToo, RemovalOf
  <2>7. n \in T
    BY <1>1, <1>2, <2>6 DEF Closed
  <2> QED
    BY <2>3, <2>7
<1>3. PICK e : e = {}
  OBVIOUS
<1>4. Closed(T \ {n}, e)' /\ T \ {n} \in SUBSET DOMAIN pending'
  BY <1>1, <1>2, <1>3, RemovalKeepsClosed
<1> QED
  BY <1>3, <1>4 DEF FreeSets

LEMMA RemovalCounting ==
    ASSUME NEW a, NEW n, RemovalOf(a, n)
    PROVE  Counting'
<1>1. /\ n = a.node /\ n \in DOMAIN pending /\ RInv /\ Straight /\ Structure /\ Counting /\ a \in Scheduled
      /\ obtained' = obtained /\ DOMAIN pending' = DOMAIN pending \ {n}
  BY DEF RemovalOf, RemoveEffect
<1>2. CountsCover'
  BY RemovalCovers DEF CountsCover
<1>3. ASSUME NEW k \in Leaving' \ Failing' PROVE \E S \in FreeSets' : k \in S
  <2>1. ~a.err /\ Failing = {} /\ k # n /\ (k \in Leaving \/ k \in GoesToo(a))
    BY <1>3, LeavingNext
  <2>2. CASE k \in Leaving
    <3>1. PICK T \in FreeSets : k \in T
      BY <1>1, <2>1, <2>2 DEF Counting, LeavingFits
    <3>2. T \ {n} \in FreeSets' /\ k \in T \ {n}
      BY <2>1, <3>1, RemovalKeepsFree
    <3> QED
      BY <3>2
  <2>3. CASE k \in GoesToo(a)
    BY <2>1, <2>3, FollowersAreFree
  <2> QED
    BY <2>1, <2>2, <2>3
<1>4. ASSUME NEW d \in Comp, IsRegistered(d)', ~providedErr'[d]
      PROVE  \E S \in FreeSets' : obtained'[d] \cap DOMAIN pending' \subseteq S
  <2>1. \E T \in FreeSets : obtained[d] \cap DOMAIN pending \subseteq T
    <3>1. CASE d = n
      <4>1. providedErr'[n] <=> providedErr[n] \/ (a.err /\ a.report)
        BY DEF RemovalOf, RegEffect
      <4>2. ~a.err
        BY <1>1, <1>4, <3>1, <4>1 DEF Structure, SchedulesFit
      <4>3. n \in Leaving \ Failing
        BY <1>1, <4>2, LeavingNext, RemovedFacts
      <4>4. PICK T \in FreeSets : n \in T
        BY <1>1, <4>3 DEF Counting, LeavingFits
      <4>5. ASSUME NEW m \in obtained[n], m \in DOMAIN pending PROVE m \in deps(n)
        <5>1. Linked(n, m)
          BY <1>1, <1>4, <3>1 DEF Structure, ObtainedFits, IsPending
        <5>2. m \in Comp /\ ~IsRegistered(m)
          <6>1. m \in Comp
            BY <1>1, <4>5 DEF Structure, RecsTyped
          <6> QED
            BY <1>1, <4>5, <6>1, RegisteredAreOver DEF IsPending
        <5> QED
          BY <5>1, <5>2 DEF Linked, IsRegistered
      <4>6. deps(n) \cap DOMAIN pending \subseteq T
        BY <4>4 DEF FreeSets, Closed
      <4> QED
        BY <3>1, <4>4, <4>5, <4>6
    <3>2. CASE d # n
      <4>1. IsRegistered(d) /\ ~providedErr[d]
        BY <1>4, <3>2 DEF RemovalOf, RegEffect, IsRegistered
      <4> QED
        BY <1>1, <4>1 DEF Counting, RegisteredFits
    <3> QED
      BY <3>1, <3>2
  <2>2. PICK T \in FreeSets : obtained[d] \cap DOMAIN pending \subseteq T
    BY <2>1
  <2>3. T \ {n} \in FreeSets'
    BY RemovalKeepsFree
  <2> QED
    BY <1>1, <2>2, <2>3
<1> QED
  BY <1>2, <1>3, <1>4 DEF Counting, LeavingFits, RegisteredFits

\* A call of remove for a component that has no record any more does nothing.
LEMMA VoidRemovalKeeps ==
    ASSUME RInv, Structure, Counting, removing # <<>>, NEW a \in Head(removing), ~IsPending(a.node),
           removing' = ToRemove(Head(removing) \ {a}, Tail(removing)),
           UNCHANGED <<pending, providedErr, regResult, providingState, stack, returning, obtained>>
    PROVE  Structure' /\ Counting'
<1>1. UNCHANGED <<stack, pending, returning, obtained, providingState, providedErr, regState>> /\ Top' = Top
  BY DEF regResult, Top
<1>2. Scheduled \ {a} \subseteq Scheduled' /\ Scheduled' \subseteq Scheduled
  <2>1. PICK B \in SUBSET RemoveCalls : B = {}
    OBVIOUS
  <2>2. removing' = ToRemove(B, ToRemove(Head(removing) \ {a}, Tail(removing)))
    BY <2>1 DEF ToRemove
  <2>3. Scheduled \ {a} \subseteq Scheduled' /\ Scheduled' \subseteq Scheduled \cup B
    BY <2>2, ScheduledNext
  <2> QED
    BY <2>1, <2>3
<1>3. Leaving' = Leaving /\ Failing' = Failing
  BY <1>1, <1>2 DEF Leaving, Failing, IsPending
<1>4. \A n : (Known(n)' <=> Known(n)) /\ (Unfinished(n)' <=> Unfinished(n))
  BY <1>1 DEF Known, Unfinished, IsPending, IsRegistered, waits
<1>5. \A d, m : Linked(d, m)' <=> Linked(d, m)
  BY <1>1 DEF Linked, deps
<1>6. RecsTyped' /\ LinksFit' /\ StackFits' /\ ObtainedFits' /\ ProvidedBelow'
  BY <1>1, <1>4, <1>5 DEF Structure, RecsTyped, LinksFit, StackFits, ObtainedFits, ProvidedBelow, IsPending, waits, deps
<1>7. SchedulesFit'
  BY <1>1, <1>2, <1>3, <1>4 DEF Structure, SchedulesFit, IsPending, IsRegistered, waits
<1>8. \A S, e : Closed(S, e)' <=> Closed(S, e)
  BY <1>1, <1>3 DEF Closed, waits, deps
<1>9. FreeSets' = FreeSets /\ \A e : ClearSets(e)' = ClearSets(e)
  BY <1>1, <1>3, <1>8 DEF FreeSets, ClearSets
<1>10. \A e : Covered(e)' <=> Covered(e)
  BY <1>1, <1>9 DEF Covered, waits, deps
<1>11. Counting'
  BY <1>1, <1>3, <1>4, <1>9, <1>10 DEF Counting, CountsCover, LeavingFits, RegisteredFits, IsRegistered
<1> QED
  BY <1>6, <1>7, <1>11 DEF Structure

LEMMA RemovePendingStructure ==
    ASSUME RInv, Straight, Structure, Counting, RemovePending
    PROVE  Structure' /\ Counting'
<1>1. PICK a \in Head(removing) : Remove(a)
  BY DEF RemovePending, RemoveNext
<1>2. removing # <<>> /\ UNCHANGED <<providingState, stack, returning, obtained>>
  BY DEF RemovePending, RemoveNext, frames, user
<1>3. PICK n : n = a.node
  OBVIOUS
<1>4. CASE ~IsPending(n)
  <2>1. removing' = ToRemove(Head(removing) \ {a}, Tail(removing)) /\ UNCHANGED <<pending, providedErr, regResult>>
    BY <1>1, <1>3, <1>4 DEF Remove
  <2> QED
    BY <1>2, <1>3, <1>4, <2>1, VoidRemovalKeeps
<1>5. CASE IsPending(n)
  <2>1. RemoveEffect(a, n) /\ a \in Scheduled
    BY <1>1, <1>2, <1>3, <1>5, RemoveHasEffect
  <2>2. n \in Comp /\ n \in DOMAIN pending
    BY <1>5 DEF IsPending, Structure, RecsTyped
  <2>3. RegEffect(a, n)
    BY <1>1, <1>3, <1>5, <2>2, RemoveRegisters
  <2>4. RemovalOf(a, n)
    BY <1>2, <1>3, <2>1, <2>2, <2>3 DEF RemovalOf
  <2> QED
    BY <2>4, RemovalStructure, RemovalCounting
<1> QED
  BY <1>4, <1>5

\* A component is asked for, and its frame pushed.
LEMMA AskedKeeps ==
    ASSUME RInv, RInv', Straight, Straight', Structure, Counting, NEW m \in Comp,
           NEW D \in SUBSET Comp, D = IF stack = <<>> THEN {} ELSE {Top.node},
           stack # <<>> => Top.kind # "called", removing = <<>>, returning = {},
           Add(D, m), PushProviderFrame(m), UNCHANGED <<componentNode, removing, obtained, returning>>
    PROVE  Structure' /\ Counting' /\ Calm
<1>1. /\ Structure' /\ Calm
      /\ \A e \in DOMAIN pending : waits(e)' = waits(e) /\ (Unfinished(e)' <=> Unfinished(e))
  BY AskedStructure
<1>2. removing' = <<>>
  OBVIOUS
<1>3. Leaving' = {}
  <2>1. DOMAIN removing' = {}
    BY <1>2
  <2> QED
    BY <2>1 DEF Leaving, Scheduled
<1>4. UNCHANGED <<providedErr, regState, obtained>>
  BY DEF componentNode, regResult
<1>5. Counting'
  BY <1>1, <1>3, <1>4, SameCounting DEF IsRegistered
<1> QED
  BY <1>1, <1>5

LEMMA EnterChainStructure ==
    ASSUME Inv, RInv, RInv', Straight, Straight', Structure, Counting, NEW g \in Caller, EnterChain(g)
    PROVE  Structure' /\ Counting' /\ Calm
<1>1. stack = <<>> /\ removing = <<>> /\ returning = {}
  BY DEF Inv, EnterChain, OneChainAtATime
<1>2. UNCHANGED <<componentNode, removing, returning, obtained>>
  BY DEF EnterChain, user
<1>3. CASE UNCHANGED <<frames, pending>>
  BY <1>1, <1>2, <1>3, UntouchedKeep DEF Untouched, frames
<1>4. CASE Add({}, asks[g]) /\ PushProviderFrame(asks[g])
  <2>1. PICK m \in Comp : m = asks[g]
    BY DEF RInv, FInv
  <2>2. PICK D \in SUBSET Comp : D = {}
    OBVIOUS
  <2>3. Add(D, m) /\ PushProviderFrame(m) /\ D = (IF stack = <<>> THEN {} ELSE {Top.node})
    BY <1>1, <1>4, <2>1, <2>2
  <2> QED
    BY <1>1, <1>2, <2>3, AskedKeeps
<1> QED
  BY <1>3, <1>4 DEF EnterChain

LEMMA CallStructure ==
    ASSUME RInv, RInv', Straight, Straight', Structure, Counting, NEW m \in Comp, Call(m)
    PROVE  Structure' /\ Counting' /\ Calm
<1>0. PICK x : x = Top.node
  OBVIOUS
<1>1. /\ stack # <<>> /\ Top.kind # "called" /\ removing = <<>> /\ returning = {} /\ x \in Comp
      /\ UNCHANGED <<componentNode, removing, returning>>
  BY <1>0, TopPlace DEF Call, UserCode, Settled
<1>2. CASE regState[m] = "withNoLcHooks" /\ Obtain(x, m) /\ UNCHANGED <<frames, pending>>
  <2>1. Known(m) /\ Linked(Top.node, m) /\ providingState[m] = "provided"
    BY <1>2, RegisteredAreOver DEF Known, Linked, IsRegistered
  <2>2. SameRecs /\ stack' = stack
    BY <1>2 DEF SameRecs, Structure, RecsTyped, deps, waits, frames
  <2>3. obtained' = obtained \/ obtained' = [obtained EXCEPT ![Top.node] = @ \cup {m}]
    BY <1>0, <1>2 DEF Obtain
  <2> QED
    BY <1>1, <2>1, <2>2, <2>3, QuietStructure
<1>3. CASE Add({x}, m) /\ PushProviderFrame(m) /\ UNCHANGED obtained
  <2>1. PICK D \in SUBSET Comp : D = {x}
    BY <1>1
  <2>2. Add(D, m) /\ D = (IF stack = <<>> THEN {} ELSE {Top.node})
    BY <1>0, <1>1, <1>3, <2>1
  <2> QED
    BY <1>1, <1>3, <2>2, AskedKeeps
<1> QED
  BY <1>0, <1>2, <1>3 DEF Call

LEMMA GetterReturnsStructure ==
    ASSUME RInv, Straight, Structure, Counting, GetterReturns
    PROVE  Structure' /\ Counting' /\ Calm
<1>1. PICK m \in returning : Obtain(Top.node, m)
  BY DEF GetterReturns
<1>2. /\ removing = <<>> /\ returning' = {}
      /\ UNCHANGED <<componentNode, frames, pending, removing>>
  BY DEF GetterReturns
<1>3. /\ stack # <<>> /\ Top.kind # "called" /\ Linked(Top.node, m)
      /\ m \in Comp /\ Known(m) /\ providingState[m] = "provided"
  BY <1>1 DEF Structure, StackFits
<1>4. SameRecs /\ stack' = stack
  BY <1>2 DEF SameRecs, Structure, RecsTyped, deps, waits, frames
<1>5. obtained' = obtained \/ obtained' = [obtained EXCEPT ![Top.node] = @ \cup {m}]
  BY <1>1 DEF Obtain
<1> QED
  BY <1>2, <1>3, <1>4, <1>5, QuietStructure

LEMMA UseLifecycleStructure ==
    ASSUME RInv, Straight, Structure, Counting, UseLifecycle
    PROVE  Structure' /\ Counting' /\ Calm
<1>0. PICK x : x = Top.node
  OBVIOUS
<1>1. /\ stack # <<>> /\ Top.kind # "called" /\ removing = <<>>
      /\ UNCHANGED <<componentNode, frames, removing, returning, obtained>>
      /\ AddLifecycleHookBuilder(x)
  BY <1>0 DEF UseLifecycle, UserCode, Settled
<1>2. x \in DOMAIN pending
  BY <1>0, <1>1, TopPlace, UserFrames DEF IsPending
<1>3. SameRecs
  BY <1>1, <1>2, BuilderRecs DEF Structure
<1>4. stack' = stack
  BY <1>1 DEF frames
<1> QED
  BY <1>1, <1>3, <1>4, QuietStructure

-----------------------------------------------------------------------------
(* What is registered without an error leads to nothing unfinished. *)

SInv == Inv /\ AInv /\ (Straight => Structure /\ Counting)

LEMMA StructureInit == Init => Structure /\ Counting
<1> SUFFICES ASSUME Init PROVE Structure /\ Counting
  OBVIOUS
<1>1. /\ pending = [n \in {} |-> Rec(0)] /\ removing = <<>> /\ stack = <<>> /\ returning = {}
      /\ providedErr = [n \in Comp |-> FALSE] /\ regState = [n \in Comp |-> "none"]
      /\ obtained = [n \in Comp |-> {}]
  BY DEF Init, NodeInit, FramesInit, PendingInit
<1>2. DOMAIN pending = {} /\ Len(stack) = 0 /\ \A d \in Comp : obtained[d] = {} /\ ~IsRegistered(d) /\ ~providedErr[d]
  BY <1>1 DEF IsRegistered
<1>3. Scheduled = {} /\ Leaving = {} /\ Failing = {}
  BY <1>1, NothingScheduled
<1>4. obtained \in [Comp -> SUBSET Comp]
  BY <1>1
<1>5. RecsTyped /\ LinksFit /\ ObtainedFits /\ ProvidedBelow /\ SchedulesFit
  BY <1>2, <1>3, <1>4 DEF RecsTyped, LinksFit, ObtainedFits, ProvidedBelow, SchedulesFit
<1>6. StackFits
  BY <1>1, <1>2 DEF StackFits
<1>7. Counting
  BY <1>2, <1>3 DEF Counting, CountsCover, LeavingFits, RegisteredFits
<1> QED
  BY <1>5, <1>6, <1>7 DEF Structure

\* History only grows.
LEMMA StraightBefore == ASSUME [Next]_vars, Straight' PROVE Straight
<1>1. cycled \subseteq cycled' /\ revived \subseteq revived'
  BY DEF Next, vars, user, Ask, EnterChain, EndChain, Call, UseLateInit, UseLifecycle, StartProviding,
     ProviderReturns, ProviderPanics, LateInitReturns, GetterReturns, RemovePending, ExecuteQueuedLateInit,
     AllAnswered
<1> QED
  BY <1>1 DEF Straight

LEMMA StructureNext ==
    ASSUME Inv, RInv, RInv', Straight, Straight', Structure, Counting, [Next]_vars
    PROVE  Structure' /\ Counting'
<1>1. ASSUME NEW g \in Caller, Ask(g, asks[g]) \/ EndChain(g) PROVE Structure' /\ Counting'
  BY <1>1, UntouchedKeep DEF Untouched, Ask, EndChain, frames, user
<1>2. CASE UseLateInit
  BY <1>2, UntouchedKeep DEF Untouched, UseLateInit, LateInitQueuePush
<1>3. CASE UNCHANGED vars
  BY <1>3, UntouchedKeep DEF Untouched, vars, frames, user
<1> QED
  BY <1>1, <1>2, <1>3, EnterChainStructure, CallStructure, UseLifecycleStructure, StartProvidingStructure,
     ProviderEnds, LateInitEnds, EndOfStructure, GetterReturnsStructure, RemovePendingStructure,
     LateInitStartStructure DEF Next, AllAnswered

LEMMA SInvInit == Init => SInv
  BY InitEstablishesInv, AnswersInit, StructureInit DEF SInv

LEMMA SInvNext == SInv /\ [Next]_vars => SInv'
  BY NextKeepsInv, AnswersNext, StraightBefore, StructureNext DEF SInv, AInv

\* What a registered component has obtained, through any number of components that did not
\* fail, is registered, or finished and free of unfinished ones.
LEMMA ReachedAreOver ==
    ASSUME SInv, Straight, NEW d \in Comp, IsRegistered(d), ~providedErr[d],
           NEW m \in Reached({d}, [k \in Comp |-> IF providedErr[k] THEN {} ELSE obtained[k]])
    PROVE  Over(m)
<1>1. RInv /\ Structure /\ Counting
  BY DEF SInv, AInv
<1> DEFINE G == {k \in Comp : IsRegistered(k) \/ \E S \in FreeSets : k \in S}
           next == [k \in Comp |-> IF providedErr[k] THEN {} ELSE obtained[k]]
<1>2. DOMAIN pending \subseteq Comp
  BY <1>1 DEF Structure, RecsTyped
<1>3. ASSUME NEW j \in G PROVE next[j] \subseteq G
  <2> SUFFICES ASSUME ~providedErr[j], NEW k \in obtained[j] PROVE k \in G
    OBVIOUS
  <2>1. k \in Comp /\ Known(k) /\ (IsPending(j) => Linked(j, k))
    BY <1>1 DEF Structure, ObtainedFits
  <2>2. CASE IsRegistered(k)
    BY <2>1, <2>2
  <2>3. CASE IsPending(k) /\ ~IsRegistered(k)
    <3>1. CASE IsRegistered(j)
      <4>1. PICK S \in FreeSets : obtained[j] \cap DOMAIN pending \subseteq S
        BY <1>1, <3>1 DEF Counting, RegisteredFits
      <4> QED
        BY <2>1, <2>3, <4>1 DEF IsPending
    <3>2. CASE ~IsRegistered(j)
      <4>1. PICK S \in FreeSets : j \in S
        BY <3>2
      <4>2. IsPending(j) /\ deps(j) \cap DOMAIN pending \subseteq S
        BY <4>1 DEF FreeSets, Closed, IsPending
      <4>3. k \in deps(j)
        BY <2>1, <2>3, <4>2 DEF Linked, IsRegistered
      <4> QED
        BY <2>1, <2>3, <4>1, <4>2, <4>3 DEF IsPending
    <3> QED
      BY <3>1, <3>2
  <2> QED
    BY <2>1, <2>2, <2>3 DEF Known
<1>4. G \in SUBSET Comp /\ d \in G
  OBVIOUS
<1>5. m \in G
  <2> HIDE DEF G
  <2> QED
    BY <1>3, <1>4 DEF Reached
<1>6. CASE IsRegistered(m)
  BY <1>1, <1>5, <1>6 DEF RInv, OverIfRegistered, Straight
<1>7. CASE \E S \in FreeSets : m \in S
  <2>1. IsPending(m) /\ waits(m) # waitsForOwnFrames
    BY <1>7 DEF FreeSets, Closed, IsPending
  <2> QED
    BY <1>1, <1>5, <2>1 DEF RInv, OverIfRegistered, Straight, waits
<1> QED
  BY <1>5, <1>6, <1>7

\* registry.go:115 and use_late_init.go:14: whatever user code does, in cycles made by late
\* inits too, a component is registered without an error only when nothing is left to run of
\* all that it has obtained, directly or not, unless something was asked for while it was
\* being provided, or after its count had left it behind.
THEOREM NothingIsHalfInitialised == Spec => []NothingHalfInitialised
<1>1. SInv => \A d \in Comp : IsRegistered(d) /\ ~providedErr[d] /\ cycled = {} /\ revived = {} =>
        \A m \in Reached({d}, [k \in Comp |-> IF providedErr[k] THEN {} ELSE obtained[k]]) :
            queuedLateInitsCount[m] = 0 /\ OnStack(m, "provider") = {} /\ OnStack(m, "lateInit") = {}
  <2> SUFFICES ASSUME SInv, NEW d \in Comp, IsRegistered(d), ~providedErr[d], Straight,
                      NEW m \in Reached({d}, [k \in Comp |-> IF providedErr[k] THEN {} ELSE obtained[k]])
               PROVE  queuedLateInitsCount[m] = 0 /\ OnStack(m, "provider") = {} /\ OnStack(m, "lateInit") = {}
    BY DEF Straight
  <2>1. Over(m)
    BY ReachedAreOver
  <2>2. DOMAIN stack = 1 .. Len(stack)
    BY DEF SInv, AInv, RInv, FInv
  <2> QED
    BY <2>1, <2>2 DEF Over, OnStack, InLateInit, Providing, Places
<1>2. Spec => []SInv
  BY SInvInit, SInvNext, PTL DEF Spec
<1> QED
  BY <1>1, <1>2, GettersReturnComplete, PTL DEF NothingHalfInitialised

-----------------------------------------------------------------------------
(* Errors of late inits reach dependents without late inits. *)

\* An unfinished component has a frame left, or is about to fail; who has late inits
\* queued has added some.
EndsFit ==
    /\ lateInitsAdded \in [Comp -> Nat]
    /\ \A n \in Comp : Unfinished(n) => totalFramesCount[n] # 0 \/ n \in Failing
    /\ \A n \in Comp : queuedLateInitsCount[n] # 0 => lateInitsAdded[n] # 0
ErrorsFit ==
    \A d \in Comp : \A m \in obtained[d] :
        providedErr[m] => providedErr[d] \/ lateInitsAdded[d] # 0 \/ d \in Failing

LEMMA EndsInit == Init => EndsFit /\ ErrorsFit
<1> SUFFICES ASSUME Init PROVE EndsFit /\ ErrorsFit
  OBVIOUS
<1>1. /\ pending = [n \in {} |-> Rec(0)] /\ providedErr = [n \in Comp |-> FALSE]
      /\ lateInitsAdded = [n \in Comp |-> 0] /\ obtained = [n \in Comp |-> {}]
      /\ queuedLateInitsCount = [n \in Comp |-> 0]
  BY DEF Init, NodeInit, FramesInit, PendingInit
<1>2. DOMAIN pending = {}
  BY <1>1
<1> QED
  BY <1>1, <1>2 DEF EndsFit, ErrorsFit, Unfinished, IsPending

\* What a step has to respect when no call of remove is left.
LEMMA EndsKept ==
    ASSUME EndsFit, ErrorsFit, removing = <<>>,
           \A n \in Comp : Unfinished(n)' =>
               totalFramesCount'[n] # 0 \/ n \in Failing' \/ (Unfinished(n) /\ totalFramesCount'[n] = totalFramesCount[n]),
           \A n \in Comp : queuedLateInitsCount'[n] # 0 => queuedLateInitsCount[n] # 0 \/ lateInitsAdded'[n] # 0,
           lateInitsAdded' \in [Comp -> Nat],
           \A n \in Comp : lateInitsAdded[n] # 0 => lateInitsAdded'[n] # 0,
           \A d \in Comp : \A m \in obtained'[d] : providedErr'[m] => m \in obtained[d] /\ providedErr[m],
           \A d \in Comp : providedErr[d] => providedErr'[d]
    PROVE  EndsFit' /\ ErrorsFit'
<1>1. Failing = {}
  BY NothingScheduled
<1>2. EndsFit'
  BY <1>1 DEF EndsFit
<1>3. ErrorsFit'
  BY <1>1 DEF ErrorsFit
<1> QED
  BY <1>2, <1>3

LEMMA EndsSame ==
    ASSUME EndsFit, ErrorsFit,
           UNCHANGED <<pending, removing, totalFramesCount, queuedLateInitsCount, lateInitsAdded, obtained, providedErr>>
    PROVE  EndsFit' /\ ErrorsFit'
<1>1. Failing' = Failing /\ \A n : Unfinished(n)' <=> Unfinished(n)
  BY DEF Failing, Scheduled, Unfinished, IsPending, waits
<1> QED
  BY <1>1 DEF EndsFit, ErrorsFit

LEMMA AskedEnds ==
    ASSUME RInv, EndsFit, ErrorsFit, removing = <<>>, NEW m \in Comp, NEW D, AddEffect(D, m), PushProviderFrame(m),
           UNCHANGED <<lateInitsAdded, obtained, providedErr>>
    PROVE  EndsFit' /\ ErrorsFit'
<1>1. totalFramesCount \in [Comp -> Nat] /\ queuedLateInitsCount' = queuedLateInitsCount
      /\ totalFramesCount' = [totalFramesCount EXCEPT ![m] = @ + 1]
  BY DEF RInv, FInv, PushProviderFrame
<1>2. totalFramesCount'[m] # 0 /\ \A n \in Comp \ {m} : totalFramesCount'[n] = totalFramesCount[n]
  BY <1>1
<1>3. ASSUME NEW n \in Comp, Unfinished(n)'
      PROVE  totalFramesCount'[n] # 0 \/ (Unfinished(n) /\ totalFramesCount'[n] = totalFramesCount[n])
  <2>1. CASE n = m
    BY <1>2, <2>1
  <2>2. CASE n # m
    <3>1. n \in DOMAIN pending /\ waits(n)' = waits(n)
      BY <1>3, <2>2 DEF AddEffect, Unfinished, IsPending
    <3> QED
      BY <1>2, <1>3, <2>2, <3>1 DEF Unfinished, IsPending, waitsForOwnFrames
  <2> QED
    BY <2>1, <2>2
<1>4. lateInitsAdded' \in [Comp -> Nat]
  BY DEF EndsFit
<1> QED
  BY <1>1, <1>3, <1>4, EndsKept

LEMMA EnterChainEnds ==
    ASSUME SInv, RInv', Straight, Straight', EndsFit, ErrorsFit, NEW g \in Caller, EnterChain(g)
    PROVE  EndsFit' /\ ErrorsFit'
<1>0. Inv /\ RInv /\ Structure
  BY DEF SInv, AInv
<1>1. stack = <<>> /\ removing = <<>> /\ returning = {}
  BY <1>0 DEF Inv, EnterChain, OneChainAtATime
<1>2. UNCHANGED <<componentNode, removing, returning, obtained, providedErr, lateInitsAdded>>
  BY DEF EnterChain, user, componentNode
<1>3. CASE UNCHANGED <<frames, pending>>
  BY <1>2, <1>3, EndsSame DEF frames, stats
<1>4. CASE Add({}, asks[g]) /\ PushProviderFrame(asks[g])
  <2>1. PICK m \in Comp : m = asks[g]
    BY <1>0 DEF RInv, FInv
  <2>2. PICK D \in SUBSET Comp : D = {}
    OBVIOUS
  <2>3. Add(D, m) /\ PushProviderFrame(m) /\ D = (IF stack = <<>> THEN {} ELSE {Top.node})
    BY <1>1, <1>4, <2>1, <2>2
  <2>4. AddEffect(D, m)
    BY <1>0, <1>1, <1>2, <2>3, AskedStructure
  <2> QED
    BY <1>0, <1>1, <1>2, <2>3, <2>4, AskedEnds
<1> QED
  BY <1>3, <1>4 DEF EnterChain

LEMMA CallEnds ==
    ASSUME SInv, RInv', Straight, Straight', EndsFit, ErrorsFit, NEW m \in Comp, Call(m)
    PROVE  EndsFit' /\ ErrorsFit'
<1>0. RInv /\ Structure
  BY DEF SInv, AInv
<1>1. PICK x : x = Top.node
  OBVIOUS
<1>2. /\ stack # <<>> /\ Top.kind # "called" /\ removing = <<>> /\ returning = {} /\ x \in Comp
      /\ UNCHANGED <<componentNode, removing, returning, providedErr, lateInitsAdded>>
  BY <1>0, <1>1, TopPlace DEF Call, UserCode, Settled, componentNode
<1>3. CASE Obtain(x, m) /\ UNCHANGED <<frames, pending>>
  <2>1. UNCHANGED <<totalFramesCount, queuedLateInitsCount>> /\ \A n : Unfinished(n)' <=> Unfinished(n)
    BY <1>3 DEF frames, stats, Unfinished, IsPending, waits
  <2>2. ASSUME NEW d \in Comp, NEW k \in obtained'[d], providedErr'[k] PROVE k \in obtained[d]
    <3>1. obtained \in [Comp -> SUBSET Comp]
      BY <1>0 DEF Structure, ObtainedFits
    <3>2. CASE providedErr[m]
      BY <1>3, <2>2, <3>2 DEF Obtain
    <3>3. CASE ~providedErr[m]
      <4>1. obtained' = [obtained EXCEPT ![x] = @ \cup {m}] /\ k # m
        BY <1>2, <1>3, <2>2, <3>3 DEF Obtain
      <4> QED
        BY <1>2, <2>2, <3>1, <4>1
    <3> QED
      BY <3>2, <3>3
  <2>3. lateInitsAdded' \in [Comp -> Nat]
    BY <1>2 DEF EndsFit
  <2> QED
    BY <1>2, <2>1, <2>2, <2>3, EndsKept
<1>4. CASE Add({x}, m) /\ PushProviderFrame(m) /\ UNCHANGED obtained
  <2>1. PICK D \in SUBSET Comp : D = {x}
    BY <1>2
  <2>2. Add(D, m) /\ D = (IF stack = <<>> THEN {} ELSE {Top.node})
    BY <1>1, <1>2, <1>4, <2>1
  <2>3. AddEffect(D, m)
    BY <1>0, <1>2, <1>4, <2>2, AskedStructure
  <2> QED
    BY <1>0, <1>2, <1>4, <2>3, AskedEnds
<1> QED
  BY <1>1, <1>3, <1>4 DEF Call

LEMMA GetterReturnsEnds ==
    ASSUME SInv, Straight, EndsFit, ErrorsFit, GetterReturns
    PROVE  EndsFit' /\ ErrorsFit'
<1>0. RInv /\ Structure
  BY DEF SInv, AInv
<1>1. PICK m \in returning : Obtain(Top.node, m)
  BY DEF GetterReturns
<1>2. /\ removing = <<>> /\ UNCHANGED <<frames, pending, providedErr, lateInitsAdded>>
      /\ stack # <<>> /\ m \in Comp /\ Top.node \in Comp
  <2>1. stack # <<>> /\ m \in Comp
    BY <1>0, <1>1 DEF Structure, StackFits
  <2> QED
    BY <1>0, <2>1, TopPlace DEF GetterReturns, componentNode
<1>3. UNCHANGED <<totalFramesCount, queuedLateInitsCount>> /\ \A n : Unfinished(n)' <=> Unfinished(n)
  BY <1>2 DEF frames, stats, Unfinished, IsPending, waits
<1>4. ASSUME NEW d \in Comp, NEW k \in obtained'[d], providedErr'[k] PROVE k \in obtained[d]
  <2>1. obtained \in [Comp -> SUBSET Comp]
    BY <1>0 DEF Structure, ObtainedFits
  <2>2. CASE providedErr[m]
    BY <1>1, <1>4, <2>2 DEF Obtain
  <2>3. CASE ~providedErr[m]
    <3>1. obtained' = [obtained EXCEPT ![Top.node] = @ \cup {m}] /\ k # m
      BY <1>1, <1>2, <1>4, <2>3 DEF Obtain
    <3> QED
      BY <1>2, <1>4, <2>1, <3>1
  <2> QED
    BY <2>2, <2>3
<1>5. lateInitsAdded' \in [Comp -> Nat]
  BY <1>2 DEF EndsFit
<1> QED
  BY <1>2, <1>3, <1>4, <1>5, EndsKept

LEMMA UserEnds ==
    ASSUME SInv, Straight, EndsFit, ErrorsFit, UseLateInit \/ UseLifecycle
    PROVE  EndsFit' /\ ErrorsFit'
<1>0. RInv /\ Structure /\ totalFramesCount \in [Comp -> Nat] /\ queuedLateInitsCount \in [Comp -> Nat]
  BY DEF SInv, AInv, RInv, FInv
<1>1. PICK x : x = Top.node
  OBVIOUS
<1>2. /\ stack # <<>> /\ removing = <<>> /\ Top.kind # "called" /\ UNCHANGED <<obtained, providedErr>>
  BY DEF UseLateInit, UseLifecycle, UserCode, Settled, componentNode
<1>3. x \in Comp /\ x \in DOMAIN pending
  BY <1>0, <1>1, <1>2, TopPlace, UserFrames DEF IsPending
<1>4. CASE UseLateInit
  <2>1. /\ lateInitsAdded' = [lateInitsAdded EXCEPT ![x] = @ + 1]
        /\ totalFramesCount' = [totalFramesCount EXCEPT ![x] = @ + 1]
        /\ queuedLateInitsCount' = [queuedLateInitsCount EXCEPT ![x] = @ + 1]
        /\ pending' = pending
    BY <1>1, <1>4 DEF UseLateInit, LateInitQueuePush
  <2>2. lateInitsAdded \in [Comp -> Nat]
    BY DEF EndsFit
  <2>3. /\ lateInitsAdded' \in [Comp -> Nat] /\ lateInitsAdded'[x] # 0 /\ totalFramesCount'[x] # 0
        /\ \A n \in Comp \ {x} : /\ lateInitsAdded'[n] = lateInitsAdded[n]
                                 /\ totalFramesCount'[n] = totalFramesCount[n]
                                 /\ queuedLateInitsCount'[n] = queuedLateInitsCount[n]
    BY <1>0, <1>3, <2>1, <2>2
  <2>4. \A n : Unfinished(n)' <=> Unfinished(n)
    BY <2>1 DEF Unfinished, IsPending, waits
  <2> QED
    BY <1>2, <2>3, <2>4, EndsKept
<1>5. CASE UseLifecycle
  <2>1. UNCHANGED <<totalFramesCount, queuedLateInitsCount, lateInitsAdded>> /\ AddLifecycleHookBuilder(x)
    BY <1>1, <1>5 DEF UseLifecycle, frames, stats
  <2>2. SameRecs
    BY <1>0, <1>3, <2>1, BuilderRecs DEF Structure
  <2>3. \A n : Unfinished(n)' <=> Unfinished(n)
    BY <2>2 DEF SameRecs, Unfinished, IsPending
  <2>4. lateInitsAdded' \in [Comp -> Nat]
    BY <2>1 DEF EndsFit
  <2> QED
    BY <1>2, <2>1, <2>3, <2>4, EndsKept
<1> QED
  BY <1>4, <1>5

LEMMA EndOfEnds ==
    ASSUME RInv, Structure, EndsFit, ErrorsFit, NEW x, EndOf(x)
    PROVE  EndsFit' /\ ErrorsFit'
<1>1. /\ FrameEnds(x) /\ EndsAlone(x) /\ x \in Comp /\ removing = <<>> /\ x = Top.node
      /\ UNCHANGED <<lateInitsAdded, obtained>>
  BY DEF EndOf, FrameEnds, EndsAlone
<1>2. /\ RecsTyped /\ SchedulesFit /\ ObtainedFits /\ Leaving = {}
  BY <1>1, NothingScheduled DEF Structure
<1>3. NoneZero
  BY <1>2 DEF SchedulesFit, NoneZero
<1>4. /\ DOMAIN pending' = DOMAIN pending /\ \A n \in DOMAIN pending \ {x} : pending'[n] = pending[n]
      /\ Unfinished(x)' => totalFramesCount'[x] # 0 \/ x \in Failing'
      /\ \A n \in Comp : providedErr[n] => providedErr'[n]
      /\ \A d \in Comp : \A m \in obtained[d] : providedErr'[m] => providedErr[m]
  <2>1. CASE Succeeds(x)
    <3>1. CASE UNCHANGED <<pending, removing>> /\ ~PopsLastFrame
      BY <1>1, <2>1, <3>1 DEF Succeeds, PopsLastFrame
    <3>2. CASE UNCHANGED <<pending, removing>> /\ ~IsPending(x)
      BY <2>1, <3>2 DEF Succeeds, Unfinished, IsPending
    <3>3. CASE IsPending(x) /\ OnLastNodeFramePoppedWithNoErr(x)
      <4>1. x \in DOMAIN pending
        BY <3>3 DEF IsPending
      <4>2. PICK w \in WaitsForDeps(x) : /\ SettleRecs(x) /\ waits(x)' = w
                                         /\ \A n \in DOMAIN pending \ {x} : pending'[n] = pending[n]
        BY <1>2, <1>3, <3>3, <4>1, Settles
      <4>3. w \in Nat
        BY <1>2, <1>3, <4>1, WaitsCover
      <4> QED
        BY <2>1, <4>2, <4>3 DEF Succeeds, SettleRecs, Unfinished, waitsForOwnFrames
    <3> QED
      BY <2>1, <3>1, <3>2, <3>3 DEF Succeeds, OnLastNodeFramePoppedWithNoErr
  <2>2. ASSUME NEW li \in BOOLEAN, NEW report \in BOOLEAN, FailsWith(x, li, report)
        PROVE  <1>4!1 /\ <1>4!2 /\ <1>4!3 /\ <1>4!4
    <3>1. pending' = pending /\ removing' = ToRemove({RemoveArgs(x, TRUE, li, report)}, <<>>)
      BY <2>2 DEF FailsWith
    <3>2. x \in DOMAIN pending' => x \in Failing'
      <4>1. PICK A : A = {RemoveArgs(x, TRUE, li, report)}
        OBVIOUS
      <4>2. Failing' = {n \in DOMAIN pending' : \E c \in A : c.node = n /\ c.err}
        BY <3>1, <4>1, OneScheduled
      <4> QED
        BY <4>1, <4>2 DEF RemoveArgs
    <3>3. Unfinished(x)' => x \in Failing'
      BY <3>2 DEF Unfinished, IsPending
    <3>4. \A d \in Comp : \A m \in obtained[d] : providedErr'[m] => providedErr[m]
      BY <1>2, <2>2 DEF FailsWith, ObtainedFits
    <3> QED
      BY <2>2, <3>1, <3>3, <3>4 DEF FailsWith
  <2> QED
    BY <1>1, <2>1, <2>2 DEF EndOf
<1>5. \A n \in Comp : Unfinished(n)' =>
          totalFramesCount'[n] # 0 \/ n \in Failing' \/ (Unfinished(n) /\ totalFramesCount'[n] = totalFramesCount[n])
  BY <1>1, <1>4 DEF Unfinished, IsPending, waits, EndsAlone
<1>6. \A n \in Comp : queuedLateInitsCount'[n] # 0 => queuedLateInitsCount[n] # 0 \/ lateInitsAdded'[n] # 0
  BY <1>1 DEF EndsAlone
<1>7. lateInitsAdded' \in [Comp -> Nat] /\ \A n \in Comp : lateInitsAdded[n] # 0 => lateInitsAdded'[n] # 0
  BY <1>1 DEF EndsFit
<1>8. \A d \in Comp : \A m \in obtained'[d] : providedErr'[m] => m \in obtained[d] /\ providedErr[m]
  BY <1>1, <1>4
<1> QED
  BY <1>1, <1>4, <1>5, <1>6, <1>7, <1>8, EndsKept

LEMMA StartProvidingEnds ==
    ASSUME RInv, Straight, Straight', Structure, EndsFit, ErrorsFit, StartProviding
    PROVE  EndsFit' /\ ErrorsFit'
<1>0. PICK x : x = Top.node
  OBVIOUS
<1>1. \/ UNCHANGED <<providedErr, regResult, lateInitsQueue, stats, pending, removing, returning, user>>
      \/ EndOf(x)
  BY <1>0, StartProvidingSteps
<1>2. CASE UNCHANGED <<providedErr, regResult, lateInitsQueue, stats, pending, removing, returning, user>>
  BY <1>2, EndsSame DEF stats, user
<1> QED
  BY <1>1, <1>2, EndOfEnds

LEMMA LateInitStartEnds ==
    ASSUME RInv, RInv', EndsFit, ErrorsFit, ExecuteQueuedLateInit
    PROVE  EndsFit' /\ ErrorsFit'
<1>1. PICK x : x = items[frontIndex + 1]
  OBVIOUS
<1>2. /\ removing = <<>> /\ queuedLateInitsCount' = [queuedLateInitsCount EXCEPT ![x] = @ - 1]
      /\ UNCHANGED <<componentNode, totalFramesCount, pending, obtained, lateInitsAdded>>
  BY <1>1 DEF ExecuteQueuedLateInit, PushQueuedLateInitFrameToStack, user
<1>3. queuedLateInitsCount \in [Comp -> Nat] /\ queuedLateInitsCount' \in [Comp -> Nat]
  BY DEF RInv, FInv
<1>4. \A n \in Comp : queuedLateInitsCount'[n] # 0 => queuedLateInitsCount[n] # 0
  <2> SUFFICES ASSUME NEW n \in Comp, queuedLateInitsCount[n] = 0 PROVE queuedLateInitsCount'[n] = 0
    OBVIOUS
  <2>1. queuedLateInitsCount'[n] \in Nat
    BY <1>3
  <2>2. CASE n = x
    <3>1. queuedLateInitsCount'[n] = 0 - 1
      BY <1>2, <1>3, <2>2
    <3> QED
      BY <2>1, <3>1
  <2> QED
    BY <1>2, <1>3, <2>2
<1>5. \A n : Unfinished(n)' <=> Unfinished(n)
  BY <1>2 DEF Unfinished, IsPending, waits
<1>6. providedErr' = providedErr /\ lateInitsAdded' \in [Comp -> Nat]
  BY <1>2 DEF componentNode, EndsFit
<1> QED
  BY <1>2, <1>4, <1>5, <1>6, EndsKept

LEMMA RemovalEnds ==
    ASSUME NEW a, NEW n, RemovalOf(a, n), EndsFit, ErrorsFit,
           UNCHANGED <<totalFramesCount, queuedLateInitsCount, lateInitsAdded>>
    PROVE  EndsFit' /\ ErrorsFit'
<1>1. /\ RInv /\ Straight /\ Structure /\ Counting /\ a \in Scheduled /\ n = a.node /\ n \in DOMAIN pending
      /\ RemoveEffect(a, n) /\ RegEffect(a, n) /\ UNCHANGED <<stack, obtained>>
  BY DEF RemovalOf
<1>2. /\ n \in Comp /\ ~IsRegistered(n) /\ IsPending(n) /\ (a.isLateInitErr => a.err)
      /\ Waiting(n) = {d \in DOMAIN pending \ {n} : n \in deps(d) /\ waits(d) # waitsForOwnFrames}
      /\ \A d \in Waiting(n) : waits(d) \in Nat \ {0}
  BY <1>1, RemovedFacts
<1>3. /\ \A k \in Failing \ {n} : k \in Failing'
      /\ a.err => Leaving' \subseteq Failing' /\ n \in Failing
      /\ ~a.err => Failing' = {} /\ Failing = {}
      /\ GoesToo(a) \subseteq Leaving'
  BY LeavingNext
<1>4. EndsFit'
  <2>1. ASSUME NEW k \in Comp, Unfinished(k)' PROVE Unfinished(k) /\ k # n
    <3>1. /\ k \in DOMAIN pending \ {n}
          /\ waits(k)' = IF k \in Waiting(n) \ GoesToo(a) THEN waits(k) - 1 ELSE waits(k)
          /\ waits(k)' = waitsForOwnFrames
      BY <1>1, <2>1 DEF RemoveEffect, Unfinished, IsPending
    <3>2. k \notin Waiting(n) \ GoesToo(a)
      BY <1>2, <3>1 DEF waitsForOwnFrames
    <3> QED
      BY <3>1, <3>2 DEF Unfinished, IsPending
  <2> QED
    BY <1>3, <2>1 DEF EndsFit
<1>5. n \in Failing => providedErr'[n]
  <2>1. n \in Failing => a.err /\ (a.report \/ providedErr[n])
    BY <1>1, <1>3 DEF Structure, SchedulesFit
  <2> QED
    BY <1>1, <2>1 DEF RegEffect
<1>6. ASSUME NEW d \in Comp, NEW m \in obtained[d], providedErr'[m]
      PROVE  providedErr'[d] \/ lateInitsAdded[d] # 0 \/ d \in Failing'
  <2>1. m \in Comp /\ Known(d) /\ (IsPending(d) => Linked(d, m))
    BY <1>1 DEF Structure, ObtainedFits
  <2>2. CASE providedErr[m]
    <3>1. providedErr[d] \/ lateInitsAdded[d] # 0 \/ d \in Failing
      BY <2>2 DEF ErrorsFit
    <3>2. providedErr[d] => providedErr'[d]
      BY <1>1 DEF RegEffect
    <3> QED
      BY <1>3, <1>5, <3>1, <3>2
  <2>3. CASE ~providedErr[m]
    <3>1. m = n /\ a.err /\ a.report /\ n \in Failing
      BY <1>1, <1>2, <1>3, <1>6, <2>1, <2>3 DEF RegEffect
    <3>2. a.isLateInitErr /\ stack = <<>>
      BY <1>1, <1>2, <3>1 DEF Structure, SchedulesFit
    <3>3. CASE d = n
      BY <1>5, <3>1, <3>3
    <3>4. CASE IsRegistered(d) /\ ~providedErr[d]
      <4>1. PICK S \in FreeSets : obtained[d] \cap DOMAIN pending \subseteq S
        BY <1>1, <3>4 DEF Counting, RegisteredFits
      <4>2. n \in S
        BY <1>1, <3>1, <4>1
      <4> QED
        BY <3>1, <4>2 DEF FreeSets, Closed
    <3>5. CASE IsRegistered(d) /\ providedErr[d] /\ d # n
      BY <1>1, <3>5 DEF RegEffect
    <3>6. CASE d # n /\ IsPending(d) /\ ~Unfinished(d)
      <4>1. n \in deps(d) /\ waits(d) # waitsForOwnFrames /\ d \in DOMAIN pending \ {n}
        BY <1>2, <2>1, <3>1, <3>6 DEF Linked, IsRegistered, Unfinished, IsPending
      <4>2. d \in GoesToo(a)
        BY <1>1, <1>2, <3>2, <4>1 DEF GoesToo
      <4> QED
        BY <1>3, <3>1, <4>2
    <3>7. CASE d # n /\ Unfinished(d)
      <4>1. totalFramesCount[d] # 0 \/ d \in Failing
        BY <3>7 DEF EndsFit
      <4>2. totalFramesCount[d] # 0 => queuedLateInitsCount[d] # 0
        <5>1. FramesIn(stack, d) = {}
          BY <3>2 DEF FramesIn
        <5>2. /\ totalFramesCount[d] = Cardinality(FramesIn(stack, d)) + queuedLateInitsCount[d]
              /\ queuedLateInitsCount[d] \in Nat
          BY <1>1, Zenon DEF RInv, FInv, Counted
        <5> QED
          BY <5>1, <5>2, FS_EmptySet
      <4> QED
        BY <1>3, <3>7, <4>1, <4>2 DEF EndsFit
    <3> QED
      BY <2>1, <3>3, <3>4, <3>5, <3>6, <3>7 DEF Known
  <2> QED
    BY <2>2, <2>3
<1>7. ErrorsFit'
  BY <1>1, <1>6 DEF ErrorsFit
<1> QED
  BY <1>4, <1>7

LEMMA RemovePendingEnds ==
    ASSUME RInv, Straight, Structure, Counting, EndsFit, ErrorsFit, RemovePending
    PROVE  EndsFit' /\ ErrorsFit'
<1>1. PICK a \in Head(removing) : Remove(a)
  BY DEF RemovePending, RemoveNext
<1>2. /\ removing # <<>>
      /\ UNCHANGED <<providingState, stack, returning, obtained, totalFramesCount, queuedLateInitsCount, lateInitsAdded>>
  BY DEF RemovePending, RemoveNext, frames, stats, user
<1>3. PICK n : n = a.node
  OBVIOUS
<1>4. CASE ~IsPending(n)
  <2>1. /\ removing' = ToRemove(Head(removing) \ {a}, Tail(removing))
        /\ UNCHANGED <<pending, providedErr, regResult>>
    BY <1>1, <1>3, <1>4 DEF Remove
  <2>2. Scheduled \ {a} \subseteq Scheduled' /\ Scheduled' \subseteq Scheduled
    <3>1. PICK B \in SUBSET RemoveCalls : B = {}
      OBVIOUS
    <3>2. removing' = ToRemove(B, ToRemove(Head(removing) \ {a}, Tail(removing)))
      BY <2>1, <3>1 DEF ToRemove
    <3>3. Scheduled \ {a} \subseteq Scheduled' /\ Scheduled' \subseteq Scheduled \cup B
      BY <1>2, <3>2, ScheduledNext
    <3> QED
      BY <3>1, <3>3
  <2>3. Failing' = Failing /\ \A k : Unfinished(k)' <=> Unfinished(k)
    BY <1>3, <1>4, <2>1, <2>2 DEF Failing, Unfinished, IsPending, waits
  <2> QED
    BY <1>2, <2>1, <2>3 DEF EndsFit, ErrorsFit
<1>5. CASE IsPending(n)
  <2>1. RemoveEffect(a, n) /\ a \in Scheduled
    BY <1>1, <1>2, <1>3, <1>5, RemoveHasEffect
  <2>2. n \in Comp /\ n \in DOMAIN pending
    BY <1>5 DEF IsPending, Structure, RecsTyped
  <2>3. RegEffect(a, n)
    BY <1>1, <1>3, <1>5, <2>2, RemoveRegisters
  <2>4. RemovalOf(a, n)
    BY <1>2, <1>3, <2>1, <2>2, <2>3 DEF RemovalOf
  <2> QED
    BY <1>2, <2>4, RemovalEnds
<1> QED
  BY <1>4, <1>5

EInv == SInv /\ (Straight => EndsFit /\ ErrorsFit)

LEMMA EndsNext ==
    ASSUME SInv, RInv', Straight, Straight', EndsFit, ErrorsFit, [Next]_vars
    PROVE  EndsFit' /\ ErrorsFit'
<1>0. RInv /\ Structure /\ Counting
  BY DEF SInv, AInv
<1>1. ASSUME NEW g \in Caller, Ask(g, asks[g]) \/ EndChain(g) PROVE EndsFit' /\ ErrorsFit'
  BY <1>1, EndsSame DEF Ask, EndChain, frames, stats, user, componentNode
<1>2. CASE UNCHANGED vars
  BY <1>2, EndsSame DEF vars, frames, stats, user, componentNode
<1>3. CASE ProviderReturns \/ ProviderPanics \/ LateInitReturns
  BY <1>0, <1>3, ProviderEnds, LateInitEnds, EndOfEnds
<1>4. CASE UseLateInit \/ UseLifecycle
  BY <1>4, UserEnds
<1>5. CASE StartProviding
  BY <1>0, <1>5, StartProvidingEnds
<1>6. CASE RemovePending
  BY <1>0, <1>6, RemovePendingEnds
<1>7. CASE ExecuteQueuedLateInit
  BY <1>0, <1>7, LateInitStartEnds
<1>8. CASE GetterReturns
  BY <1>8, GetterReturnsEnds
<1> QED
  BY <1>1, <1>2, <1>3, <1>4, <1>5, <1>6, <1>7, <1>8, EnterChainEnds, CallEnds DEF Next, AllAnswered

LEMMA EInvInit == Init => EInv
  BY SInvInit, EndsInit DEF EInv

LEMMA EInvNext == EInv /\ [Next]_vars => EInv'
  BY SInvNext, StraightBefore, EndsNext DEF EInv, SInv, AInv

\* use_late_init.go:40, as far as it holds: whichever late init fails, and whatever other
\* late inits do, in cycles too, a component without late inits of its own that has obtained
\* the failed one fails with it before the chain is over.
THEOREM LateInitErrorsReachThoseWithout == Spec => []LateInitErrorsSpread
<1>1. EInv => LateInitErrorsSpread
  <2> SUFFICES ASSUME EInv, NEW d \in Comp, Usable(d), lateInitsAdded[d] = 0, NEW m \in obtained[d], providedErr[m]
               PROVE  FALSE
    BY DEF LateInitErrorsSpread
  <2>1. Straight /\ removing = <<>> /\ ~providedErr[d]
    BY DEF Usable, Straight, EInv, SInv, Inv, OneChainAtATime
  <2>2. Failing = {} /\ ErrorsFit
    BY <2>1, NothingScheduled DEF EInv
  <2> QED
    BY <2>1, <2>2 DEF ErrorsFit
<1>2. Spec => []EInv
  BY EInvInit, EInvNext, PTL DEF Spec
<1> QED
  BY <1>1, <1>2, PTL

-----------------------------------------------------------------------------
(* Dependencies are what has been obtained. *)

\* No pending component depends on one that was removed with an error.
ErrorsLeave ==
    /\ \A d \in DOMAIN pending : \A m \in deps(d) : providedErr[m] => IsPending(m)
    /\ \A m \in Comp : regState[m] = "withLcHooks" => ~providedErr[m]
ObtainedAreKept ==
    \A d \in Comp : IsRegistered(d) /\ ~providedErr[d] =>
        \A m \in obtained[d] : m \in nodeDependsOn[d] \/ regState[m] = "withNoLcHooks"
\* A dependency has been obtained, or is being provided for, or returned to, the dependent.
AskedBy(d, m) ==
    \/ m \in obtained[d]
    \/ m \in returning /\ Top.node = d
    \/ \E i \in 1 .. Len(stack) - 1 : stack[i].node = d /\ stack[i + 1].node = m
DepsAreObtained ==
    /\ \A d \in DOMAIN pending : \A m \in deps(d) : AskedBy(d, m)
    /\ \A d \in Comp : nodeDependsOn[d] \subseteq obtained[d]
    /\ \A m, k \in returning : m = k
Learned == ErrorsLeave /\ ObtainedAreKept /\ DepsAreObtained

LEMMA LearnedInit == Init => Learned
<1> SUFFICES ASSUME Init PROVE Learned
  OBVIOUS
<1>1. /\ pending = [n \in {} |-> Rec(0)] /\ regState = [n \in Comp |-> "none"] /\ returning = {}
      /\ nodeDependsOn = [n \in Comp |-> {}]
  BY DEF Init, NodeInit, PendingInit
<1>2. DOMAIN pending = {}
  BY <1>1
<1> QED
  BY <1>1, <1>2 DEF Learned, ErrorsLeave, ObtainedAreKept, DepsAreObtained, IsRegistered

\* What is enough, if nothing is registered.
LEMMA LearnedKept ==
    ASSUME Learned, UNCHANGED <<regState, nodeDependsOn>>,
           \A n \in Comp : /\ providedErr[n] => providedErr'[n]
                           /\ providedErr'[n] => providedErr[n] \/ (IsPending(n)' /\ ~IsRegistered(n)),
           \A n \in Comp : IsPending(n) => IsPending(n)',
           \A d \in DOMAIN pending' : \A m \in deps(d)' :
               m \in Comp /\ ((d \in DOMAIN pending /\ m \in deps(d)) \/ ~providedErr[m]),
           \A d \in Comp : /\ obtained[d] \subseteq obtained'[d]
                           /\ IsRegistered(d) /\ ~providedErr[d] => obtained'[d] = obtained[d],
           \A d \in DOMAIN pending' : \A m \in deps(d)' : AskedBy(d, m)',
           \A m, k \in returning' : m = k
    PROVE  Learned'
<1>1. ErrorsLeave'
  BY DEF Learned, ErrorsLeave, IsRegistered
<1>2. ObtainedAreKept'
  BY DEF Learned, ObtainedAreKept, IsRegistered
<1>3. DepsAreObtained'
  BY DEF Learned, DepsAreObtained
<1> QED
  BY <1>1, <1>2, <1>3 DEF Learned

LEMMA LearnedSame ==
    ASSUME Structure, Learned, SameRecs,
           UNCHANGED <<stack, returning, obtained, providedErr, regState, nodeDependsOn>>
    PROVE  Learned'
<1>1. DOMAIN pending' = DOMAIN pending /\ \A d \in DOMAIN pending : deps(d)' = deps(d)
  BY DEF SameRecs
<1>2. \A n : IsPending(n)' <=> IsPending(n)
  BY <1>1 DEF IsPending
<1>3. \A d, m : AskedBy(d, m)' <=> AskedBy(d, m)
  BY DEF AskedBy, Top
<1> QED
  BY <1>1, <1>2, <1>3 DEF Learned, ErrorsLeave, ObtainedAreKept, DepsAreObtained, IsRegistered

\* A getter returns a component, or an error, to user code.
LEMMA ObtainLearned ==
    ASSUME RInv, Straight, Structure, Learned, stack # <<>>, Top.kind # "called", removing = <<>>,
           NEW m \in Comp, Obtain(Top.node, m),
           \/ returning = {} /\ returning' = {}
           \/ m \in returning /\ returning' = {},
           UNCHANGED <<stack, pending, componentNode>>
    PROVE  Learned'
<1>1. PICK x \in Comp : x = Top.node
  BY TopPlace
<1>2. /\ RecsTyped /\ LinksFit /\ SchedulesFit /\ obtained \in [Comp -> SUBSET Comp] /\ Failing = {}
      /\ ~IsRegistered(x) /\ UNCHANGED <<providedErr, regState, nodeDependsOn>>
  BY <1>1, TopPlace, UserFrames, NothingScheduled DEF Structure, ObtainedFits, componentNode, regResult
<1>3. \A d \in Comp : obtained[d] \subseteq obtained'[d] /\ (d # x => obtained'[d] = obtained[d])
  BY <1>1, <1>2 DEF Obtain
<1>4. ~providedErr[m] => m \in obtained'[x]
  BY <1>1, <1>2 DEF Obtain
<1>5. ASSUME NEW d \in DOMAIN pending, NEW k \in deps(d)
      PROVE  k \in Comp /\ AskedBy(d, k)'
  <2>1. d \in Comp /\ k \in Comp /\ AskedBy(d, k)
    BY <1>2, <1>5 DEF RecsTyped, RecType, deps, Learned, DepsAreObtained
  <2>2. CASE k \in returning /\ Top.node = d
    <3>1. k = m /\ d = x
      BY <1>1, <2>2 DEF Learned, DepsAreObtained
    <3>2. CASE providedErr[m]
      <4>1. IsPending(m)
        BY <1>5, <3>1, <3>2 DEF Learned, ErrorsLeave
      <4> QED
        BY <1>2, <3>2, <4>1, RegisteredAreOver DEF SchedulesFit
    <3> QED
      BY <1>4, <3>1, <3>2 DEF AskedBy
  <2> QED
    BY <1>3, <2>1, <2>2 DEF AskedBy
<1>6. \A d \in DOMAIN pending' : \A k \in deps(d)' :
          k \in Comp /\ d \in DOMAIN pending /\ k \in deps(d) /\ AskedBy(d, k)'
  BY <1>5 DEF deps
<1>7. \A n : IsPending(n)' <=> IsPending(n)
  BY DEF IsPending
<1>8. \A d \in Comp : /\ obtained[d] \subseteq obtained'[d]
                      /\ IsRegistered(d) /\ ~providedErr[d] => obtained'[d] = obtained[d]
  BY <1>2, <1>3
<1> QED
  BY <1>2, <1>6, <1>7, <1>8, LearnedKept

\* A component is asked for, and its frame pushed.
LEMMA AskedLearned ==
    ASSUME RInv, Straight, Structure, Learned, NEW m \in Comp,
           NEW D \in SUBSET Comp, D = IF stack = <<>> THEN {} ELSE {Top.node},
           removing = <<>>, returning = {}, Add(D, m), AddEffect(D, m), PushProviderFrame(m),
           UNCHANGED <<componentNode, obtained, returning>>
    PROVE  Learned'
<1>1. /\ RecsTyped /\ RecsTyped' /\ SchedulesFit /\ Failing = {} /\ stack \in Seq(Frames)
      /\ UNCHANGED <<providedErr, regState, nodeDependsOn>>
  BY NothingScheduled DEF Structure, AddEffect, RInv, FInv, Frames, componentNode, regResult
<1>2. ~providedErr[m]
  <2>1. regState[m] # "withNoLcHooks"
    BY DEF Add
  <2>2. providedErr[m] => IsRegistered(m)
    BY <1>1 DEF SchedulesFit
  <2>3. regState[m] \in {"none", "withLcHooks", "withNoLcHooks"}
    BY DEF RInv, Types
  <2> QED
    BY <2>1, <2>2, <2>3 DEF Learned, ErrorsLeave, IsRegistered
<1>3. PICK f \in Frames : f = Frame(m, "called")
  BY DEF Frames, Frame, FrameKinds
<1>4. /\ Len(stack) \in Nat /\ Len(stack') = Len(stack) + 1 /\ stack'[Len(stack) + 1].node = m
      /\ \A i \in 1 .. Len(stack) : stack'[i] = stack[i]
  <2>1. stack' = Append(stack, f)
    BY <1>3 DEF PushProviderFrame
  <2>2. f.node = m
    BY <1>3 DEF Frame
  <2> QED
    BY <1>1, <2>1, <2>2, StackGrows
<1>5. \A d, k : AskedBy(d, k) => AskedBy(d, k)'
  <2>1. \A i \in 1 .. Len(stack) - 1 : i \in 1 .. Len(stack') - 1 /\ stack'[i] = stack[i] /\ stack'[i + 1] = stack[i + 1]
    BY <1>4
  <2> QED
    BY <2>1 DEF AskedBy
<1>6. ASSUME NEW x \in D PROVE AskedBy(x, m)'
  <2>1. stack # <<>> /\ x = Top.node
    OBVIOUS
  <2>2. PICK i : i = Len(stack)
    OBVIOUS
  <2>3. i \in 1 .. Len(stack') - 1 /\ stack'[i] = Top /\ stack'[i + 1].node = m
    BY <1>4, <2>1, <2>2, TopPlace
  <2>4. stack'[i].node = x
    BY <2>1, <2>3
  <2> QED
    BY <2>3, <2>4 DEF AskedBy
<1>7. \A d \in DOMAIN pending' : \A k \in deps(d)' : (d \in DOMAIN pending /\ k \in deps(d)) \/ (k = m /\ d \in D)
  <2> SUFFICES ASSUME NEW d \in DOMAIN pending', NEW k \in deps(d)'
               PROVE  (d \in DOMAIN pending /\ k \in deps(d)) \/ (k = m /\ d \in D)
    OBVIOUS
  <2>1. CASE d \in DOMAIN pending
    BY <2>1 DEF AddEffect
  <2>2. CASE d \notin DOMAIN pending
    BY <2>2 DEF AddEffect
  <2> QED
    BY <2>1, <2>2
<1>8. \A d \in DOMAIN pending' : \A k \in deps(d)' :
          /\ k \in Comp /\ ((d \in DOMAIN pending /\ k \in deps(d)) \/ ~providedErr[k])
          /\ AskedBy(d, k)'
  <2>1. \A d \in DOMAIN pending' : deps(d)' \subseteq Comp
    BY <1>1 DEF RecsTyped, RecType, deps
  <2> QED
    BY <1>2, <1>5, <1>6, <1>7, <2>1 DEF Learned, DepsAreObtained
<1>9. \A n : IsPending(n) => IsPending(n)'
  BY DEF AddEffect, IsPending
<1> QED
  BY <1>1, <1>8, <1>9, LearnedKept

LEMMA EndOfLearned ==
    ASSUME RInv, Straight, Structure, Counting, Learned, NEW x, EndOf(x)
    PROVE  Learned'
<1>1. /\ FrameEnds(x) /\ EndsAlone(x) /\ x \in Comp /\ removing = <<>> /\ x = Top.node /\ stack # <<>>
      /\ stack' = Below /\ returning = {} /\ UNCHANGED <<obtained, regState, nodeDependsOn>>
  BY DEF EndOf, FrameEnds, EndsAlone
<1>2. RecsTyped /\ SchedulesFit /\ Leaving = {} /\ stack \in Seq(Frames)
  BY <1>1, NothingScheduled DEF Structure, RInv, FInv, Frames
<1>3. NoneZero
  BY <1>2 DEF SchedulesFit, NoneZero
<1>4. DOMAIN pending' = DOMAIN pending /\ \A d \in DOMAIN pending : deps(d)' = deps(d)
  <2>1. CASE Succeeds(x)
    <3>1. CASE UNCHANGED pending
      BY <3>1 DEF deps
    <3>2. CASE IsPending(x) /\ OnLastNodeFramePoppedWithNoErr(x)
      <4>1. x \in DOMAIN pending
        BY <3>2 DEF IsPending
      <4>2. SettleRecs(x)
        BY <1>2, <1>3, <3>2, <4>1, Settles
      <4> QED
        BY <4>2 DEF SettleRecs
    <3> QED
      BY <2>1, <3>1, <3>2 DEF Succeeds, OnLastNodeFramePoppedWithNoErr
  <2>2. CASE \E li, report \in BOOLEAN : FailsWith(x, li, report)
    BY <2>2 DEF FailsWith, deps
  <2> QED
    BY <2>1, <2>2 DEF EndOf
<1>5. \A n : IsPending(n)' <=> IsPending(n)
  BY <1>4 DEF IsPending
<1>6. \A n \in Comp : /\ providedErr[n] => providedErr'[n]
                      /\ providedErr'[n] => providedErr[n] \/ (IsPending(n)' /\ ~IsRegistered(n))
  BY <1>5, RegisteredAreOver DEF EndOf, Succeeds, FailsWith
<1>7. /\ Len(stack) \in Nat \ {0} /\ Len(stack') = Len(stack) - 1 /\ Top = stack[Len(stack)]
      /\ \A i \in 1 .. Len(stack) - 1 : stack'[i] = stack[i]
      /\ stack' # <<>> => Len(stack) - 1 \in 1 .. Len(stack) - 1 /\ Top' = stack[Len(stack) - 1]
  BY <1>1, <1>2, StackShrinks, TopPlace
<1>8. ASSUME NEW d \in DOMAIN pending, NEW m \in deps(d) PROVE m \in Comp /\ AskedBy(d, m)'
  <2>1. m \in Comp /\ AskedBy(d, m)
    BY <1>2, <1>8 DEF RecsTyped, RecType, deps, Learned, DepsAreObtained
  <2>2. CASE m \in obtained[d]
    BY <1>1, <2>1, <2>2 DEF AskedBy
  <2>3. ASSUME NEW i \in 1 .. Len(stack) - 1, stack[i].node = d, stack[i + 1].node = m PROVE AskedBy(d, m)'
    <3>1. CASE i < Len(stack) - 1
      <4>1. i \in 1 .. Len(stack') - 1 /\ i + 1 \in 1 .. Len(stack) - 1
        BY <1>7, <2>3, <3>1
      <4>2. stack'[i].node = d /\ stack'[i + 1].node = m
        BY <1>7, <2>3, <4>1
      <4> QED
        BY <4>1, <4>2 DEF AskedBy
    <3>2. CASE i = Len(stack) - 1
      <4>1. i \in Nat /\ i >= 1 /\ Len(stack') >= 1 /\ Len(stack) = i + 1
        BY <1>7, <2>3, <3>2
      <4>2. stack' # <<>>
        BY <4>1
      <4>3. Top' = stack[i]
        BY <1>7, <3>2, <4>2
      <4>4. Top'.node = d /\ m = x
        BY <1>1, <1>7, <2>3, <4>1, <4>3
      <4>5. returning' = {x}
        BY <1>1, <4>2 DEF EndsAlone
      <4> QED
        BY <4>4, <4>5 DEF AskedBy
    <3> QED
      BY <1>7, <2>3, <3>1, <3>2
  <2> QED
    BY <1>1, <2>1, <2>2, <2>3 DEF AskedBy
<1>9. \A d \in DOMAIN pending' : \A m \in deps(d)' :
          m \in Comp /\ d \in DOMAIN pending /\ m \in deps(d) /\ AskedBy(d, m)'
  BY <1>4, <1>8
<1>10. \A m, k \in returning' : m = k
  BY <1>1 DEF FrameEnds
<1> QED
  BY <1>1, <1>5, <1>6, <1>9, <1>10, LearnedKept

\* The frame on top of the stack is replaced, or the first one pushed.
LEMMA StartLearned ==
    ASSUME RInv, RInv', Straight, Straight', Structure, Counting, Learned, StartProviding \/ ExecuteQueuedLateInit
    PROVE  Learned'
<1>1. ASSUME \A d, m : AskedBy(d, m) => AskedBy(d, m)',
             UNCHANGED <<pending, obtained, providedErr, regState, nodeDependsOn>>, returning = {}, returning' = {}
      PROVE  Learned'
  BY <1>1 DEF Learned, ErrorsLeave, ObtainedAreKept, DepsAreObtained, IsRegistered, IsPending, deps
<1>2. CASE StartProviding
  <2>1. PICK x : x = Top.node
    OBVIOUS
  <2>2. /\ stack # <<>> /\ returning = {} /\ x \in Comp
        /\ \/ /\ stack' = Append(Below, Frame(x, "provider"))
              /\ UNCHANGED <<providedErr, regResult, pending, returning, user>>
           \/ EndOf(x)
    BY <1>2, <2>1, StartProvidingSteps
  <2>3. CASE /\ stack' = Append(Below, Frame(x, "provider"))
             /\ UNCHANGED <<providedErr, regResult, pending, returning, user>>
    <3>1. PICK f \in Frames : f = Frame(x, "provider")
      BY <2>2 DEF Frames, Frame, FrameKinds
    <3>2. f.node = x
      BY <3>1 DEF Frame
    <3>3. /\ Len(stack) \in Nat \ {0} /\ Top = stack[Len(stack)] /\ stack \in Seq(Frames)
      BY <2>2, TopPlace
    <3>4. /\ Below \in Seq(Frames) /\ Len(Below) = Len(stack) - 1
          /\ \A i \in 1 .. Len(stack) - 1 : Below[i] = stack[i]
      BY <2>2, <3>3, LastAndFront DEF Below
    <3>5. /\ Len(stack') = Len(stack) /\ stack'[Len(stack)] = f
          /\ \A i \in 1 .. Len(stack) - 1 : stack'[i] = stack[i]
      BY <2>3, <3>1, <3>3, <3>4
    <3>6. \A i \in 1 .. Len(stack) : stack'[i].node = stack[i].node
      <4> SUFFICES ASSUME NEW i \in 1 .. Len(stack) PROVE stack'[i].node = stack[i].node
        OBVIOUS
      <4>1. CASE i = Len(stack)
        BY <2>1, <3>2, <3>3, <3>5, <4>1
      <4>2. CASE i # Len(stack)
        <5>1. i \in 1 .. Len(stack) - 1
          BY <3>3, <4>2
        <5> QED
          BY <3>5, <5>1
      <4> QED
        BY <4>1, <4>2
    <3>7. \A i \in 1 .. Len(stack) - 1 : i \in 1 .. Len(stack) /\ i + 1 \in 1 .. Len(stack)
      BY <3>3
    <3>8. \A d, m : AskedBy(d, m) => AskedBy(d, m)'
      BY <2>2, <2>3, <3>5, <3>6, <3>7 DEF AskedBy, user
    <3> QED
      BY <1>1, <2>2, <2>3, <3>8 DEF user, regResult
  <2> QED
    BY <2>2, <2>3, EndOfLearned
<1>3. CASE ExecuteQueuedLateInit
  <2>1. stack = <<>> /\ UNCHANGED <<componentNode, pending, returning, user>>
    BY <1>3 DEF ExecuteQueuedLateInit
  <2>2. returning = {} /\ Len(stack) = 0
    BY <2>1 DEF Structure, StackFits
  <2>3. \A d, m : AskedBy(d, m) => AskedBy(d, m)'
    BY <2>1, <2>2 DEF AskedBy, user
  <2> QED
    BY <1>1, <2>1, <2>2, <2>3 DEF componentNode, regResult, user
<1> QED
  BY <1>2, <1>3

\* What registration tells a component.
RegDetails(a, n) ==
    /\ nodeDependsOn' = [nodeDependsOn EXCEPT ![n] = IF a.err THEN {} ELSE deps(n)]
    /\ nodeHasHooks' = [nodeHasHooks EXCEPT ![n] = pending[n].lcHooks]
    /\ regState'[n] = IF ~a.err /\ HasDirectOrTransitiveRunnables(n) THEN "withLcHooks" ELSE "withNoLcHooks"

LEMMA RemoveDetails ==
    ASSUME RInv, NEW a, Remove(a), NEW n \in Comp, n = a.node, IsPending(n)
    PROVE  RegDetails(a, n)
<1>1. regState = [k \in Comp |-> regState[k]]
  BY DEF RInv, Types
<1> QED
  BY <1>1 DEF Remove, SetRegResult, RegDetails, deps

LEMMA RemovalLearned ==
    ASSUME NEW a, NEW n, RemovalOf(a, n), RegDetails(a, n), Learned
    PROVE  Learned'
<1>1. /\ RInv /\ Straight /\ Structure /\ Counting /\ a \in Scheduled /\ n = a.node /\ n \in DOMAIN pending
      /\ RemoveEffect(a, n) /\ RegEffect(a, n) /\ UNCHANGED <<stack, returning, obtained>>
  BY DEF RemovalOf
<1>2. n \in Comp /\ ~IsRegistered(n) /\ IsPending(n) /\ Over(n)
  BY <1>1, RemovedFacts
<1>3. (a.err => n \in Failing) /\ (~a.err => Failing = {})
  BY LeavingNext
<1>4. a.err => providedErr'[n]
  <2>1. a.err => (a.report \/ providedErr[n])
    BY <1>1 DEF Structure, SchedulesFit
  <2> QED
    BY <1>1, <2>1 DEF RegEffect
<1>5. ~a.err => ~providedErr[n] /\ ~providedErr'[n]
  BY <1>1, <1>2, <1>3 DEF RegEffect, Structure, SchedulesFit
<1>6. nodeDependsOn'[n] = (IF a.err THEN {} ELSE deps(n)) /\ \A d \in Comp \ {n} : nodeDependsOn'[d] = nodeDependsOn[d]
  <2>1. nodeDependsOn = [d \in Comp |-> nodeDependsOn[d]]
    BY <1>1 DEF RInv, Types
  <2> QED
    BY <1>2, <2>1 DEF RegDetails
<1>7. ASSUME NEW d \in DOMAIN pending', NEW m \in deps(d)'
      PROVE  m \in Comp /\ m \in deps(d) /\ d \in DOMAIN pending /\ d # n /\ (a.err => m # n)
  <2>1. d \in DOMAIN pending \ {n} /\ deps(d)' = IF a.err THEN deps(d) \ {n} ELSE deps(d)
    BY <1>1 DEF RemoveEffect
  <2> QED
    BY <1>1, <1>7, <2>1 DEF Structure, RecsTyped, RecType, deps
<1>8. ErrorsLeave'
  <2>1. ASSUME NEW d \in DOMAIN pending', NEW m \in deps(d)', providedErr'[m] PROVE IsPending(m)'
    <3>1. m \in Comp /\ m \in deps(d) /\ d \in DOMAIN pending /\ m # n
      BY <1>5, <1>7, <2>1
    <3>2. IsPending(m)
      BY <1>1, <2>1, <3>1 DEF RegEffect, Learned, ErrorsLeave
    <3> QED
      BY <1>1, <3>1, <3>2 DEF RemoveEffect, IsPending
  <2>2. ASSUME NEW m \in Comp, regState'[m] = "withLcHooks" PROVE ~providedErr'[m]
    <3>1. CASE m = n
      BY <1>1, <1>5, <2>2, <3>1 DEF RegEffect
    <3>2. CASE m # n
      BY <1>1, <2>2, <3>2 DEF RegEffect, Learned, ErrorsLeave
    <3> QED
      BY <3>1, <3>2
  <2> QED
    BY <2>1, <2>2 DEF ErrorsLeave
<1>9. ObtainedAreKept'
  <2> SUFFICES ASSUME NEW d \in Comp, regState'[d] # "none", ~providedErr'[d], NEW m \in obtained[d]
               PROVE  m \in nodeDependsOn'[d] \/ regState'[m] = "withNoLcHooks"
    BY <1>1 DEF ObtainedAreKept, IsRegistered
  <2>1. m \in Comp /\ (IsPending(d) => Linked(d, m))
    BY <1>1 DEF Structure, ObtainedFits
  <2>2. regState[m] = "withNoLcHooks" => regState'[m] = "withNoLcHooks"
    BY <1>1, <1>2, <2>1 DEF RegEffect, IsRegistered
  <2>3. CASE d = n
    BY <1>2, <1>4, <1>6, <2>1, <2>2, <2>3 DEF Linked
  <2>4. CASE d # n
    BY <1>1, <1>6, <2>2, <2>4 DEF RegEffect, Learned, ObtainedAreKept, IsRegistered
  <2> QED
    BY <2>3, <2>4
<1>10. DepsAreObtained'
  <2>1. \A d, m : AskedBy(d, m)' <=> AskedBy(d, m)
    BY <1>1 DEF AskedBy, Top
  <2>2. deps(n) \subseteq obtained[n]
    <3> SUFFICES ASSUME NEW m \in deps(n), m \notin obtained[n] PROVE FALSE
      OBVIOUS
    <3>1. AskedBy(n, m)
      BY <1>1 DEF Learned, DepsAreObtained
    <3>2. CASE m \in returning /\ Top.node = n
      <4>1. stack # <<>> /\ Top.kind # "called"
        BY <1>1, <3>2 DEF Structure, StackFits
      <4> QED
        BY <1>1, <1>2, <3>2, <4>1, TopPlace, UserFrames
    <3>3. ASSUME NEW i \in 1 .. Len(stack) - 1, stack[i].node = n PROVE FALSE
      <4>1. stack[i].kind # "called"
        BY <1>1, <3>3 DEF Structure, StackFits
      <4>2. i \in 1 .. Len(stack)
        <5>1. stack \in Seq(Frames)
          BY <1>1 DEF RInv, FInv, Frames
        <5> QED
          BY <5>1
      <4> QED
        BY <1>1, <1>2, <3>3, <4>1, <4>2, UserFrames
    <3> QED
      BY <3>1, <3>2, <3>3 DEF AskedBy
  <2>3. \A d \in Comp : nodeDependsOn'[d] \subseteq obtained[d]
    BY <1>6, <2>2 DEF Learned, DepsAreObtained
  <2> QED
    BY <1>1, <1>7, <2>1, <2>3 DEF Learned, DepsAreObtained
<1> QED
  BY <1>8, <1>9, <1>10 DEF Learned

-----------------------------------------------------------------------------
(* Who is registered with hooks. *)

HasHooks(k) == pending[k].lcHooks \/ pending[k].hasOwnOrTransitiveRunnables
OwnHooks ==
    \A d \in DOMAIN pending : pending[d].hasOwnOrTransitiveRunnables =>
        pending[d].lcHooks \/ \E m \in deps(d) : regState[m] = "withLcHooks"
\* Sets that lead to no hooks; components that lead to some, and to nothing unfinished.
Plain(S) ==
    \A k \in S : IF IsPending(k) THEN ~HasHooks(k) /\ deps(k) \subseteq S ELSE regState[k] # "withLcHooks"
Hooking(m) ==
    \/ regState[m] = "withLcHooks"
    \/ /\ \E T \in FreeSets : m \in T
       /\ \A S \in SUBSET Comp : m \in S => ~Plain(S)
FreeOfHooks(D) == \E S \in SUBSET Comp : D \subseteq S /\ Plain(S) /\ S \cap DOMAIN pending \in FreeSets
HooksFit ==
    \A d \in Comp : IsRegistered(d) /\ ~providedErr[d] =>
        IF regState[d] = "withLcHooks"
        THEN nodeHasHooks[d] \/ \E m \in nodeDependsOn[d] : Hooking(m)
        ELSE ~nodeHasHooks[d] /\ FreeOfHooks(nodeDependsOn[d])
HooksFound == nodeHasHooks \in [Comp -> BOOLEAN] /\ OwnHooks /\ HooksFit

\* The records of components that lead to nothing unfinished keep their hooks.
FreeKeepHooks == \A T \in FreeSets : \A k \in T : HasHooks(k)' <=> HasHooks(k)

LEMMA CalmHooking ==
    ASSUME RInv, Straight, Structure, Calm, FreeKeepHooks, regState' = regState, NEW m \in Comp, Hooking(m)
    PROVE  Hooking(m)'
<1>1. LinksFit /\ RecsTyped
  BY DEF Structure
<1>2. CASE regState[m] = "withLcHooks"
  BY <1>2 DEF Hooking
<1>3. CASE regState[m] # "withLcHooks"
  <2>1. PICK T \in FreeSets : m \in T
    BY <1>3 DEF Hooking
  <2>2. T \in SUBSET DOMAIN pending /\ Closed(T, {})
    BY <2>1 DEF FreeSets
  <2>3. T \in FreeSets'
    <3>1. PICK e : e = {}
      OBVIOUS
    <3>2. Closed(T, e)
      BY <2>2, <3>1
    <3>3. Closed(T, e)' /\ T \in SUBSET DOMAIN pending'
      BY <1>1, <2>2, <3>2, CalmKeepsClosed
    <3> QED
      BY <3>1, <3>3 DEF FreeSets
  <2>4. ASSUME NEW S \in SUBSET Comp, m \in S, Plain(S)' PROVE FALSE
    <3>1. PICK W \in SUBSET Comp : W = {k \in S : k \in T \/ IsRegistered(k)}
      OBVIOUS
    <3>2. ASSUME NEW k \in W, IsPending(k) PROVE ~HasHooks(k) /\ deps(k) \subseteq W
      <4>1. k \in T /\ k \in S
        BY <3>1, <3>2, RegisteredAreOver
      <4>2. IsPending(k)' /\ deps(k)' = deps(k) /\ ~Unfinished(k)
        BY <2>2, <4>1 DEF Closed, Calm, Unfinished, IsPending
      <4>3. ~HasHooks(k) /\ deps(k) \subseteq S
        BY <2>1, <2>4, <4>1, <4>2 DEF Plain, FreeKeepHooks
      <4>4. \A j \in deps(k) : j \in T \/ IsRegistered(j)
        BY <1>1, <2>2, <4>1 DEF Closed, LinksFit, Known, IsPending
      <4> QED
        BY <3>1, <4>3, <4>4
    <3>3. ASSUME NEW k \in W, ~IsPending(k) PROVE regState[k] # "withLcHooks"
      <4>1. k \in S /\ IsRegistered(k)
        BY <2>2, <3>1, <3>3 DEF IsPending
      <4>2. ~IsPending(k)'
        BY <3>3, <4>1 DEF Calm, Known, IsPending
      <4> QED
        BY <2>4, <4>1, <4>2 DEF Plain
    <3>4. Plain(W) /\ m \in W
      BY <2>1, <2>4, <3>1, <3>2, <3>3 DEF Plain
    <3> QED
      BY <1>3, <3>4 DEF Hooking
  <2> QED
    BY <2>1, <2>3, <2>4 DEF Hooking
<1> QED
  BY <1>2, <1>3

LEMMA CalmFreeOfHooks ==
    ASSUME Structure, Calm, FreeKeepHooks, regState' = regState, NEW D, \A k \in D : Known(k), FreeOfHooks(D)
    PROVE  FreeOfHooks(D)'
<1>1. LinksFit /\ RecsTyped
  BY DEF Structure
<1>2. PICK S \in SUBSET Comp : D \subseteq S /\ Plain(S) /\ S \cap DOMAIN pending \in FreeSets
  BY DEF FreeOfHooks
<1>3. PICK W \in SUBSET Comp : W = {k \in S : Known(k)}
  OBVIOUS
<1>4. PICK T : T = S \cap DOMAIN pending
  OBVIOUS
<1>5. T \in SUBSET DOMAIN pending /\ Closed(T, {}) /\ T \in FreeSets
  BY <1>2, <1>4 DEF FreeSets
<1>6. T \in FreeSets'
  <2>1. PICK e : e = {}
    OBVIOUS
  <2>2. Closed(T, e)
    BY <1>5, <2>1
  <2>3. Closed(T, e)' /\ T \in SUBSET DOMAIN pending'
    BY <1>1, <1>5, <2>2, CalmKeepsClosed
  <2> QED
    BY <2>1, <2>3 DEF FreeSets
<1>7. \A k \in W : IsPending(k)' <=> IsPending(k)
  BY <1>3 DEF Calm, IsPending
<1>8. W \cap DOMAIN pending' = T
  BY <1>3, <1>4, <1>7 DEF Known, IsPending
<1>9. ASSUME NEW k \in W
      PROVE  IF IsPending(k)' THEN ~HasHooks(k)' /\ deps(k)' \subseteq W ELSE regState'[k] # "withLcHooks"
  <2>1. CASE IsPending(k)
    <3>1. k \in T /\ k \in S
      BY <1>3, <1>4, <2>1 DEF IsPending
    <3>2. deps(k)' = deps(k)
      BY <1>5, <3>1 DEF Closed, Calm, Unfinished, IsPending
    <3>3. ~HasHooks(k)' /\ deps(k) \subseteq S
      BY <1>2, <1>5, <2>1, <3>1 DEF Plain, FreeKeepHooks
    <3>4. \A j \in deps(k) : Known(j)
      BY <1>1, <2>1 DEF LinksFit, IsPending
    <3> QED
      BY <1>3, <1>7, <2>1, <3>2, <3>3, <3>4
  <2>2. CASE ~IsPending(k)
    BY <1>2, <1>3, <1>7, <2>2 DEF Plain
  <2> QED
    BY <2>1, <2>2
<1>10. Plain(W)'
  BY <1>9 DEF Plain
<1>11. D \subseteq W
  BY <1>2, <1>3
<1> QED
  BY <1>6, <1>8, <1>10, <1>11 DEF FreeOfHooks

LEMMA CalmHooks ==
    ASSUME RInv, Straight, Structure, Learned, HooksFit, Calm, FreeKeepHooks, UNCHANGED regResult,
           \A d \in Comp : IsRegistered(d) /\ providedErr[d] => providedErr'[d]
    PROVE  HooksFit'
<1>1. UNCHANGED <<regState, nodeDependsOn, nodeHasHooks>>
  BY DEF regResult
<1>2. \A d \in Comp : \A m \in nodeDependsOn[d] : m \in Comp /\ Known(m)
  BY DEF Learned, DepsAreObtained, Structure, ObtainedFits
<1> SUFFICES ASSUME NEW d \in Comp, IsRegistered(d), ~providedErr[d]
             PROVE  IF regState[d] = "withLcHooks"
                    THEN nodeHasHooks[d] \/ \E m \in nodeDependsOn[d] : Hooking(m)'
                    ELSE ~nodeHasHooks[d] /\ \E D : D = nodeDependsOn[d] /\ FreeOfHooks(D)'
  BY <1>1 DEF HooksFit, IsRegistered
<1>3. CASE regState[d] = "withLcHooks"
  BY <1>1, <1>2, <1>3, CalmHooking DEF HooksFit
<1>4. CASE regState[d] # "withLcHooks"
  <2>1. PICK D : D = nodeDependsOn[d]
    OBVIOUS
  <2>2. ~nodeHasHooks[d] /\ FreeOfHooks(D) /\ \A k \in D : Known(k)
    BY <1>2, <1>4, <2>1 DEF HooksFit
  <2>3. FreeOfHooks(D)'
    BY <1>1, <2>2, CalmFreeOfHooks
  <2> QED
    BY <1>4, <2>1, <2>2, <2>3
<1> QED
  BY <1>3, <1>4

LEMMA HookedKept ==
    ASSUME RInv, Straight, Structure, Learned, HooksFound, Calm, FreeKeepHooks, UNCHANGED regResult,
           \A d \in Comp : IsRegistered(d) /\ providedErr[d] => providedErr'[d], OwnHooks'
    PROVE  HooksFound'
<1>1. HooksFit' /\ nodeHasHooks' = nodeHasHooks
  BY CalmHooks DEF HooksFound, regResult
<1> QED
  BY <1>1 DEF HooksFound

LEMMA SameHooked ==
    ASSUME RInv, Straight, Structure, Learned, HooksFound, Calm, UNCHANGED <<pending, regResult>>,
           \A d \in Comp : IsRegistered(d) /\ providedErr[d] => providedErr'[d]
    PROVE  HooksFound'
<1>1. FreeKeepHooks
  BY DEF FreeKeepHooks, HasHooks
<1>2. OwnHooks'
  BY DEF HooksFound, OwnHooks, deps, regResult
<1> QED
  BY <1>1, <1>2, HookedKept

LEMMA NoneFailsHooked ==
    ASSUME HooksFound, UNCHANGED <<pending, regResult, providedErr>>, Failing' = Failing
    PROVE  HooksFound'
<1>1. UNCHANGED <<regState, nodeDependsOn, nodeHasHooks>>
  BY DEF regResult
<1>2. \A S : (S \in FreeSets' <=> S \in FreeSets) /\ (Plain(S)' <=> Plain(S))
  BY <1>1 DEF FreeSets, Closed, Plain, HasHooks, IsPending, waits, deps
<1>3. \A m : Hooking(m)' <=> Hooking(m)
  BY <1>1, <1>2 DEF Hooking
<1>4. \A D : FreeOfHooks(D)' <=> FreeOfHooks(D)
  BY <1>2 DEF FreeOfHooks
<1>5. HooksFit'
  <2>1. ASSUME NEW d \in Comp, IsRegistered(d), ~providedErr[d]
        PROVE  IF regState[d] = "withLcHooks"
               THEN nodeHasHooks[d] \/ \E m \in nodeDependsOn[d] : Hooking(m)'
               ELSE ~nodeHasHooks[d] /\ \E D : D = nodeDependsOn[d] /\ FreeOfHooks(D)'
    BY <1>3, <1>4, <2>1 DEF HooksFound, HooksFit
  <2> QED
    BY <1>1, <2>1 DEF HooksFit, IsRegistered
<1>6. OwnHooks'
  BY <1>1 DEF HooksFound, OwnHooks, deps
<1> QED
  BY <1>1, <1>5, <1>6 DEF HooksFound

LEMMA RestHooked ==
    ASSUME HooksFound, UNCHANGED <<pending, removing, regResult, providedErr>>
    PROVE  HooksFound'
<1>1. Failing' = Failing
  BY DEF Failing, Scheduled
<1> QED
  BY <1>1, NoneFailsHooked

LEMMA UseLifecycleHooked ==
    ASSUME RInv, Straight, Structure, Counting, Learned, HooksFound, UseLifecycle
    PROVE  HooksFound' /\ Learned'
<1>0. PICK x : x = Top.node
  OBVIOUS
<1>1. /\ stack # <<>> /\ Top.kind # "called" /\ UNCHANGED <<componentNode, frames, returning, obtained>>
      /\ AddLifecycleHookBuilder(x)
  BY <1>0 DEF UseLifecycle, UserCode, Settled
<1>2. x \in DOMAIN pending /\ Calm
  BY <1>0, <1>1, TopPlace, UserFrames, UseLifecycleStructure DEF IsPending
<1>3. /\ SameRecs
      /\ \A n \in DOMAIN pending : /\ pending'[n].lcHooks = pending[n].lcHooks
                                   /\ pending'[n].hasOwnOrTransitiveRunnables = pending[n].hasOwnOrTransitiveRunnables
  BY <1>1, <1>2, BuilderRecs DEF Structure
<1>4. FreeKeepHooks
  BY <1>3 DEF FreeKeepHooks, FreeSets, HasHooks
<1>5. UNCHANGED <<regResult, regState, nodeDependsOn, providedErr, stack>>
  BY <1>1 DEF componentNode, regResult, frames
<1>6. OwnHooks'
  <2>1. DOMAIN pending' = DOMAIN pending /\ \A n \in DOMAIN pending : deps(n)' = deps(n)
    BY <1>3 DEF SameRecs
  <2> QED
    BY <1>3, <1>5, <2>1 DEF HooksFound, OwnHooks
<1>7. HooksFound'
  BY <1>2, <1>4, <1>5, <1>6, HookedKept
<1>8. Learned'
  BY <1>1, <1>3, <1>5, LearnedSame
<1> QED
  BY <1>7, <1>8

LEMMA AskedHooked ==
    ASSUME RInv, Straight, Structure, Learned, HooksFound, NEW m \in Comp,
           NEW D \in SUBSET Comp, D = IF stack = <<>> THEN {} ELSE {Top.node},
           stack # <<>> => Top.kind # "called", Calm, AddEffect(D, m), AddedHooks(D, m),
           UNCHANGED componentNode
    PROVE  HooksFound'
<1>1. UNCHANGED <<regResult, regState, providedErr>>
  BY DEF componentNode, regResult
<1>2. \A d \in D : Unfinished(d)
  BY TopPlace, UserFrames
<1>3. ASSUME NEW T \in FreeSets, NEW k \in T PROVE k \in DOMAIN pending /\ k \notin D
  BY <1>2, <1>3 DEF FreeSets, Closed, Unfinished
<1>4. FreeKeepHooks
  BY <1>3 DEF FreeKeepHooks, HasHooks, AddedHooks
<1>5. ASSUME NEW d \in DOMAIN pending', pending'[d].hasOwnOrTransitiveRunnables
      PROVE  pending'[d].lcHooks \/ \E j \in deps(d)' : regState'[j] = "withLcHooks"
  <2>1. d \in DOMAIN pending
    BY <1>5 DEF AddedHooks, AddEffect
  <2>2. /\ pending'[d].lcHooks = pending[d].lcHooks
        /\ pending[d].hasOwnOrTransitiveRunnables \/ (d \in D /\ regState[m] = "withLcHooks")
        /\ deps(d)' = IF d \in D THEN deps(d) \cup {m} ELSE deps(d)
    BY <1>5, <2>1 DEF AddedHooks, AddEffect
  <2> QED
    BY <1>1, <2>1, <2>2 DEF HooksFound, OwnHooks
<1>6. OwnHooks'
  BY <1>5 DEF OwnHooks
<1> QED
  BY <1>1, <1>4, <1>6, HookedKept

LEMMA EndOfHooked ==
    ASSUME RInv, Straight, Structure, Counting, Learned, HooksFound, NEW x, EndOf(x)
    PROVE  HooksFound'
<1>1. Calm
  BY EndOfStructure
<1>2. /\ UNCHANGED regResult /\ removing = <<>>
      /\ \A d \in Comp : providedErr[d] => providedErr'[d]
  BY DEF EndOf, FrameEnds, EndsAlone, regResult, Succeeds, FailsWith
<1>3. CASE pending' = pending
  BY <1>1, <1>2, <1>3, SameHooked
<1>4. CASE IsPending(x) /\ OnLastNodeFramePoppedWithNoErr(x) /\ (Unfinished(x) \/ x \notin LeftBehind)
  <2>1. /\ RecsTyped /\ SchedulesFit /\ x \in DOMAIN pending /\ Leaving = {}
    BY <1>2, <1>4, NothingScheduled DEF Structure, IsPending
  <2>2. NoneZero
    BY <2>1 DEF SchedulesFit, NoneZero
  <2>3. /\ SettleRecs(x)
        /\ pending'[x].hasOwnOrTransitiveRunnables =
              (pending[x].hasOwnOrTransitiveRunnables \/ pending'[x].lcHooks)
        /\ pending'[x].lcHooks = (pending[x].lcHooks \/ pending[x].lcHookBuilders)
        /\ \A n \in DOMAIN pending \ {x} : pending'[n] = pending[n]
    BY <1>4, <2>1, <2>2, Settles
  <2>4. ASSUME NEW T \in FreeSets PROVE x \notin T
    <3> SUFFICES ASSUME x \in T PROVE FALSE
      OBVIOUS
    <3>1. ~Unfinished(x)
      BY DEF FreeSets, Closed, Unfinished
    <3>2. T \in SUBSET {n \in DOMAIN pending : pending[n].waitsForDepsCount # waitsForOwnFrames}
      BY DEF FreeSets, Closed, waits
    <3>3. \A n \in T : pending[n].dependsOn \cap DOMAIN pending \subseteq T
      BY DEF FreeSets, Closed, deps
    <3> QED
      BY <1>4, <3>1, <3>2, <3>3 DEF LeftBehind
  <2>5. FreeKeepHooks
    BY <2>3, <2>4 DEF FreeKeepHooks, HasHooks, FreeSets
  <2>6. \A n \in DOMAIN pending : deps(n)' = deps(n)
    BY <2>3 DEF SettleRecs
  <2>7. OwnHooks'
    <3> SUFFICES ASSUME NEW d \in DOMAIN pending', pending'[d].hasOwnOrTransitiveRunnables, ~pending'[d].lcHooks
                 PROVE  \E m \in deps(d)' : regState'[m] = "withLcHooks"
      BY DEF OwnHooks
    <3>1. d \in DOMAIN pending
      BY <2>3 DEF SettleRecs
    <3>2. pending[d].hasOwnOrTransitiveRunnables /\ ~pending[d].lcHooks
      BY <2>3, <3>1
    <3> QED
      BY <1>2, <2>6, <3>1, <3>2 DEF HooksFound, OwnHooks, regResult
  <2> QED
    BY <1>1, <1>2, <2>5, <2>7, HookedKept
<1> QED
  BY <1>3, <1>4 DEF EndOf, Succeeds, FailsWith, OnLastNodeFramePoppedWithNoErr

\* What HasDirectOrTransitiveRunnables finds.
ReachedFrom(n) == Reached({n}, [k \in Comp |-> RecOf(k).dependsOn])

LEMMA WhatIsReached ==
    ASSUME RecsTyped, NEW n \in Comp
    PROVE  /\ n \in ReachedFrom(n) /\ ReachedFrom(n) \in SUBSET Comp
           /\ \A k \in ReachedFrom(n) : IsPending(k) => deps(k) \subseteq ReachedFrom(n)
           /\ \A S \in SUBSET Comp :
                 n \in S /\ (\A k \in S : IsPending(k) => deps(k) \subseteq S) => ReachedFrom(n) \subseteq S
<1>1. PICK next : next = [k \in Comp |-> RecOf(k).dependsOn]
  OBVIOUS
<1>2. \A k \in Comp : next[k] = IF IsPending(k) THEN deps(k) ELSE {}
  BY <1>1 DEF RecOf, Rec, deps
<1>3. \A k \in Comp : next[k] \subseteq Comp
  BY <1>2 DEF RecsTyped, RecType, IsPending, deps
<1>4. ReachedFrom(n) = {k \in Comp : \A S \in SUBSET Comp : {n} \subseteq S /\ (\A j \in S : next[j] \subseteq S) => k \in S}
  BY <1>1 DEF ReachedFrom, Reached
<1>5. ASSUME NEW k \in ReachedFrom(n) PROVE next[k] \subseteq ReachedFrom(n)
  BY <1>3, <1>4
<1>6. n \in ReachedFrom(n) /\ ReachedFrom(n) \in SUBSET Comp
  BY <1>4
<1>7. ASSUME NEW S \in SUBSET Comp, n \in S, \A k \in S : IsPending(k) => deps(k) \subseteq S
      PROVE  ReachedFrom(n) \subseteq S
  <2>1. \A k \in S : next[k] \subseteq S
    BY <1>2, <1>7
  <2> QED
    BY <1>4, <1>7, <2>1
<1> QED
  BY <1>2, <1>5, <1>6, <1>7

LEMMA WhatHasRunnables ==
    ASSUME RecsTyped, NEW n \in DOMAIN pending
    PROVE  /\ ~HasDirectOrTransitiveRunnables(n) => Plain(ReachedFrom(n))
           /\ \A S \in SUBSET Comp : n \in S /\ Plain(S) => ~HasDirectOrTransitiveRunnables(n)
<1>1. n \in Comp
  BY DEF RecsTyped
<1>2. HasDirectOrTransitiveRunnables(n) <=>
          \E k \in ReachedFrom(n) : IF IsPending(k) THEN HasHooks(k) ELSE regState[k] = "withLcHooks"
  BY DEF HasDirectOrTransitiveRunnables, ReachedFrom, HasHooks
<1>3. ~HasDirectOrTransitiveRunnables(n) => Plain(ReachedFrom(n))
  BY <1>1, <1>2, WhatIsReached DEF Plain
<1>4. ASSUME NEW S \in SUBSET Comp, n \in S, Plain(S) PROVE ~HasDirectOrTransitiveRunnables(n)
  <2>1. ReachedFrom(n) \subseteq S
    BY <1>1, <1>4, WhatIsReached DEF Plain
  <2> QED
    BY <1>2, <1>4, <2>1 DEF Plain
<1> QED
  BY <1>3, <1>4

\* A removal, with what it tells the component.
HookRemoval(a, n) == RemovalOf(a, n) /\ RegDetails(a, n) /\ Learned /\ HooksFound

LEMMA RemovalFacts ==
    ASSUME NEW a, NEW n, HookRemoval(a, n)
    PROVE  /\ RInv /\ Straight /\ RecsTyped /\ LinksFit /\ n \in DOMAIN pending /\ n \in Comp /\ ~IsRegistered(n)
           /\ \A k : IsPending(k)' <=> IsPending(k) /\ k # n
           /\ \A k \in DOMAIN pending \ {n} :
                 /\ HasHooks(k)' <=> HasHooks(k)
                 /\ deps(k)' = IF a.err THEN deps(k) \ {n} ELSE deps(k)
           /\ \A k \in Comp \ {n} : regState'[k] = regState[k] /\ providedErr'[k] = providedErr[k]
           /\ regState'[n] = IF ~a.err /\ HasDirectOrTransitiveRunnables(n) THEN "withLcHooks" ELSE "withNoLcHooks"
           /\ \A T \in FreeSets : T \ {n} \in FreeSets' /\ (n \in T => ~a.err)
           /\ a.err => providedErr'[n]
           /\ ~a.err => \E T \in FreeSets : n \in T
<1>1. /\ RInv /\ Straight /\ Structure /\ Counting /\ a \in Scheduled /\ n = a.node /\ n \in DOMAIN pending
      /\ RemoveEffect(a, n) /\ RegEffect(a, n) /\ RegDetails(a, n) /\ RemovalOf(a, n)
  BY DEF RemovalOf, HookRemoval
<1>2. n \in Comp /\ ~IsRegistered(n) /\ n \in Leaving
  BY <1>1, RemovedFacts
<1>3. (a.err => n \in Failing) /\ (~a.err => Failing = {})
  BY <1>1, LeavingNext
<1>4. a.err => providedErr'[n]
  <2>1. a.err => (a.report \/ providedErr[n])
    BY <1>1 DEF Structure, SchedulesFit
  <2> QED
    BY <1>1, <2>1 DEF RegEffect
<1>5. ASSUME NEW T \in FreeSets PROVE T \ {n} \in FreeSets' /\ (n \in T => ~a.err)
  BY <1>1, <1>3, RemovalKeepsFree DEF FreeSets, Closed
<1>6. \A k : IsPending(k)' <=> IsPending(k) /\ k # n
  BY <1>1 DEF RemoveEffect, IsPending
<1>7. \A k \in DOMAIN pending \ {n} : /\ HasHooks(k)' <=> HasHooks(k)
                                      /\ deps(k)' = IF a.err THEN deps(k) \ {n} ELSE deps(k)
  BY <1>1 DEF RemoveEffect, HasHooks
<1>8. ~a.err => \E T \in FreeSets : n \in T
  BY <1>1, <1>2, <1>3 DEF Counting, LeavingFits
<1> QED
  BY <1>1, <1>2, <1>4, <1>5, <1>6, <1>7, <1>8 DEF Structure, RegEffect, RegDetails

\* A set that leads to no hooks still does, unless the removed component is in it and has failed.
LEMMA RemovalPlain ==
    ASSUME NEW a, NEW n, HookRemoval(a, n), NEW S \in SUBSET Comp, Plain(S)
    PROVE  Plain(S)'
<1>1. ASSUME NEW k \in S
      PROVE  IF IsPending(k)' THEN ~HasHooks(k)' /\ deps(k)' \subseteq S ELSE regState'[k] # "withLcHooks"
  <2>1. CASE IsPending(k)'
    <3>1. k \in DOMAIN pending \ {n} /\ IsPending(k)
      BY <2>1, RemovalFacts DEF IsPending
    <3>2. ~HasHooks(k) /\ deps(k) \subseteq S
      BY <3>1 DEF Plain
    <3> QED
      BY <2>1, <3>1, <3>2, RemovalFacts
  <2>2. CASE ~IsPending(k)' /\ k # n
    <3>1. ~IsPending(k) /\ regState'[k] = regState[k]
      BY <2>2, RemovalFacts
    <3> QED
      BY <2>2, <3>1 DEF Plain
  <2>3. CASE ~IsPending(k)' /\ k = n
    <3>1. ~HasDirectOrTransitiveRunnables(n)
      BY <2>3, RemovalFacts, WhatHasRunnables
    <3>2. regState'[n] = IF ~a.err /\ HasDirectOrTransitiveRunnables(n) THEN "withLcHooks" ELSE "withNoLcHooks"
      BY RemovalFacts
    <3> QED
      BY <2>3, <3>1, <3>2
  <2> QED
    BY <2>1, <2>2, <2>3
<1> QED
  BY <1>1 DEF Plain

LEMMA RemovalHooking ==
    ASSUME NEW a, NEW n, HookRemoval(a, n), NEW m \in Comp, Hooking(m)
    PROVE  Hooking(m)'
<1>0. /\ RInv /\ Straight /\ RecsTyped /\ LinksFit /\ n \in DOMAIN pending /\ n \in Comp /\ ~IsRegistered(n)
      /\ \A k : IsPending(k)' <=> IsPending(k) /\ k # n
      /\ \A k \in DOMAIN pending \ {n} :
            /\ HasHooks(k)' <=> HasHooks(k)
            /\ deps(k)' = IF a.err THEN deps(k) \ {n} ELSE deps(k)
      /\ \A k \in Comp \ {n} : regState'[k] = regState[k]
      /\ regState'[n] = IF ~a.err /\ HasDirectOrTransitiveRunnables(n) THEN "withLcHooks" ELSE "withNoLcHooks"
  BY RemovalFacts
<1>1. CASE regState[m] = "withLcHooks"
  BY <1>0, <1>1 DEF Hooking, IsRegistered
<1>2. CASE regState[m] # "withLcHooks"
  <2>1. PICK T \in FreeSets : m \in T
    BY <1>2 DEF Hooking
  <2>2. T \in SUBSET DOMAIN pending /\ Closed(T, {}) /\ T \ {n} \in FreeSets' /\ (n \in T => ~a.err)
    BY <2>1, RemovalFacts DEF FreeSets
  <2>3. CASE m = n
    <3>1. HasDirectOrTransitiveRunnables(n)
      BY <1>0, <1>2, <2>3, WhatHasRunnables, WhatIsReached DEF Hooking
    <3> QED
      BY <1>0, <2>1, <2>2, <2>3, <3>1 DEF Hooking
  <2>4. ASSUME m # n, NEW S \in SUBSET Comp, m \in S, Plain(S)' PROVE FALSE
    <3>1. PICK V \in SUBSET Comp : V = {k \in S : k \in T \/ IsRegistered(k)}
      OBVIOUS
    <3>2. PICK U \in SUBSET Comp : /\ V \subseteq U
                                   /\ \A k \in U : k \in V \/ (n \in V /\ k \in ReachedFrom(n) /\ Plain(ReachedFrom(n)))
                                   /\ n \in V => ReachedFrom(n) \subseteq U /\ Plain(ReachedFrom(n))
      <4>1. CASE n \in V
        <5>1. n \in S /\ n \in T
          BY <1>0, <3>1, <4>1
        <5>2. regState'[n] # "withLcHooks" /\ ~a.err
          BY <1>0, <2>2, <2>4, <5>1 DEF Plain
        <5>3. Plain(ReachedFrom(n)) /\ ReachedFrom(n) \in SUBSET Comp
          BY <1>0, <5>2, WhatHasRunnables, WhatIsReached
        <5>4. PICK U \in SUBSET Comp : U = V \cup ReachedFrom(n)
          BY <5>3
        <5> QED
          BY <4>1, <5>3, <5>4
      <4>2. CASE n \notin V
        BY <4>2
      <4> QED
        BY <4>1, <4>2
    <3>3. ASSUME NEW k \in V, k # n, IsPending(k) PROVE ~HasHooks(k) /\ deps(k) \subseteq V
      <4>1. k \in T /\ k \in S /\ k \in DOMAIN pending \ {n} /\ IsPending(k)'
        BY <1>0, <3>1, <3>3, RegisteredAreOver DEF IsPending
      <4>2. deps(k)' = deps(k)
        <5>1. n \in deps(k) => n \in T
          BY <1>0, <2>2, <4>1 DEF Closed
        <5> QED
          BY <1>0, <2>2, <4>1, <5>1
      <4>3. ~HasHooks(k) /\ deps(k) \subseteq S
        BY <1>0, <2>4, <4>1, <4>2 DEF Plain
      <4>4. \A j \in deps(k) : j \in T \/ IsRegistered(j)
        BY <1>0, <2>2, <4>1 DEF Closed, LinksFit, Known, IsPending
      <4> QED
        BY <3>1, <4>3, <4>4
    <3>4. ASSUME NEW k \in V, ~IsPending(k) PROVE regState[k] # "withLcHooks"
      <4>1. k \in S /\ k # n /\ ~IsPending(k)'
        BY <1>0, <3>1, <3>4 DEF IsPending
      <4>2. regState'[k] # "withLcHooks"
        BY <2>4, <4>1 DEF Plain
      <4> QED
        BY <1>0, <4>1, <4>2
    <3>5. ASSUME NEW k \in U
          PROVE  IF IsPending(k) THEN ~HasHooks(k) /\ deps(k) \subseteq U ELSE regState[k] # "withLcHooks"
      <4>1. CASE k \in V /\ k # n
        BY <3>2, <3>3, <3>4, <4>1
      <4>2. CASE k \in ReachedFrom(n) /\ Plain(ReachedFrom(n)) /\ n \in V
        <5>1. IF IsPending(k) THEN ~HasHooks(k) /\ deps(k) \subseteq ReachedFrom(n) ELSE regState[k] # "withLcHooks"
          BY <4>2 DEF Plain
        <5> QED
          BY <3>2, <4>2, <5>1
      <4>3. n \in ReachedFrom(n)
        BY <1>0, WhatIsReached
      <4>4. k \in V \/ (k \in ReachedFrom(n) /\ Plain(ReachedFrom(n)) /\ n \in V)
        BY <3>2
      <4> QED
        BY <3>2, <4>1, <4>2, <4>3, <4>4
    <3>6. Plain(U) /\ m \in U
      BY <2>1, <2>4, <3>1, <3>2, <3>5 DEF Plain
    <3> QED
      BY <1>2, <3>6 DEF Hooking
  <2> QED
    BY <2>1, <2>2, <2>3, <2>4 DEF Hooking
<1> QED
  BY <1>1, <1>2

\* What the removed component is registered with, if it has not failed.
LEMMA RemovalRegisters ==
    ASSUME NEW a, NEW n, HookRemoval(a, n), ~a.err
    PROVE  IF HasDirectOrTransitiveRunnables(n)
           THEN pending[n].lcHooks \/ \E m \in deps(n) : Hooking(m)'
           ELSE ~pending[n].lcHooks /\ \E D : D = deps(n) /\ FreeOfHooks(D)'
<1>0. /\ RInv /\ Straight /\ RecsTyped /\ LinksFit /\ n \in DOMAIN pending /\ n \in Comp /\ ~IsRegistered(n)
      /\ \A k : IsPending(k)' <=> IsPending(k) /\ k # n
      /\ \A k \in DOMAIN pending \ {n} : (HasHooks(k)' <=> HasHooks(k)) /\ deps(k)' = deps(k)
      /\ \A k \in Comp \ {n} : regState'[k] = regState[k]
      /\ regState'[n] = IF HasDirectOrTransitiveRunnables(n) THEN "withLcHooks" ELSE "withNoLcHooks"
  BY RemovalFacts
<1>1. PICK T \in FreeSets : n \in T
  BY RemovalFacts
<1>2. T \in SUBSET DOMAIN pending /\ Closed(T, {}) /\ T \ {n} \in FreeSets'
  BY <1>1, RemovalFacts DEF FreeSets
<1>3. deps(n) \subseteq Comp /\ \A m \in deps(n) : m \in T \/ (~IsPending(m) /\ IsRegistered(m))
  BY <1>0, <1>1, <1>2 DEF RecsTyped, RecType, deps, Closed, LinksFit, Known, IsPending
<1>4. CASE HasDirectOrTransitiveRunnables(n)
  <2> SUFFICES ASSUME ~pending[n].lcHooks, \A m \in deps(n) : ~Hooking(m)' PROVE FALSE
    BY <1>4
  <2>1. n \notin deps(n)
    BY <1>0, <1>4 DEF Hooking
  <2>2. ASSUME NEW m \in deps(n) PROVE \E S \in SUBSET Comp : m \in S /\ Plain(S)'
    <3>1. regState'[m] # "withLcHooks" /\ m # n /\ m \in Comp
      BY <1>3, <2>1, <2>2 DEF Hooking
    <3>2. CASE m \in T
      BY <1>2, <2>2, <3>1, <3>2 DEF Hooking
    <3>3. CASE ~IsPending(m)
      <4>1. PICK S \in SUBSET Comp : S = {m}
        BY <3>1
      <4>2. Plain(S)'
        BY <1>0, <3>1, <3>3, <4>1 DEF Plain
      <4> QED
        BY <4>1, <4>2
    <3> QED
      BY <1>3, <3>2, <3>3
  <2>3. PICK U \in SUBSET Comp : U = {k \in Comp : \E S \in SUBSET Comp : k \in S /\ Plain(S)'}
    OBVIOUS
  <2>4. ASSUME NEW k \in U
        PROVE  IF IsPending(k)' THEN ~HasHooks(k)' /\ deps(k)' \subseteq U ELSE regState'[k] # "withLcHooks"
    <3>1. PICK S \in SUBSET Comp : k \in S /\ Plain(S)'
      BY <2>3
    <3>2. S \subseteq U
      BY <2>3, <3>1
    <3>3. IF IsPending(k)' THEN ~HasHooks(k)' /\ deps(k)' \subseteq S ELSE regState'[k] # "withLcHooks"
      BY <3>1 DEF Plain
    <3> QED
      BY <3>2, <3>3
  <2>5. ~HasHooks(n) /\ deps(n) \subseteq U
    <3>1. \A m \in deps(n) : regState[m] # "withLcHooks"
      BY <1>0, <1>3, <2>1 DEF Hooking
    <3>2. ~pending[n].hasOwnOrTransitiveRunnables
      BY <1>0, <3>1 DEF HookRemoval, HooksFound, OwnHooks
    <3> QED
      BY <1>3, <2>2, <2>3, <3>2 DEF HasHooks
  <2>6. PICK W \in SUBSET Comp : W = U \cup {n}
    BY <1>0
  <2>7. ASSUME NEW k \in W
        PROVE  IF IsPending(k) THEN ~HasHooks(k) /\ deps(k) \subseteq W ELSE regState[k] # "withLcHooks"
    <3>1. CASE k = n
      BY <1>0, <2>5, <2>6, <3>1 DEF IsPending
    <3>2. CASE k # n
      <4>1. k \in U /\ k \in Comp
        BY <2>6, <3>2
      <4>2. CASE IsPending(k)
        <5>1. IsPending(k)' /\ k \in DOMAIN pending \ {n}
          BY <1>0, <3>2, <4>2 DEF IsPending
        <5>2. ~HasHooks(k)' /\ deps(k)' \subseteq U
          BY <2>4, <4>1, <5>1
        <5> QED
          BY <1>0, <2>6, <4>2, <5>1, <5>2
      <4>3. CASE ~IsPending(k)
        BY <1>0, <2>4, <3>2, <4>1, <4>3
      <4> QED
        BY <4>2, <4>3
    <3> QED
      BY <3>1, <3>2
  <2>8. Plain(W) /\ n \in W
    BY <2>6, <2>7 DEF Plain
  <2> QED
    BY <1>0, <1>4, <2>8, WhatHasRunnables
<1>5. CASE ~HasDirectOrTransitiveRunnables(n)
  <2>1. PICK R \in SUBSET Comp : R = ReachedFrom(n)
    BY <1>0, WhatIsReached
  <2>2. /\ n \in R /\ Plain(R)
        /\ \A S \in SUBSET Comp :
              n \in S /\ (\A k \in S : IsPending(k) => deps(k) \subseteq S) => R \subseteq S
    BY <1>0, <1>5, <2>1, WhatIsReached, WhatHasRunnables
  <2>3. ~pending[n].lcHooks /\ deps(n) \subseteq R
    BY <1>0, <2>2 DEF Plain, HasHooks, IsPending
  <2>4. Plain(R)'
    BY <2>2, RemovalPlain
  <2>5. R \cap DOMAIN pending \subseteq T
    <3>1. PICK S \in SUBSET Comp : S = {k \in Comp : k \in T \/ ~IsPending(k)}
      OBVIOUS
    <3>2. \A k \in S : IsPending(k) => deps(k) \subseteq S
      BY <1>0, <1>2, <3>1 DEF Closed, IsPending, RecsTyped, RecType, deps
    <3>3. n \in S
      BY <1>0, <1>1, <3>1
    <3>4. R \subseteq S
      BY <2>2, <3>2, <3>3
    <3> QED
      BY <3>1, <3>4 DEF IsPending
  <2>6. PICK F : F = R \cap DOMAIN pending
    OBVIOUS
  <2>7. F \in FreeSets
    <3>1. F \in SUBSET DOMAIN pending
      BY <2>6
    <3>2. \A k \in F : k \in T /\ k \in R /\ IsPending(k)
      BY <2>5, <2>6 DEF IsPending
    <3>3. \A k \in F : deps(k) \subseteq R
      BY <2>2, <3>2 DEF Plain
    <3>4. Closed(F, {})
      BY <1>2, <2>6, <3>2, <3>3 DEF Closed
    <3> QED
      BY <3>1, <3>4 DEF FreeSets
  <2>8. F \ {n} \in FreeSets' /\ R \cap DOMAIN pending' = F \ {n}
    <3>1. F \ {n} \in FreeSets'
      BY <2>7, RemovalFacts
    <3>2. \A k : k \in DOMAIN pending' <=> k \in DOMAIN pending /\ k # n
      BY <1>0 DEF IsPending
    <3> QED
      BY <2>6, <3>1, <3>2
  <2>9. ASSUME NEW D, D = deps(n) PROVE FreeOfHooks(D)'
    <3>1. D \subseteq R
      BY <2>3, <2>9
    <3>2. R \cap DOMAIN pending' \in FreeSets'
      BY <2>8
    <3> QED
      BY <2>4, <3>1, <3>2 DEF FreeOfHooks
  <2> QED
    BY <1>5, <2>3, <2>9
<1> QED
  BY <1>4, <1>5

LEMMA RemovalHooked ==
    ASSUME NEW a, NEW n, HookRemoval(a, n)
    PROVE  HooksFound'
<1>0. /\ RInv /\ Straight /\ RecsTyped /\ n \in DOMAIN pending /\ n \in Comp /\ ~IsRegistered(n)
      /\ \A k : IsPending(k)' <=> IsPending(k) /\ k # n
      /\ \A k \in Comp \ {n} : regState'[k] = regState[k] /\ providedErr'[k] = providedErr[k]
      /\ regState'[n] = IF ~a.err /\ HasDirectOrTransitiveRunnables(n) THEN "withLcHooks" ELSE "withNoLcHooks"
      /\ a.err => providedErr'[n]
  BY RemovalFacts
<1>1. /\ RemovalOf(a, n) /\ RegDetails(a, n) /\ Learned /\ HooksFound /\ Structure /\ RemoveEffect(a, n)
      /\ nodeDependsOn = [k \in Comp |-> nodeDependsOn[k]]
  BY DEF HookRemoval, RemovalOf, RInv, Types
<1>2. /\ nodeHasHooks' \in [Comp -> BOOLEAN]
      /\ nodeHasHooks'[n] = pending[n].lcHooks /\ \A d \in Comp \ {n} : nodeHasHooks'[d] = nodeHasHooks[d]
      /\ nodeDependsOn'[n] = (IF a.err THEN {} ELSE deps(n))
      /\ \A d \in Comp \ {n} : nodeDependsOn'[d] = nodeDependsOn[d]
  <2>1. pending[n].lcHooks \in BOOLEAN
    BY <1>0 DEF RecsTyped, RecType
  <2> QED
    BY <1>0, <1>1, <2>1 DEF RegDetails, HooksFound
<1>3. OwnHooks'
  <2> SUFFICES ASSUME NEW d \in DOMAIN pending', pending'[d].hasOwnOrTransitiveRunnables, ~pending'[d].lcHooks
               PROVE  \E m \in deps(d)' : regState'[m] = "withLcHooks"
    BY DEF OwnHooks
  <2>1. /\ d \in DOMAIN pending \ {n} /\ pending[d].hasOwnOrTransitiveRunnables /\ ~pending[d].lcHooks
        /\ deps(d)' = IF a.err THEN deps(d) \ {n} ELSE deps(d)
    BY <1>1 DEF RemoveEffect
  <2>2. PICK m \in deps(d) : regState[m] = "withLcHooks"
    BY <1>1, <2>1 DEF HooksFound, OwnHooks
  <2>3. m \in Comp /\ m # n
    BY <1>0, <2>1, <2>2 DEF RecsTyped, RecType, deps, IsRegistered
  <2> QED
    BY <1>0, <2>1, <2>2, <2>3
<1>4. ASSUME NEW d \in Comp, IsRegistered(d)', ~providedErr'[d]
      PROVE  IF regState'[d] = "withLcHooks"
             THEN nodeHasHooks'[d] \/ \E m \in nodeDependsOn'[d] : Hooking(m)'
             ELSE ~nodeHasHooks'[d] /\ \E D : D = nodeDependsOn'[d] /\ FreeOfHooks(D)'
  <2>1. CASE d = n
    <3>1. ~a.err
      BY <1>0, <1>4, <2>1
    <3>2. IF HasDirectOrTransitiveRunnables(n)
          THEN pending[n].lcHooks \/ \E m \in deps(n) : Hooking(m)'
          ELSE ~pending[n].lcHooks /\ \E D : D = deps(n) /\ FreeOfHooks(D)'
      BY <3>1, RemovalRegisters
    <3> QED
      BY <1>0, <1>2, <2>1, <3>1, <3>2
  <2>2. CASE d # n
    <3>1. IsRegistered(d) /\ ~providedErr[d] /\ regState'[d] = regState[d]
      BY <1>0, <1>4, <2>2 DEF IsRegistered
    <3>2. CASE regState[d] = "withLcHooks"
      <4>1. nodeHasHooks[d] \/ \E m \in nodeDependsOn[d] : Hooking(m)
        BY <1>1, <3>1, <3>2 DEF HooksFound, HooksFit
      <4>2. \A m \in nodeDependsOn[d] : m \in Comp
        BY <1>1 DEF Learned, DepsAreObtained, Structure, ObtainedFits
      <4> QED
        BY <1>2, <2>2, <3>1, <3>2, <4>1, <4>2, RemovalHooking
    <3>3. CASE regState[d] # "withLcHooks"
      <4>1. PICK D : D = nodeDependsOn[d]
        OBVIOUS
      <4>2. ~nodeHasHooks[d] /\ FreeOfHooks(D)
        BY <1>1, <3>1, <3>3, <4>1 DEF HooksFound, HooksFit
      <4>3. PICK S \in SUBSET Comp : D \subseteq S /\ Plain(S) /\ S \cap DOMAIN pending \in FreeSets
        BY <4>2 DEF FreeOfHooks
      <4>4. Plain(S)'
        BY <4>3, RemovalPlain
      <4>5. S \cap DOMAIN pending' \in FreeSets'
        <5>1. PICK T : T = S \cap DOMAIN pending
          OBVIOUS
        <5>2. T \ {n} \in FreeSets'
          BY <4>3, <5>1, RemovalFacts
        <5>3. S \cap DOMAIN pending' = T \ {n}
          BY <1>1, <5>1 DEF RemoveEffect
        <5> QED
          BY <5>2, <5>3
      <4>6. FreeOfHooks(D)'
        BY <4>3, <4>4, <4>5 DEF FreeOfHooks
      <4> QED
        BY <1>2, <2>2, <3>1, <3>3, <4>1, <4>2, <4>6
    <3> QED
      BY <3>2, <3>3
  <2> QED
    BY <2>1, <2>2
<1>5. HooksFit'
  BY <1>4 DEF HooksFit
<1> QED
  BY <1>2, <1>3, <1>5 DEF HooksFound

LEMMA RemovePendingHooked ==
    ASSUME RInv, Straight, Structure, Counting, Learned, HooksFound, RemovePending
    PROVE  Learned' /\ HooksFound'
<1>1. PICK a \in Head(removing) : Remove(a)
  BY DEF RemovePending, RemoveNext
<1>2. removing # <<>> /\ UNCHANGED <<providingState, stack, returning, obtained>>
  BY DEF RemovePending, RemoveNext, frames, user
<1>3. PICK n : n = a.node
  OBVIOUS
<1>4. CASE ~IsPending(n)
  <2>1. /\ removing' = ToRemove(Head(removing) \ {a}, Tail(removing))
        /\ UNCHANGED <<pending, providedErr, regResult>>
    BY <1>1, <1>3, <1>4 DEF Remove
  <2>2. UNCHANGED <<regState, nodeDependsOn, nodeHasHooks>>
    BY <2>1 DEF regResult
  <2>3. Learned'
    <3>1. SameRecs
      BY <2>1 DEF SameRecs, Structure, RecsTyped, deps, waits
    <3> QED
      BY <1>2, <2>1, <2>2, <3>1, LearnedSame
  <2>4. Scheduled \ {a} \subseteq Scheduled' /\ Scheduled' \subseteq Scheduled
    <3>1. PICK B \in SUBSET RemoveCalls : B = {}
      OBVIOUS
    <3>2. removing' = ToRemove(B, ToRemove(Head(removing) \ {a}, Tail(removing)))
      BY <2>1, <3>1 DEF ToRemove
    <3>3. Scheduled \ {a} \subseteq Scheduled' /\ Scheduled' \subseteq Scheduled \cup B
      BY <1>2, <3>2, ScheduledNext
    <3> QED
      BY <3>1, <3>3
  <2>5. Failing' = Failing
    BY <1>3, <1>4, <2>1, <2>4 DEF Failing, IsPending
  <2> QED
    BY <2>1, <2>3, <2>5, NoneFailsHooked
<1>5. CASE IsPending(n)
  <2>1. RemoveEffect(a, n) /\ a \in Scheduled
    BY <1>1, <1>2, <1>3, <1>5, RemoveHasEffect
  <2>2. n \in Comp /\ n \in DOMAIN pending
    BY <1>5 DEF IsPending, Structure, RecsTyped
  <2>3. RegEffect(a, n) /\ RegDetails(a, n)
    BY <1>1, <1>3, <1>5, <2>2, RemoveRegisters, RemoveDetails
  <2>4. RemovalOf(a, n)
    BY <1>2, <1>3, <2>1, <2>2, <2>3 DEF RemovalOf
  <2> QED
    BY <2>3, <2>4, RemovalLearned, RemovalHooked DEF HookRemoval
<1> QED
  BY <1>4, <1>5

\* A component is asked for, and its frame pushed.
LEMMA AskingHooked ==
    ASSUME RInv, RInv', Straight, Straight', Structure, Counting, Learned, HooksFound, NEW m \in Comp,
           NEW D \in SUBSET Comp, D = IF stack = <<>> THEN {} ELSE {Top.node},
           stack # <<>> => Top.kind # "called", removing = <<>>, returning = {},
           Add(D, m), PushProviderFrame(m), UNCHANGED <<componentNode, removing, obtained, returning>>
    PROVE  Learned' /\ HooksFound'
<1>1. Calm /\ AddEffect(D, m) /\ AddedHooks(D, m)
  BY AskedStructure
<1> QED
  BY <1>1, AskedLearned, AskedHooked

LEMMA EnterChainHooked ==
    ASSUME Inv, RInv, RInv', Straight, Straight', Structure, Counting, Learned, HooksFound,
           NEW g \in Caller, EnterChain(g)
    PROVE  Learned' /\ HooksFound'
<1>1. stack = <<>> /\ removing = <<>> /\ returning = {}
  BY DEF Inv, EnterChain, OneChainAtATime
<1>2. UNCHANGED <<componentNode, removing, returning, obtained, regResult, regState, nodeDependsOn, providedErr>>
  BY DEF EnterChain, user, componentNode, regResult
<1>3. CASE UNCHANGED <<frames, pending>>
  <2>1. SameRecs
    BY <1>3 DEF SameRecs, Structure, RecsTyped, deps, waits
  <2> QED
    BY <1>2, <1>3, <2>1, LearnedSame, RestHooked DEF frames
<1>4. CASE Add({}, asks[g]) /\ PushProviderFrame(asks[g])
  <2>1. PICK m \in Comp : m = asks[g]
    BY DEF RInv, FInv
  <2>2. PICK D \in SUBSET Comp : D = {}
    OBVIOUS
  <2>3. Add(D, m) /\ PushProviderFrame(m) /\ D = (IF stack = <<>> THEN {} ELSE {Top.node})
    BY <1>1, <1>4, <2>1, <2>2
  <2> QED
    BY <1>1, <1>2, <2>3, AskingHooked
<1> QED
  BY <1>3, <1>4 DEF EnterChain

LEMMA CallHooked ==
    ASSUME RInv, RInv', Straight, Straight', Structure, Counting, Learned, HooksFound, NEW m \in Comp, Call(m)
    PROVE  Learned' /\ HooksFound'
<1>0. PICK x : x = Top.node
  OBVIOUS
<1>1. /\ stack # <<>> /\ Top.kind # "called" /\ removing = <<>> /\ returning = {} /\ x \in Comp
      /\ UNCHANGED <<componentNode, removing, returning, regResult, providedErr>>
  BY <1>0, TopPlace DEF Call, UserCode, Settled, componentNode
<1>2. CASE Obtain(x, m) /\ UNCHANGED <<frames, pending>>
  BY <1>0, <1>1, <1>2, ObtainLearned, RestHooked DEF frames
<1>3. CASE Add({x}, m) /\ PushProviderFrame(m) /\ UNCHANGED obtained
  <2>1. PICK D \in SUBSET Comp : D = {x}
    BY <1>1
  <2>2. Add(D, m) /\ D = (IF stack = <<>> THEN {} ELSE {Top.node})
    BY <1>0, <1>1, <1>3, <2>1
  <2> QED
    BY <1>1, <1>3, <2>2, AskingHooked
<1> QED
  BY <1>0, <1>2, <1>3 DEF Call

LEMMA GetterReturnsHooked ==
    ASSUME RInv, Straight, Structure, Learned, HooksFound, GetterReturns
    PROVE  Learned' /\ HooksFound'
<1>1. PICK m \in returning : Obtain(Top.node, m)
  BY DEF GetterReturns
<1>2. /\ removing = <<>> /\ returning' = {}
      /\ UNCHANGED <<componentNode, frames, pending, removing, stack, regResult, providedErr>>
  BY DEF GetterReturns, componentNode, frames
<1>3. stack # <<>> /\ Top.kind # "called" /\ m \in Comp
  BY <1>1 DEF Structure, StackFits
<1> QED
  BY <1>1, <1>2, <1>3, ObtainLearned, RestHooked

LEMMA StartHooked ==
    ASSUME RInv, Straight, Straight', Structure, Counting, Learned, HooksFound, StartProviding \/ ExecuteQueuedLateInit
    PROVE  HooksFound'
<1>1. CASE StartProviding
  <2>1. PICK x : x = Top.node
    OBVIOUS
  <2>2. UNCHANGED <<providedErr, regResult, pending, removing>> \/ EndOf(x)
    BY <1>1, <2>1, StartProvidingSteps
  <2> QED
    BY <2>2, RestHooked, EndOfHooked
<1>2. CASE ExecuteQueuedLateInit
  BY <1>2, RestHooked DEF ExecuteQueuedLateInit, componentNode
<1> QED
  BY <1>1, <1>2

LEMMA HookedInit == Init => HooksFound
<1> SUFFICES ASSUME Init PROVE HooksFound
  OBVIOUS
<1>1. /\ pending = [n \in {} |-> Rec(0)] /\ regState = [n \in Comp |-> "none"]
      /\ nodeHasHooks = [n \in Comp |-> FALSE]
  BY DEF Init, NodeInit, PendingInit
<1> QED
  BY <1>1 DEF HooksFound, OwnHooks, HooksFit, IsRegistered

LEMMA HookedNext ==
    ASSUME SInv, RInv', Straight, Straight', Learned, HooksFound, [Next]_vars
    PROVE  Learned' /\ HooksFound'
<1>0. Inv /\ RInv /\ Structure /\ Counting
  BY DEF SInv, AInv
<1>1. ASSUME UNCHANGED <<stack, pending, removing, returning, obtained, componentNode>> PROVE Learned' /\ HooksFound'
  <2>1. SameRecs
    BY <1>0, <1>1 DEF SameRecs, Structure, RecsTyped, deps, waits
  <2> QED
    BY <1>0, <1>1, <2>1, LearnedSame, RestHooked DEF componentNode, regResult
<1>2. ASSUME NEW g \in Caller, Ask(g, asks[g]) \/ EndChain(g) PROVE Learned' /\ HooksFound'
  BY <1>1, <1>2 DEF Ask, EndChain, frames, user
<1>3. CASE UseLateInit
  BY <1>1, <1>3 DEF UseLateInit, LateInitQueuePush
<1>4. CASE UNCHANGED vars
  BY <1>1, <1>4 DEF vars, frames, user
<1>5. CASE ProviderReturns \/ ProviderPanics \/ LateInitReturns
  BY <1>0, <1>5, ProviderEnds, LateInitEnds, EndOfLearned, EndOfHooked
<1>6. CASE StartProviding \/ ExecuteQueuedLateInit
  BY <1>0, <1>6, StartLearned, StartHooked
<1>7. CASE RemovePending
  BY <1>0, <1>7, RemovePendingHooked
<1>8. CASE UseLifecycle
  BY <1>0, <1>8, UseLifecycleHooked
<1>9. CASE GetterReturns
  BY <1>0, <1>9, GetterReturnsHooked
<1> QED
  BY <1>0, <1>2, <1>3, <1>4, <1>5, <1>6, <1>7, <1>8, <1>9, EnterChainHooked, CallHooked DEF Next, AllAnswered

HInv == SInv /\ (Straight => Learned /\ HooksFound)

LEMMA HInvInit == Init => HInv
  BY SInvInit, LearnedInit, HookedInit DEF HInv

LEMMA HInvNext == HInv /\ [Next]_vars => HInv'
  BY SInvNext, StraightBefore, HookedNext DEF HInv, SInv, AInv

\* provide.go:54, and what a Runner builds its graph from: when nothing is left to register,
\* every component that can be used depends on what it has obtained that has hooks, on nothing
\* else than it has obtained, and is registered with hooks exactly if it has some of its own
\* or such a dependency, in cycles made by late inits too.
THEOREM ComponentsAreRegisteredExactly == Spec => []RegistrationExact
<1>1. HInv => RegistrationExact
  <2> SUFFICES ASSUME HInv, DOMAIN pending = {}, NEW d \in Comp, Usable(d)
               PROVE  /\ {m \in obtained[d] : regState[m] = "withLcHooks"} \subseteq nodeDependsOn[d]
                      /\ nodeDependsOn[d] \subseteq obtained[d]
                      /\ regState[d] = "withLcHooks" <=>
                            nodeHasHooks[d] \/ \E m \in nodeDependsOn[d] : regState[m] = "withLcHooks"
    BY DEF RegistrationExact
  <2>1. IsRegistered(d) /\ ~providedErr[d] /\ Learned /\ HooksFound
    BY DEF Usable, HInv, Straight
  <2>2. \A T \in FreeSets : T = {}
    BY DEF FreeSets
  <2>3. CASE regState[d] = "withLcHooks"
    <3>1. nodeHasHooks[d] \/ \E m \in nodeDependsOn[d] : Hooking(m)
      BY <2>1, <2>3 DEF HooksFound, HooksFit
    <3>2. nodeHasHooks[d] \/ \E m \in nodeDependsOn[d] : regState[m] = "withLcHooks"
      BY <2>2, <3>1 DEF Hooking
    <3> QED
      BY <2>1, <2>3, <3>2 DEF Learned, ObtainedAreKept, DepsAreObtained
  <2>4. CASE regState[d] # "withLcHooks"
    <3>1. ~nodeHasHooks[d] /\ FreeOfHooks(nodeDependsOn[d])
      BY <2>1, <2>4 DEF HooksFound, HooksFit
    <3>2. \A m \in nodeDependsOn[d] : regState[m] # "withLcHooks"
      BY <3>1 DEF FreeOfHooks, Plain, IsPending
    <3> QED
      BY <2>1, <2>4, <3>1, <3>2 DEF Learned, ObtainedAreKept, DepsAreObtained
  <2> QED
    BY <2>3, <2>4
<1>2. Spec => []HInv
  BY HInvInit, HInvNext, PTL DEF Spec
<1> QED
  BY <1>1, <1>2, PTL

-----------------------------------------------------------------------------
(* Where at most one component has used late inits, counts are exact enough. *)

LateInits == {n \in Comp : lateInitsAdded[n] # 0}
Lone == \A m, k \in LateInits : m = k
AllFinished == {e \in DOMAIN pending : ~Unfinished(e)}

\* An unfinished component that a finished one depends on has used late inits.
WaitsForLateInits == \A e \in AllFinished : \A m \in deps(e) : Unfinished(m) => m \in LateInits

\* A walk that starts among these counts one more at the most, and then it has visited
\* the component with late inits.
Lead(l) == \A m \in l.todo : Unfinished(m) => m \in LateInits
AtMost(l, v) ==
    /\ v \in Outcomes /\ l.visited \subseteq v.visited
    /\ v.count <= l.count \/ (v.count <= l.count + 1 /\ \E k \in LateInits : k \in v.visited \ l.visited)
Few(l) == Lead(l) => \A v \in CountLoop[l] : AtMost(l, v)

LEMMA VisitCountsFew ==
    ASSUME RecsTyped, WaitsForLateInits, NEW l \in Loops, Lead(l), NEW m \in l.todo, NEW w \in Visited(CountLoop, l, m),
           \A k \in Loops : l.visited \subseteq k.visited /\ k.visited # l.visited => Few(k)
    PROVE  /\ w \in Outcomes /\ l.visited \subseteq w.visited
           /\ w.count <= 0 \/ (w.count <= 1 /\ \E k \in LateInits : k \in w.visited \ l.visited)
<1>1. CASE m \in l.visited \/ RecOf(m).waitsForDepsCount = 0
  <2>1. w = Outcome(0, l.visited \cup {m})
    BY <1>1 DEF Visited
  <2>2. w.visited = l.visited \cup {m} /\ w.count = 0 /\ w \in Outcomes
    BY <2>1, LoopsTyped DEF Outcome
  <2> QED
    BY <2>2
<1>2. CASE /\ ~(m \in l.visited \/ RecOf(m).waitsForDepsCount = 0)
           /\ RecOf(m).waitsForDepsCount = waitsForOwnFrames
  <2>1. w = Outcome(1, l.visited \cup {m})
    BY <1>2 DEF Visited
  <2>2. w.visited = l.visited \cup {m} /\ w.count = 1 /\ w \in Outcomes
    BY <2>1, LoopsTyped DEF Outcome
  <2>3. m \in DOMAIN pending /\ RecOf(m) = pending[m]
    BY <1>2, LoopsTyped
  <2>4. m \in LateInits
    BY <1>2, <2>3 DEF Lead, Unfinished, IsPending, waits
  <2> QED
    BY <1>2, <2>2, <2>4
<1>3. CASE /\ ~(m \in l.visited \/ RecOf(m).waitsForDepsCount = 0)
           /\ RecOf(m).waitsForDepsCount # waitsForOwnFrames
  <2> DEFINE k == Loop(RecOf(m).waitsForDepsCount, deps(m), l.visited \cup {m}, 0)
  <2>1. k \in Loops /\ waits(m) \in Nat \ {0} /\ RecOf(m) = pending[m] /\ m \in DOMAIN pending
    BY <1>3, LoopsTyped
  <2>2. w \in CountLoop[k]
    BY <1>3 DEF Visited
  <2>3. k.visited = l.visited \cup {m} /\ k.todo = deps(m) /\ k.count = 0
    BY <2>1 DEF Loop
  <2> HIDE DEF k
  <2>4. m \in AllFinished
    BY <2>1 DEF AllFinished, Unfinished, waitsForOwnFrames
  <2>5. Lead(k)
    BY <2>3, <2>4 DEF Lead, WaitsForLateInits
  <2>6. AtMost(k, w)
    BY <1>3, <2>1, <2>2, <2>3, <2>5 DEF Few
  <2> QED
    BY <2>3, <2>6 DEF AtMost
<1> QED
  BY <1>1, <1>2, <1>3

LEMMA LoopCountsFew ==
    ASSUME RecsTyped, WaitsForLateInits, Lone, NEW l \in Loops,
           \A k \in Calls(l) : Few(k)
    PROVE  Few(l)
<1> SUFFICES ASSUME Lead(l), NEW v \in CountLoop[l] PROVE AtMost(l, v)
  BY DEF Few
<1>0. CountLoop[l] = Body(CountLoop, l)
  BY CountLoopUnfolds
<1>1. CASE Ends(l)
  <2>1. v = Outcome(l.count, l.visited)
    BY <1>0, <1>1 DEF Body
  <2> QED
    BY <2>1 DEF AtMost, Outcome, Outcomes, Loops
<1>2. CASE ~Ends(l)
  <2>1. PICK m \in l.todo : \E w \in Visited(CountLoop, l, m) : v \in CountLoop[LoopAfter(l, m, w)]
    BY <1>0, <1>2 DEF Body
  <2>2. PICK w \in Visited(CountLoop, l, m) : v \in CountLoop[LoopAfter(l, m, w)]
    BY <2>1
  <2>3. /\ w \in Outcomes /\ l.visited \subseteq w.visited
        /\ w.count <= 0 \/ (w.count <= 1 /\ \E k \in LateInits : k \in w.visited \ l.visited)
    BY VisitCountsFew DEF Calls
  <2> DEFINE k == LoopAfter(l, m, w)
  <2>4. k \in Loops
    BY <2>3, LoopsTyped
  <2>5. k.visited = w.visited /\ k.todo = l.todo \ {m} /\ k.count = l.count + w.count
    BY DEF LoopAfter, Loop
  <2> HIDE DEF k
  <2>6. AtMost(k, v)
    <3>1. Few(k) /\ Lead(k)
      BY <2>3, <2>4, <2>5 DEF Lead, Calls
    <3> QED
      BY <2>2, <3>1 DEF Few, k
  <2>7. l.count \in Nat /\ w.count \in Nat /\ v.count \in Nat
    BY <2>3, <2>6 DEF Loops, Outcomes, AtMost
  <2>8. v \in Outcomes /\ w.visited \subseteq v.visited
    BY <2>5, <2>6 DEF AtMost
  <2>9. CASE \A j \in LateInits : j \notin v.visited \ l.visited
    <3>1. w.count <= 0 /\ v.count <= k.count
      BY <2>3, <2>5, <2>6, <2>8, <2>9 DEF AtMost
    <3> QED
      BY <2>3, <2>5, <2>7, <2>8, <3>1 DEF AtMost
  <2>10. ASSUME NEW j \in LateInits, j \in v.visited \ l.visited PROVE v.count <= l.count + 1
    <3>1. CASE j \in w.visited
      <4>1. \A i \in LateInits : i \notin v.visited \ k.visited
        BY <2>5, <3>1 DEF Lone
      <4>2. v.count <= k.count /\ w.count <= 1
        BY <2>3, <2>7, <2>6, <4>1 DEF AtMost
      <4> QED
        BY <2>5, <2>7, <4>2
    <3>2. CASE j \notin w.visited
      <4>1. \A i \in LateInits : i \notin w.visited \ l.visited
        BY <3>2 DEF Lone
      <4>2. v.count <= k.count + 1 /\ w.count <= 0
        <5>1. k.count \in Nat
          BY <2>5, <2>7
        <5> QED
          BY <2>3, <2>7, <2>6, <4>1, <5>1 DEF AtMost
      <4> QED
        BY <2>5, <2>7, <4>2
    <3> QED
      BY <3>1, <3>2
  <2> QED
    BY <2>3, <2>8, <2>9, <2>10 DEF AtMost
<1> QED
  BY <1>1, <1>2

LEMMA WalksCountFew ==
    ASSUME RecsTyped, WaitsForLateInits, Lone
    PROVE  \A l \in Loops : Few(l)
<1> DEFINE G == {l \in Loops : Few(l)}
<1>1. Inductive(G)
  BY LoopCountsFew DEF Inductive, Calls
<1>2. Loops \subseteq G
  <2> HIDE DEF G
  <2> QED
    BY <1>1, LoopInduction
<1> QED
  BY <1>2

\* A component that is not pending, or has been visited, counts for nothing.
LEMMA VoidWalk ==
    ASSUME RecsTyped, NEW m \in Comp, NEW n \in Comp, m \notin DOMAIN pending \/ m = n, Cardinality(Comp) \in Nat \ {0},
           NEW v \in CountLoop[Loop(Cardinality(Comp), {m}, {n}, 0)]
    PROVE  v.count = 0
<1> DEFINE l == Loop(Cardinality(Comp), {m}, {n}, 0)
<1>1. l \in Loops /\ l.visited = {n} /\ l.todo = {m} /\ l.limit = Cardinality(Comp) /\ l.count = 0
  BY DEF Loop, Loops
<1>2. v \in CountLoop[l]
  OBVIOUS
<1> HIDE DEF l
<1>3. CountLoop = [i \in Loops |-> Body(CountLoop, i)]
  BY CountLoopUnfolds
<1>4. ~Ends(l)
  BY <1>1 DEF Ends
<1>5. PICK j \in l.todo : \E w \in Visited(CountLoop, l, j) : v \in CountLoop[LoopAfter(l, j, w)]
  <2>1. v \in Body(CountLoop, l)
    BY <1>1, <1>2, <1>3
  <2> QED
    BY <1>4, <2>1 DEF Body
<1>6. j = m
  BY <1>1
<1>7. PICK w \in Visited(CountLoop, l, m) : v \in CountLoop[LoopAfter(l, m, w)]
  BY <1>5, <1>6
<1>8. w = Outcome(0, l.visited \cup {m})
  <2>1. m \in l.visited \/ RecOf(m).waitsForDepsCount = 0
    BY <1>1 DEF RecOf, IsPending, Rec
  <2> QED
    BY <2>1 DEF Visited
<1>9. w \in Outcomes /\ w.count = 0
  BY <1>1, <1>8 DEF Outcome, Outcomes
<1> DEFINE k == LoopAfter(l, m, w)
<1>10. k \in Loops
  BY <1>1, <1>9, LoopsTyped
<1>11. k.todo = {} /\ k.count = 0
  BY <1>1, <1>9 DEF LoopAfter, Loop
<1> HIDE DEF k
<1>12. Ends(k)
  BY <1>11 DEF Ends
<1>13. v = Outcome(k.count, k.visited)
  <2>1. v \in CountLoop[k]
    BY <1>7 DEF k
  <2> QED
    BY <1>3, <1>10, <1>12, <2>1 DEF Body
<1> QED
  BY <1>11, <1>13 DEF Outcome

LEMMA TotalOfOnes ==
    ASSUME NEW A \in SUBSET Comp, NEW f \in [A -> 0 .. Cardinality(Comp)],
           NEW B \in SUBSET A, \A m \in A : f[m] <= 1 /\ (m \notin B => f[m] = 0)
    PROVE  Cardinality(B) \in Nat /\ Total(f) <= Cardinality(B)
<1> DEFINE places == {p \in (DOMAIN f) \X (1 .. Cardinality(Comp)) : p[2] <= f[p[1]]}
           g == [p \in places |-> p[1]]
<1>1. Cardinality(Comp) \in Nat /\ IsFiniteSet(B) /\ DOMAIN f = A /\ Cardinality(B) \in Nat
  BY CompAssumption, FS_Subset, FS_CardinalityType
<1>2. ASSUME NEW p \in places PROVE p[1] \in B /\ p = <<p[1], 1>>
  <2>1. p \in A \X (1 .. Cardinality(Comp)) /\ p[2] <= f[p[1]]
    BY <1>1
  <2>2. p = <<p[1], p[2]>> /\ p[1] \in A /\ p[2] \in 1 .. Cardinality(Comp)
    BY <2>1
  <2>3. f[p[1]] \in 0 .. Cardinality(Comp)
    BY <2>2
  <2>4. f[p[1]] <= 1 /\ (p[1] \notin B => f[p[1]] = 0)
    BY <2>2
  <2>5. p[2] = 1 /\ f[p[1]] # 0
    BY <1>1, <2>1, <2>2, <2>3, <2>4
  <2> QED
    BY <2>2, <2>4, <2>5
<1> HIDE DEF places
<1>3. g \in Injection(places, B)
  <2>1. \A p, q \in places : p[1] = q[1] => p = q
    BY <1>2
  <2>2. g \in [places -> B]
    BY <1>2
  <2> QED
    BY <2>1, <2>2 DEF Injection, IsInjective
<1>4. Cardinality(places) <= Cardinality(B)
  BY <1>1, <1>3, FS_Injection
<1> QED
  BY <1>1, <1>4 DEF Total, places

\* So a component waits for no more than it has pending dependencies, and the one with late
\* inits for none.
LEMMA WaitsFor ==
    ASSUME RecsTyped, NoneZero, WaitsForLateInits, Lone, NEW n \in DOMAIN pending, NEW w \in WaitsForDeps(n),
           \A m \in deps(n) : Unfinished(m) => m \in LateInits
    PROVE  /\ w <= Cardinality((deps(n) \cap DOMAIN pending) \ {n})
           /\ n \in LateInits => w = 0
<1>1. n \in Comp /\ deps(n) \in SUBSET Comp /\ w \in Nat
  BY WaitsCover DEF RecsTyped, RecType, deps
<1>2. Cardinality(Comp) \in Nat \ {0}
  BY <1>1, CompAssumption, FS_CardinalityType, FS_EmptySet
<1>3. PICK f \in [deps(n) -> 0 .. Cardinality(Comp)] :
          /\ w = Total(f)
          /\ \A m \in deps(n) : f[m] \in CountDepsTransitivelyWaitingForOwnFrames(m, n)
  BY DEF WaitsForDeps, deps
<1>4. ASSUME NEW m \in deps(n)
      PROVE  /\ f[m] <= 1 /\ f[m] \in Nat /\ m \in Comp
             /\ m \notin DOMAIN pending \/ m = n \/ n \in LateInits => f[m] = 0
  <2> DEFINE l == Loop(Cardinality(Comp), {m}, {n}, 0)
  <2>1. m \in Comp /\ f[m] \in Nat
    BY <1>1, <1>2, <1>3
  <2>2. l \in Loops /\ l.visited = {n} /\ l.todo = {m} /\ l.count = 0
    BY <1>1, <1>2, <2>1 DEF Loop, Loops
  <2>3. PICK v \in CountLoop[l] : v.count = f[m]
    BY <1>3 DEF CountDepsTransitivelyWaitingForOwnFrames
  <2>4. m \notin DOMAIN pending \/ m = n => f[m] = 0
    BY <1>1, <1>2, <2>1, <2>3, VoidWalk
  <2> HIDE DEF l
  <2>5. Lead(l)
    BY <2>2 DEF Lead
  <2>6. AtMost(l, v)
    BY <2>2, <2>3, <2>5, WalksCountFew DEF Few
  <2>7. n \in LateInits => f[m] = 0
    <3>1. n \in LateInits => \A k \in LateInits : k \notin v.visited \ l.visited
      BY <2>2 DEF Lone
    <3> QED
      BY <2>1, <2>2, <2>3, <2>6, <3>1 DEF AtMost
  <2> QED
    BY <2>1, <2>2, <2>3, <2>4, <2>6, <2>7 DEF AtMost
<1> DEFINE B == (deps(n) \cap DOMAIN pending) \ {n}
<1>5. w <= Cardinality(B)
  <2>1. B \in SUBSET deps(n) /\ \A m \in deps(n) : f[m] <= 1 /\ (m \notin B => f[m] = 0)
    BY <1>4
  <2> HIDE DEF B
  <2> QED
    BY <1>1, <1>3, <2>1, TotalOfOnes
<1>6. ASSUME n \in LateInits PROVE w = 0
  <2>1. {} \in SUBSET deps(n) /\ \A m \in deps(n) : f[m] <= 1 /\ (m \notin {} => f[m] = 0)
    BY <1>4, <1>6
  <2>2. Total(f) <= Cardinality({})
    BY <1>1, <2>1, TotalOfOnes
  <2> QED
    BY <1>1, <1>3, <2>2, FS_EmptySet
<1> QED
  BY <1>5, <1>6

\* A finished component waits for no more than it has pending dependencies, until it is about
\* to be removed; the one with late inits is, when it is finished; no others wait for each other.
Limits ==
    /\ WaitsForLateInits
    /\ \A e \in AllFinished \ Leaving : waits(e) <= Cardinality((deps(e) \cap DOMAIN pending) \ {e})
    /\ LateInits \cap AllFinished \subseteq Leaving
    /\ \A S \in SUBSET (AllFinished \ LateInits) : S # {} => \E e \in S : deps(e) \cap S = {}

\* A component without late inits whose provider has returned is finished, or about to fail.
Begun ==
    /\ \A n \in Comp : Unfinished(n) => n \in LateInits \/ providingState[n] # "provided" \/ n \in Failing
    /\ \A n \in Comp : InLateInit(n) # {} => n \in LateInits
    /\ \A n \in Comp : ~Known(n) => providingState[n] # "provided"

LEMMA NoneLeftBehind ==
    ASSUME RecsTyped, SchedulesFit, Limits, removing = <<>>
    PROVE  LeftBehind = {}
<1> SUFFICES ASSUME NEW S \in SUBSET {n \in DOMAIN pending : pending[n].waitsForDepsCount # waitsForOwnFrames},
                    \A n \in S : pending[n].dependsOn \cap DOMAIN pending \subseteq S, S # {}
             PROVE  FALSE
  BY DEF LeftBehind
<1>1. Leaving = {}
  BY NothingScheduled
<1>2. S \in SUBSET (AllFinished \ LateInits)
  BY <1>1 DEF Limits, AllFinished, Unfinished, waits
<1>3. PICK e \in S : deps(e) \cap S = {}
  BY <1>2 DEF Limits
<1>4. (deps(e) \cap DOMAIN pending) \ {e} = {}
  BY <1>3 DEF deps
<1>5. waits(e) <= 0
  BY <1>1, <1>2, <1>4, FS_EmptySet DEF Limits
<1>6. waits(e) \in Nat \cup {waitsForOwnFrames} /\ waits(e) # waitsForOwnFrames
  BY DEF RecsTyped, RecType, waits
<1>7. waits(e) = 0
  BY <1>5, <1>6
<1> QED
  BY <1>1, <1>7 DEF SchedulesFit

\* Calm, whatever is scheduled.
Grows ==
    /\ removing = <<>> /\ DOMAIN pending \subseteq DOMAIN pending'
    /\ \A k \in DOMAIN pending' \ DOMAIN pending : ~Known(k) /\ Unfinished(k)'
    /\ \A k \in DOMAIN pending : ~Unfinished(k) => ~Unfinished(k)' /\ deps(k)' = deps(k)

LEMMA LimitsKept ==
    ASSUME RecsTyped, RecsTyped', LinksFit, Limits, Grows,
           \A e \in DOMAIN pending : waits(e)' = waits(e) /\ (Unfinished(e)' <=> Unfinished(e)),
           LateInits \subseteq LateInits', \A n \in LateInits' : n \in LateInits \/ Unfinished(n)
    PROVE  Limits'
<1>1. removing = <<>> /\ Leaving = {} /\ DOMAIN pending \subseteq DOMAIN pending'
  BY NothingScheduled DEF Grows
<1>2. \A e \in AllFinished' : e \in AllFinished /\ e \in DOMAIN pending /\ deps(e)' = deps(e) /\ waits(e)' = waits(e)
  BY DEF AllFinished, Grows
<1>3. ASSUME NEW e \in AllFinished', NEW m \in deps(e)', Unfinished(m)' PROVE m \in LateInits'
  <2>1. m \in deps(e) /\ Known(m) /\ e \in AllFinished
    BY <1>2 DEF LinksFit
  <2>2. m \in DOMAIN pending
    BY <1>3, <2>1 DEF Grows, Unfinished, IsPending
  <2> QED
    BY <1>3, <2>1, <2>2 DEF Limits, WaitsForLateInits
<1>4. ASSUME NEW e \in AllFinished' PROVE waits(e)' <= Cardinality((deps(e)' \cap DOMAIN pending') \ {e})
  <2>1. PICK X : X = (deps(e) \cap DOMAIN pending) \ {e}
    OBVIOUS
  <2>2. PICK Y : Y = (deps(e)' \cap DOMAIN pending') \ {e}
    OBVIOUS
  <2>3. X \subseteq Y /\ Y \subseteq Comp
    BY <1>1, <1>2, <2>1, <2>2 DEF RecsTyped
  <2>4. IsFiniteSet(Y) /\ IsFiniteSet(X) /\ Cardinality(X) <= Cardinality(Y)
    BY <2>3, CompAssumption, FS_Subset
  <2>5. Cardinality(X) \in Nat /\ Cardinality(Y) \in Nat
    BY <2>4, FS_CardinalityType
  <2>6. waits(e) <= Cardinality(X)
    BY <1>1, <1>2, <2>1 DEF Limits
  <2>7. waits(e) \in Int
    BY <1>2 DEF RecsTyped, RecType, waits, waitsForOwnFrames
  <2> QED
    BY <1>2, <2>2, <2>4, <2>5, <2>6, <2>7
<1>5. LateInits' \cap AllFinished' \subseteq Leaving'
  BY <1>1, <1>2 DEF Limits, AllFinished
<1>6. ASSUME NEW S \in SUBSET (AllFinished' \ LateInits'), S # {} PROVE \E e \in S : deps(e)' \cap S = {}
  <2>1. S \in SUBSET (AllFinished \ LateInits)
    BY <1>2
  <2>2. PICK e \in S : deps(e) \cap S = {}
    BY <1>6, <2>1 DEF Limits
  <2> QED
    BY <1>2, <2>2
<1> QED
  BY <1>3, <1>4, <1>5, <1>6 DEF Limits, WaitsForLateInits

LEMMA BegunKept ==
    ASSUME Begun, removing = <<>>, LateInits \subseteq LateInits',
           \A n \in Comp : Unfinished(n)' => Unfinished(n) \/ ~Known(n),
           \A n \in Comp : Known(n) => Known(n)',
           \A n \in Comp : providingState'[n] = "provided" => providingState[n] = "provided",
           \A n \in Comp : InLateInit(n)' # {} => InLateInit(n) # {} \/ n \in LateInits
    PROVE  Begun'
<1>1. Failing = {}
  BY NothingScheduled
<1>2. \A n \in Comp : Unfinished(n)' => n \in LateInits' \/ providingState'[n] # "provided"
  BY <1>1 DEF Begun
<1>3. \A n \in Comp : InLateInit(n)' # {} => n \in LateInits'
  BY DEF Begun
<1>4. \A n \in Comp : ~Known(n)' => providingState'[n] # "provided"
  BY DEF Begun
<1> QED
  BY <1>2, <1>3, <1>4 DEF Begun

LEMMA BoundsStay ==
    ASSUME Limits, Begun, Leaving' = Leaving, Failing' = Failing,
           UNCHANGED <<pending, stack, providingState, regState, lateInitsAdded>>
    PROVE  Limits' /\ Begun'
<1>1. LateInits' = LateInits /\ AllFinished' = AllFinished
  BY DEF LateInits, AllFinished, Unfinished, IsPending, waits
<1>2. \A n : /\ Unfinished(n)' <=> Unfinished(n)
             /\ Known(n)' <=> Known(n)
             /\ InLateInit(n)' = InLateInit(n)
             /\ waits(n)' = waits(n) /\ deps(n)' = deps(n)
  BY DEF Unfinished, Known, IsPending, IsRegistered, InLateInit, waits, deps
<1>3. Limits'
  BY <1>1, <1>2 DEF Limits, WaitsForLateInits
<1>4. Begun'
  BY <1>1, <1>2 DEF Begun
<1> QED
  BY <1>3, <1>4

LEMMA BoundsSame ==
    ASSUME Limits, Begun, UNCHANGED <<pending, removing, stack, providingState, regState, lateInitsAdded>>
    PROVE  Limits' /\ Begun'
<1>1. Leaving' = Leaving /\ Failing' = Failing
  BY DEF Leaving, Failing, Scheduled
<1> QED
  BY <1>1, BoundsStay

LEMMA SettlingBounds ==
    ASSUME RInv, RInv', Straight, Structure, Lone, Limits, Begun, NEW x, FrameEnds(x), x \in DOMAIN pending,
           totalFramesCount'[x] = 0, OnLastNodeFramePoppedWithNoErr(x), lateInitsAdded' = lateInitsAdded
    PROVE  /\ Limits'
           /\ \A n \in Comp : Unfinished(n)' => n # x /\ Unfinished(n)
<1>1. /\ RecsTyped /\ SchedulesFit /\ LinksFit /\ ProvidedBelow /\ Leaving = {} /\ Failing = {}
      /\ removing = <<>> /\ stack # <<>> /\ stack' = Below /\ x = Top.node /\ x \in Comp
  BY NothingScheduled DEF Structure, FrameEnds
<1>2. NoneZero
  BY <1>1 DEF SchedulesFit, NoneZero
<1>3. PICK w \in WaitsForDeps(x) :
          /\ SettleRecs(x) /\ waits(x)' = w
          /\ removing' = ToRemove(IF w = 0 THEN {RemoveArgs(x, FALSE, FALSE, FALSE)} ELSE {}, removing)
  BY <1>1, <1>2, Settles
<1>4. LateInits' = LateInits
  BY DEF LateInits
<1>5. ASSUME NEW m \in deps(x), Unfinished(m), m \notin LateInits PROVE FALSE
  <2>1. m \in DOMAIN pending /\ m \in Comp /\ x \in pending[m].dependents
    BY <1>1, <1>5 DEF LinksFit, Unfinished, IsPending, RecsTyped
  <2>2. providingState[m] # "provided"
    BY <1>1, <1>5, <2>1 DEF Begun
  <2>3. PICK i, j \in 1 .. Len(stack) : i < j /\ stack[i].node = x
    BY <1>1, <2>1, <2>2 DEF ProvidedBelow
  <2>4. /\ Len(stack) \in Nat \ {0} /\ Len(stack') = Len(stack) - 1
        /\ \A k \in 1 .. Len(stack') : stack'[k] = stack[k]
    BY <1>1, TopPlace, StackShrinks
  <2>5. i \in FramesIn(stack', x)
    BY <2>3, <2>4 DEF FramesIn
  <2>6. Cardinality(FramesIn(stack', x)) = 0 /\ IsFiniteSet(FramesIn(stack', x))
    <3>1. totalFramesCount'[x] = Cardinality(FramesIn(stack', x)) + queuedLateInitsCount'[x] /\ queuedLateInitsCount'[x] \in Nat
      BY <1>1, Zenon DEF RInv, FInv, Counted
    <3>2. Len(stack') \in Nat
      BY <2>4
    <3>3. IsFiniteSet(FramesIn(stack', x)) /\ Cardinality(FramesIn(stack', x)) \in Nat
      BY <3>2, PlacesAreFinite
    <3> QED
      BY <3>1, <3>3
  <2> QED
    BY <2>5, <2>6, FS_EmptySet
<1>6. /\ w \in Nat /\ w <= Cardinality((deps(x) \cap DOMAIN pending) \ {x})
      /\ x \in LateInits => w = 0
  <2>1. w \in Nat
    BY <1>1, <1>2, WaitsCover
  <2> QED
    BY <1>1, <1>2, <1>5, <2>1, WaitsFor DEF Limits
<1>7. /\ DOMAIN pending' = DOMAIN pending /\ ~Unfinished(x)' /\ x \in AllFinished'
      /\ \A n \in DOMAIN pending : /\ deps(n)' = deps(n)
                                   /\ n # x => waits(n)' = waits(n) /\ (Unfinished(n)' <=> Unfinished(n))
      /\ \A n : Unfinished(n)' => n # x /\ Unfinished(n)
      /\ \A n \in AllFinished' : n = x \/ n \in AllFinished
  <2>1. /\ DOMAIN pending' = DOMAIN pending /\ waits(x)' # waitsForOwnFrames
        /\ \A n \in DOMAIN pending : deps(n)' = deps(n) /\ (n # x => waits(n)' = waits(n))
    BY <1>3, <1>6 DEF SettleRecs, waitsForOwnFrames
  <2> QED
    BY <2>1 DEF Unfinished, IsPending, AllFinished
<1>8. w = 0 => x \in Leaving'
  <2> SUFFICES ASSUME w = 0 PROVE x \in Leaving'
    OBVIOUS
  <2>1. PICK A : A = {RemoveArgs(x, FALSE, FALSE, FALSE)}
    OBVIOUS
  <2>2. removing' = ToRemove(A, <<>>)
    BY <1>1, <1>3, <2>1
  <2>3. Leaving' = {n \in DOMAIN pending' : \E c \in A : c.node = n}
    BY <2>2, OneScheduled
  <2> QED
    BY <1>7, <2>1, <2>3 DEF RemoveArgs
<1>9. WaitsForLateInits'
  <2>1. ASSUME NEW e \in AllFinished', NEW m \in deps(e)', Unfinished(m)' PROVE m \in LateInits
    <3>1. Unfinished(m) /\ m \in deps(e)
      BY <1>7, <2>1 DEF AllFinished
    <3> QED
      BY <1>5, <1>7, <3>1 DEF Limits, WaitsForLateInits
  <2> QED
    BY <1>4, <2>1 DEF WaitsForLateInits
<1>10. ASSUME NEW e \in AllFinished' \ Leaving'
       PROVE  waits(e)' <= Cardinality((deps(e)' \cap DOMAIN pending') \ {e})
  <2>1. e \in DOMAIN pending /\ deps(e)' = deps(e) /\ DOMAIN pending' = DOMAIN pending
    BY <1>7 DEF AllFinished
  <2>2. waits(e)' <= Cardinality((deps(e) \cap DOMAIN pending) \ {e})
    <3>1. CASE e = x
      BY <1>3, <1>6, <3>1
    <3>2. CASE e # x
      <4>1. e \in AllFinished \ Leaving /\ waits(e)' = waits(e)
        BY <1>1, <1>7, <2>1, <3>2
      <4> QED
        BY <4>1 DEF Limits
    <3> QED
      BY <3>1, <3>2
  <2> QED
    BY <2>1, <2>2
<1>11. LateInits' \cap AllFinished' \subseteq Leaving'
  BY <1>1, <1>4, <1>6, <1>7, <1>8 DEF Limits
<1>12. ASSUME NEW S \in SUBSET (AllFinished' \ LateInits'), S # {} PROVE \E e \in S : deps(e)' \cap S = {}
  <2>1. \A e \in S : deps(e)' = deps(e)
    BY <1>7 DEF AllFinished
  <2>2. CASE S \in SUBSET (AllFinished \ LateInits)
    BY <1>12, <2>1, <2>2 DEF Limits
  <2>3. CASE S \notin SUBSET (AllFinished \ LateInits)
    <3>1. x \in S /\ x \notin AllFinished /\ x \notin LateInits
      BY <1>4, <1>7, <2>3
    <3>2. Unfinished(x)
      BY <3>1 DEF AllFinished
    <3>3. x \notin deps(x)
      BY <1>5, <3>1, <3>2
    <3>4. CASE S \ {x} = {}
      BY <2>1, <3>1, <3>3, <3>4
    <3>5. CASE S \ {x} # {}
      <4>1. S \ {x} \in SUBSET (AllFinished \ LateInits)
        BY <1>4, <1>7
      <4>2. PICK e \in S \ {x} : deps(e) \cap (S \ {x}) = {}
        BY <3>5, <4>1 DEF Limits
      <4>3. x \notin deps(e)
        BY <3>1, <3>2, <4>1 DEF Limits, WaitsForLateInits
      <4> QED
        BY <2>1, <4>2, <4>3
    <3> QED
      BY <3>4, <3>5
  <2> QED
    BY <2>2, <2>3
<1> QED
  BY <1>7, <1>9, <1>10, <1>11, <1>12 DEF Limits

LEMMA SameRecsGrow ==
    ASSUME SameRecs, removing = <<>>
    PROVE  /\ RecsTyped' /\ Grows /\ \A n : Unfinished(n)' <=> Unfinished(n)
           /\ \A e \in DOMAIN pending : waits(e)' = waits(e)
           /\ regState' = regState => \A n : Known(n)' <=> Known(n)
<1>1. \A n : Unfinished(n)' <=> Unfinished(n)
  BY DEF SameRecs, Unfinished, IsPending
<1>2. Grows
  BY <1>1 DEF Grows, SameRecs, deps
<1>3. regState' = regState => \A n : Known(n)' <=> Known(n)
  BY DEF SameRecs, Known, IsPending, IsRegistered
<1> QED
  BY <1>1, <1>2, <1>3 DEF SameRecs

LEMMA EndOfBounds ==
    ASSUME RInv, RInv', Straight, Straight', Structure, EndsFit, Lone, Limits, Begun, NEW x, EndOf(x)
    PROVE  Limits' /\ Begun'
<1>1. /\ FrameEnds(x) /\ EndsAlone(x) /\ x \in Comp /\ removing = <<>> /\ x = Top.node /\ stack # <<>> /\ stack' = Below
      /\ providingState' = [providingState EXCEPT ![x] = "provided"]
      /\ UNCHANGED <<lateInitsAdded, regState>>
  BY DEF EndOf, FrameEnds, EndsAlone
<1>2. RecsTyped /\ LinksFit /\ StackFits /\ Leaving = {} /\ Failing = {} /\ LateInits' = LateInits
  BY <1>1, NothingScheduled DEF Structure, LateInits
<1>3. /\ stack \in Seq(Frames) /\ Len(stack) \in 1 .. Len(stack) /\ Top = stack[Len(stack)]
      /\ Len(stack) \in Nat \ {0} /\ Len(stack') = Len(stack) - 1
      /\ \A i \in 1 .. Len(stack') : stack'[i] = stack[i] /\ i \in 1 .. Len(stack) - 1
  BY <1>1, TopPlace, StackShrinks
<1>4. \A n \in Comp : InLateInit(n)' \subseteq InLateInit(n)
  BY <1>1, <1>3, PlacesBelow DEF InLateInit
<1>5. Known(x) /\ \A n \in Comp \ {x} : providingState'[n] = providingState[n]
  <2>1. providingState \in [Comp -> {"none", "inProgress", "provided"}]
    BY DEF RInv, Types
  <2> QED
    BY <1>1, <1>2, <1>3, <2>1 DEF StackFits
<1>6. CASE pending' = pending
  <2>1. SameRecs
    BY <1>2, <1>6 DEF SameRecs, RecsTyped, waits, deps
  <2>2. /\ RecsTyped' /\ Grows /\ \A n : (Unfinished(n)' <=> Unfinished(n)) /\ (Known(n)' <=> Known(n))
        /\ \A e \in DOMAIN pending : waits(e)' = waits(e)
    BY <1>1, <2>1, SameRecsGrow
  <2>3. Limits'
    BY <1>2, <2>2, LimitsKept
  <2>5. ASSUME Unfinished(x)' PROVE x \in LateInits \/ x \in Failing'
    <3>1. CASE Succeeds(x)
      <4>1. ~PopsLastFrame
        <5>1. CASE PopsLastFrame
          <6>1. OnLastNodeFramePoppedWithNoErr(x) /\ x \in DOMAIN pending
            BY <2>2, <2>5, <3>1, <5>1 DEF Succeeds, OnLastNodeFramePoppedWithNoErr, Unfinished, IsPending
          <6>2. totalFramesCount'[x] = 0
            BY <1>1, <5>1 DEF PopsLastFrame
          <6> QED
            BY <1>1, <2>5, <6>1, <6>2, SettlingBounds
        <5> QED
          BY <5>1
      <4>2. totalFramesCount'[x] # 0
        BY <1>1, <4>1 DEF PopsLastFrame
      <4>3. CASE queuedLateInitsCount'[x] # 0
        BY <1>1, <4>3 DEF EndsAlone, EndsFit, LateInits
      <4>4. CASE queuedLateInitsCount'[x] = 0
        <5>1. FramesIn(stack', x) # {}
          <6>1. totalFramesCount'[x] = Cardinality(FramesIn(stack', x)) + queuedLateInitsCount'[x]
            BY <1>1, Zenon DEF RInv, FInv, Counted
          <6>2. FramesIn(stack', x) = {} => Cardinality(FramesIn(stack', x)) = 0
            BY FS_EmptySet
          <6> QED
            BY <4>2, <4>4, <6>1, <6>2
        <5>2. PICK i \in 1 .. Len(stack') : stack'[i].node = x
          BY <5>1 DEF FramesIn
        <5>3. i \in 1 .. Len(stack) - 1 /\ stack'[i] = stack[i] /\ stack[i].kind # "called" /\ stack[i].node = x
          BY <1>2, <1>3, <5>2 DEF StackFits
        <5>4. i \in 1 .. Len(stack) /\ stack[i] \in Frames
          BY <1>3, <5>3
        <5>5. stack[i] = Frame(x, stack[i].kind) /\ stack[i].kind \in {"provider", "lateInit"}
          BY <5>3, <5>4 DEF Frames, Frame, FrameKinds
        <5>6. CASE stack[i] = Frame(x, "lateInit")
          <6>1. InLateInit(x) # {}
            BY <5>4, <5>6 DEF InLateInit, Places
          <6> QED
            BY <1>1, <6>1 DEF Begun
        <5>7. CASE stack[i] = Frame(x, "provider")
          <6>1. Providing(x)' # {}
            BY <5>2, <5>3, <5>7 DEF Providing, Places
          <6>2. FramesFit(x)' /\ x \notin cycled'
            BY <1>1 DEF RInv, Straight
          <6>3. providingState'[x] = "provided"
            BY <1>1 DEF RInv, Types
          <6> QED
            BY <6>1, <6>2, <6>3 DEF FramesFit
        <5> QED
          BY <5>5, <5>6, <5>7
      <4> QED
        BY <4>3, <4>4
    <3>2. ASSUME NEW li \in BOOLEAN, NEW report \in BOOLEAN, FailsWith(x, li, report) PROVE x \in Failing'
      <4>1. PICK A : A = {RemoveArgs(x, TRUE, li, report)}
        OBVIOUS
      <4>2. removing' = ToRemove(A, <<>>)
        BY <3>2, <4>1 DEF FailsWith
      <4>3. Failing' = {n \in DOMAIN pending' : \E c \in A : c.node = n /\ c.err}
        BY <4>2, OneScheduled
      <4> QED
        BY <2>5, <4>1, <4>3 DEF RemoveArgs, Unfinished, IsPending
    <3> QED
      BY <3>1, <3>2 DEF EndOf
  <2>6. ASSUME NEW n \in Comp, Unfinished(n)'
        PROVE  n \in LateInits' \/ providingState'[n] # "provided" \/ n \in Failing'
    <3>1. CASE n = x
      BY <1>2, <2>5, <2>6, <3>1
    <3>2. CASE n # x
      BY <1>2, <1>5, <2>2, <2>6, <3>2 DEF Begun
    <3> QED
      BY <3>1, <3>2
  <2>7. Begun'
    BY <1>2, <1>4, <1>5, <2>2, <2>6 DEF Begun
  <2> QED
    BY <2>3, <2>7
<1>7. CASE pending' # pending
  <2>1. Succeeds(x) /\ PopsLastFrame /\ OnLastNodeFramePoppedWithNoErr(x) /\ x \in DOMAIN pending
    BY <1>7 DEF EndOf, FailsWith, Succeeds, OnLastNodeFramePoppedWithNoErr, IsPending
  <2>2. totalFramesCount'[x] = 0
    BY <1>1, <2>1 DEF PopsLastFrame
  <2>3. Limits' /\ \A n \in Comp : Unfinished(n)' => n # x /\ Unfinished(n)
    BY <1>1, <2>1, <2>2, SettlingBounds
  <2>4. \A n \in Comp : Known(n)' <=> Known(n)
    <3>1. NoneZero
      BY <1>2 DEF Structure, SchedulesFit, NoneZero
    <3>2. SettleRecs(x)
      BY <1>2, <2>1, <3>1, Settles
    <3> QED
      BY <1>1, <3>2 DEF SettleRecs, Known, IsPending, IsRegistered
  <2>5. Begun'
    BY <1>2, <1>4, <1>5, <2>3, <2>4 DEF Begun
  <2> QED
    BY <2>3, <2>5
<1> QED
  BY <1>6, <1>7

LEMMA StartProvidingBounds ==
    ASSUME RInv, RInv', Straight, Straight', Structure, EndsFit, Lone, Limits, Begun, StartProviding
    PROVE  Limits' /\ Begun'
<1>0. PICK x : x = Top.node
  OBVIOUS
<1>1. /\ stack # <<>> /\ removing = <<>> /\ x \in Comp
      /\ \/ /\ providingState' = [providingState EXCEPT ![x] = "inProgress"]
            /\ stack' = Append(Below, Frame(x, "provider"))
            /\ UNCHANGED <<regResult, pending, removing, user>>
         \/ EndOf(x)
  BY <1>0, StartProvidingSteps
<1>2. CASE EndOf(x)
  BY <1>2, EndOfBounds
<1>3. CASE ~EndOf(x)
  <2>1. /\ UNCHANGED <<regState, pending, removing, lateInitsAdded>>
        /\ providingState' = [providingState EXCEPT ![x] = "inProgress"]
        /\ stack' = Append(Below, Frame(x, "provider"))
    BY <1>1, <1>3 DEF regResult, user
  <2>2. RecsTyped /\ LinksFit /\ LateInits' = LateInits
    BY <2>1 DEF Structure, LateInits
  <2>3. SameRecs
    BY <2>1, <2>2 DEF SameRecs, RecsTyped, waits, deps
  <2>4. /\ RecsTyped' /\ Grows /\ \A n : (Unfinished(n)' <=> Unfinished(n)) /\ (Known(n)' <=> Known(n))
        /\ \A e \in DOMAIN pending : waits(e)' = waits(e)
    BY <1>1, <2>1, <2>3, SameRecsGrow
  <2>5. Limits'
    BY <2>2, <2>4, LimitsKept
  <2>6. \A n \in Comp : providingState'[n] = "provided" => providingState[n] = "provided"
    BY <1>1, <2>1 DEF RInv, Types
  <2>7. ASSUME NEW n \in Comp PROVE InLateInit(n)' \subseteq InLateInit(n)
    <3>0. PICK f : f = Frame(x, "provider")
      OBVIOUS
    <3>1. /\ stack \in Seq(Frames) /\ Below \in Seq(Frames) /\ f \in Frames /\ f # Frame(n, "lateInit")
      BY <1>1, <3>0, TopPlace, TopFrame DEF Frame, Frames, FrameKinds
    <3>2. Places(Below, n, "lateInit") \subseteq Places(stack, n, "lateInit")
      BY <1>1, <3>1, PlacesBelow
    <3>3. \A kind : Places(stack', n, kind) = Places(Below, n, kind)
                 \cup (IF f = Frame(n, kind) THEN {Len(Below) + 1} ELSE {})
      BY <2>1, <3>0, <3>1, PlacesAppend
    <3> QED
      BY <3>1, <3>2, <3>3 DEF InLateInit
  <2>8. Begun'
    BY <1>1, <2>2, <2>4, <2>6, <2>7, BegunKept
  <2> QED
    BY <2>5, <2>8
<1> QED
  BY <1>2, <1>3

LEMMA AskedBounds ==
    ASSUME RInv, RInv', Straight, Straight', Structure, Limits, Begun, NEW m \in Comp,
           NEW D \in SUBSET Comp, D = IF stack = <<>> THEN {} ELSE {Top.node},
           stack # <<>> => Top.kind # "called", removing = <<>>, returning = {},
           Add(D, m), PushProviderFrame(m), UNCHANGED <<componentNode, removing, obtained, returning, lateInitsAdded>>
    PROVE  Limits' /\ Begun'
<1>0. /\ Structure' /\ Calm
      /\ \A e \in DOMAIN pending : waits(e)' = waits(e) /\ (Unfinished(e)' <=> Unfinished(e))
  BY AskedStructure
<1>1. Structure' /\ Grows
  BY <1>0 DEF Calm, Grows
<1>2. LateInits' = LateInits /\ RecsTyped /\ RecsTyped' /\ LinksFit
  BY <1>1 DEF LateInits, Structure
<1>3. Limits'
  BY <1>0, <1>1, <1>2, LimitsKept
<1>4. \A n \in Comp : (Unfinished(n)' => Unfinished(n) \/ ~Known(n)) /\ (Known(n) => Known(n)')
  BY <1>0, <1>1 DEF Grows, Unfinished, Known, IsPending, IsRegistered, componentNode, regResult
<1>5. ASSUME NEW n \in Comp PROVE InLateInit(n)' = InLateInit(n)
  <2>0. PICK f : f = Frame(m, "called")
    OBVIOUS
  <2>1. stack \in Seq(Frames) /\ f \in Frames /\ f # Frame(n, "lateInit")
    BY <2>0 DEF RInv, FInv, Frames, Frame, FrameKinds
  <2>2. stack' = Append(stack, f) /\ FInv
    BY <2>0 DEF PushProviderFrame, RInv
  <2>3. InLateInit(n)' = InLateInit(n) \cup (IF f = Frame(n, "lateInit") THEN {Len(stack) + 1} ELSE {})
    BY <2>1, <2>2, Pushed
  <2> QED
    BY <2>1, <2>3
<1>6. Begun'
  BY <1>2, <1>4, <1>5, BegunKept DEF componentNode
<1> QED
  BY <1>3, <1>6

LEMMA EnterChainBounds ==
    ASSUME SInv, RInv', Straight, Straight', Limits, Begun, NEW g \in Caller, EnterChain(g)
    PROVE  Limits' /\ Begun'
<1>0. Inv /\ RInv /\ Structure
  BY DEF SInv, AInv
<1>1. stack = <<>> /\ removing = <<>> /\ returning = {}
  BY <1>0 DEF Inv, EnterChain, OneChainAtATime
<1>2. UNCHANGED <<componentNode, removing, returning, obtained, lateInitsAdded>>
  BY DEF EnterChain, user
<1>3. CASE UNCHANGED <<frames, pending>>
  BY <1>2, <1>3, BoundsSame DEF frames, componentNode, regResult
<1>4. CASE Add({}, asks[g]) /\ PushProviderFrame(asks[g])
  <2>1. PICK m \in Comp : m = asks[g]
    BY <1>0 DEF RInv, FInv
  <2>2. PICK D \in SUBSET Comp : D = {}
    OBVIOUS
  <2>3. Add(D, m) /\ PushProviderFrame(m) /\ D = (IF stack = <<>> THEN {} ELSE {Top.node})
    BY <1>1, <1>4, <2>1, <2>2
  <2> QED
    BY <1>0, <1>1, <1>2, <2>3, AskedBounds
<1> QED
  BY <1>3, <1>4 DEF EnterChain

LEMMA CallBounds ==
    ASSUME RInv, RInv', Straight, Straight', Structure, Limits, Begun, NEW m \in Comp, Call(m)
    PROVE  Limits' /\ Begun'
<1>0. PICK x : x = Top.node
  OBVIOUS
<1>1. /\ stack # <<>> /\ Top.kind # "called" /\ removing = <<>> /\ returning = {} /\ x \in Comp
      /\ UNCHANGED <<componentNode, removing, returning, lateInitsAdded>>
  BY <1>0, TopPlace DEF Call, UserCode, Settled
<1>2. CASE UNCHANGED <<frames, pending>>
  BY <1>1, <1>2, BoundsSame DEF frames, componentNode, regResult
<1>3. CASE Add({x}, m) /\ PushProviderFrame(m) /\ UNCHANGED obtained
  <2>1. PICK D \in SUBSET Comp : D = {x}
    BY <1>1
  <2>2. Add(D, m) /\ D = (IF stack = <<>> THEN {} ELSE {Top.node})
    BY <1>0, <1>1, <1>3, <2>1
  <2> QED
    BY <1>1, <1>3, <2>2, AskedBounds
<1> QED
  BY <1>0, <1>2, <1>3 DEF Call

\* Steps that leave records, frames on the stack and providers alone.
LEMMA QuietBounds ==
    ASSUME RInv, Straight, Structure, EndsFit, Limits, Begun, UseLateInit \/ UseLifecycle
    PROVE  Limits' /\ Begun'
<1>1. PICK x : x = Top.node
  OBVIOUS
<1>2. /\ stack # <<>> /\ removing = <<>> /\ Top.kind # "called"
      /\ UNCHANGED <<stack, removing, providingState, regState>>
  BY DEF UseLateInit, UseLifecycle, UserCode, Settled, LateInitQueuePush, frames, componentNode, regResult
<1>3. x \in DOMAIN pending /\ Unfinished(x) /\ x \in Comp
  BY <1>1, <1>2, TopPlace, UserFrames DEF IsPending
<1>4. /\ LateInits \subseteq LateInits' /\ \A n \in LateInits' : n \in LateInits \/ n = x
      /\ SameRecs
  <2>1. CASE UseLateInit
    <3>1. lateInitsAdded' = [lateInitsAdded EXCEPT ![x] = @ + 1] /\ lateInitsAdded \in [Comp -> Nat] /\ pending' = pending
      BY <1>1, <2>1 DEF UseLateInit, EndsFit
    <3>2. lateInitsAdded'[x] # 0 /\ \A n \in Comp \ {x} : lateInitsAdded'[n] = lateInitsAdded[n]
      BY <1>3, <3>1
    <3>3. SameRecs
      BY <3>1 DEF SameRecs, Structure, RecsTyped, deps, waits
    <3> QED
      BY <3>2, <3>3 DEF LateInits
  <2>2. CASE UseLifecycle
    <3>1. lateInitsAdded' = lateInitsAdded /\ AddLifecycleHookBuilder(x)
      BY <1>1, <2>2 DEF UseLifecycle
    <3> QED
      BY <1>3, <3>1, BuilderRecs DEF Structure, LateInits
  <2> QED
    BY <2>1, <2>2
<1>5. RecsTyped /\ LinksFit
  BY DEF Structure
<1>6. /\ RecsTyped' /\ Grows /\ \A n : (Unfinished(n)' <=> Unfinished(n)) /\ (Known(n)' <=> Known(n))
      /\ \A e \in DOMAIN pending : waits(e)' = waits(e)
  BY <1>2, <1>4, SameRecsGrow
<1>8. Limits'
  BY <1>3, <1>4, <1>5, <1>6, LimitsKept
<1>9. Begun'
  BY <1>2, <1>4, <1>6, BegunKept DEF InLateInit
<1> QED
  BY <1>8, <1>9

LEMMA LateInitStartBounds ==
    ASSUME RInv, Structure, EndsFit, Limits, Begun, ExecuteQueuedLateInit
    PROVE  Limits' /\ Begun'
<1>1. PICK x : x = items[frontIndex + 1]
  OBVIOUS
<1>2. /\ removing = <<>> /\ stack = <<>> /\ stack' = Append(stack, Frame(x, "lateInit"))
      /\ UNCHANGED <<pending, removing, providingState, regState, lateInitsAdded>>
  BY <1>1 DEF ExecuteQueuedLateInit, PushQueuedLateInitFrameToStack, user, componentNode, regResult
<1>3. x \in Comp /\ x \in LateInits
  <2>1. frontIndex \in Int /\ frontIndex >= 0 /\ Len(items) \in Nat /\ frontIndex < Len(items)
    <3>1. Len(items) \in Nat /\ frontIndex \in -1 .. Len(items)
      BY DEF RInv, FInv, IsQueue
    <3>2. QueueLen > 0
      BY DEF ExecuteQueuedLateInit
    <3> QED
      BY <3>1, <3>2 DEF QueueLen, QueueLength
  <2>2. x \in Comp
    BY <1>1, <2>1, SMTT(30) DEF RInv, FInv, IsQueue
  <2>3. frontIndex + 1 \in Queued(items, frontIndex, x)
    BY <1>1, <2>1 DEF Queued
  <2>4. IsFiniteSet(Queued(items, frontIndex, x))
    BY <2>1, PlacesAreFinite
  <2>5. Cardinality(Queued(items, frontIndex, x)) # 0
    BY <2>3, <2>4, FS_EmptySet
  <2>6. queuedLateInitsCount[x] # 0
    BY <2>2, <2>5 DEF RInv, FInv, Counted
  <2> QED
    BY <2>2, <2>6 DEF EndsFit, LateInits
<1>4. RecsTyped /\ LinksFit /\ LateInits' = LateInits
  BY <1>2 DEF Structure, LateInits
<1>5. SameRecs
  BY <1>2, <1>4 DEF SameRecs, RecsTyped, waits, deps
<1>6. /\ RecsTyped' /\ Grows /\ \A n : (Unfinished(n)' <=> Unfinished(n)) /\ (Known(n)' <=> Known(n))
      /\ \A e \in DOMAIN pending : waits(e)' = waits(e)
  BY <1>2, <1>5, SameRecsGrow
<1>7. Limits'
  BY <1>4, <1>6, LimitsKept
<1>8. ASSUME NEW n \in Comp, InLateInit(n)' # {} PROVE n = x
  <2>1. Len(stack') = 1 /\ stack'[1] = Frame(x, "lateInit")
    BY <1>2
  <2> QED
    BY <1>8, <2>1 DEF InLateInit, Places, Frame
<1>9. Begun'
  BY <1>2, <1>3, <1>4, <1>6, <1>8, BegunKept
<1> QED
  BY <1>7, <1>9

LEMMA RemovalBounds ==
    ASSUME NEW a, NEW n, RemovalOf(a, n), Limits, Begun, UNCHANGED lateInitsAdded
    PROVE  Limits' /\ Begun'
<1>1. /\ RInv /\ Straight /\ Structure /\ Counting /\ a \in Scheduled /\ n = a.node /\ n \in DOMAIN pending
      /\ RemoveEffect(a, n) /\ RegEffect(a, n) /\ UNCHANGED <<stack, providingState>>
  BY DEF RemovalOf
<1>2. /\ n \in Comp
      /\ Waiting(n) = {d \in DOMAIN pending \ {n} : n \in deps(d) /\ waits(d) # waitsForOwnFrames}
      /\ \A d \in Waiting(n) : waits(d) \in Nat \ {0}
  BY <1>1, RemovedFacts
<1>3. /\ \A k \in Leaving \ {n} : k \in Leaving'
      /\ \A k \in Failing \ {n} : k \in Failing'
      /\ GoesToo(a) \subseteq Leaving'
  BY LeavingNext
<1>4. LateInits' = LateInits /\ RecsTyped
  BY <1>1 DEF LateInits, Structure
<1>5. /\ DOMAIN pending' = DOMAIN pending \ {n}
      /\ \A m \in DOMAIN pending \ {n} :
            /\ deps(m)' = IF a.err THEN deps(m) \ {n} ELSE deps(m)
            /\ waits(m)' = IF m \in Waiting(n) \ GoesToo(a) THEN waits(m) - 1 ELSE waits(m)
  BY <1>1 DEF RemoveEffect
<1>6. ASSUME NEW k \in DOMAIN pending \ {n} PROVE Unfinished(k)' => Unfinished(k)
  <2>1. k \notin Waiting(n) => waits(k)' = waits(k)
    BY <1>5
  <2>2. k \in Waiting(n) => waits(k)' # waitsForOwnFrames
    BY <1>2, <1>5 DEF waitsForOwnFrames
  <2> QED
    BY <2>1, <2>2 DEF Unfinished, IsPending
<1>7. \A k : Unfinished(k)' => Unfinished(k) /\ k # n
  BY <1>5, <1>6 DEF Unfinished, IsPending
<1>8. \A e \in AllFinished' : e \in AllFinished /\ e # n /\ e \in DOMAIN pending \ {n} /\ deps(e)' \subseteq deps(e)
  <2>1. \A e \in DOMAIN pending \ {n} : Unfinished(e) => Unfinished(e)'
    BY <1>2, <1>5 DEF Unfinished, IsPending
  <2> QED
    BY <1>5, <2>1 DEF AllFinished
<1>9. WaitsForLateInits'
  <2>1. ASSUME NEW e \in AllFinished', NEW m \in deps(e)', Unfinished(m)' PROVE m \in LateInits
    BY <1>7, <1>8, <2>1 DEF Limits, WaitsForLateInits
  <2> QED
    BY <1>4, <2>1 DEF WaitsForLateInits
<1>10. ASSUME NEW e \in AllFinished' \ Leaving'
       PROVE  waits(e)' <= Cardinality((deps(e)' \cap DOMAIN pending') \ {e})
  <2>1. e \in AllFinished \ Leaving /\ e \in DOMAIN pending \ {n} /\ e \notin GoesToo(a)
    BY <1>3, <1>8, <1>10
  <2>2. PICK X : X = (deps(e) \cap DOMAIN pending) \ {e}
    OBVIOUS
  <2>3. waits(e) <= Cardinality(X) /\ waits(e) \in Int /\ IsFiniteSet(X)
    <3>1. waits(e) \in Int
      BY <1>4, <2>1 DEF RecsTyped, RecType, waits, waitsForOwnFrames
    <3>2. X \subseteq Comp
      BY <1>4, <2>2 DEF RecsTyped
    <3> QED
      BY <2>1, <2>2, <3>1, <3>2, CompAssumption, FS_Subset DEF Limits
  <2>4. (deps(e)' \cap DOMAIN pending') \ {e} = X \ {n}
    BY <1>5, <2>1, <2>2
  <2>5. CASE n \in deps(e)
    <3>1. n \in X /\ e \in Waiting(n)
      BY <1>1, <1>2, <2>1, <2>2, <2>5 DEF AllFinished, Unfinished, IsPending
    <3>2. waits(e)' = waits(e) - 1
      BY <1>5, <2>1, <3>1
    <3>3. Cardinality(X) \in Nat /\ Cardinality(X \ {n}) = Cardinality(X) - 1
      BY <2>3, <3>1, FS_CardinalityType, FS_RemoveElement
    <3>4. waits(e) - 1 <= Cardinality(X \ {n})
      BY <2>3, <3>3
    <3> QED
      BY <2>4, <3>2, <3>4
  <2>6. CASE n \notin deps(e)
    <3>1. X \ {n} = X /\ e \notin Waiting(n)
      BY <1>2, <2>2, <2>6
    <3> QED
      BY <1>5, <2>1, <2>3, <2>4, <3>1
  <2> QED
    BY <2>5, <2>6
<1>11. LateInits' \cap AllFinished' \subseteq Leaving'
  BY <1>3, <1>4, <1>8 DEF Limits
<1>12. ASSUME NEW S \in SUBSET (AllFinished' \ LateInits'), S # {} PROVE \E e \in S : deps(e)' \cap S = {}
  <2>1. S \in SUBSET (AllFinished \ LateInits) /\ \A e \in S : deps(e)' \subseteq deps(e)
    BY <1>4, <1>8
  <2>2. PICK e \in S : deps(e) \cap S = {}
    BY <1>12, <2>1 DEF Limits
  <2> QED
    BY <2>1, <2>2
<1>13. Limits'
  BY <1>9, <1>10, <1>11, <1>12 DEF Limits
<1>14. \A k \in Comp : Known(k) => Known(k)'
  BY <1>1, <1>5 DEF RegEffect, Known, IsPending, IsRegistered
<1>15. \A k \in Comp : Unfinished(k)' => k \in LateInits' \/ providingState'[k] # "provided" \/ k \in Failing'
  BY <1>1, <1>3, <1>4, <1>7 DEF Begun
<1>16. \A k \in Comp : InLateInit(k)' # {} => k \in LateInits'
  BY <1>1, <1>4 DEF Begun, InLateInit
<1>17. \A k \in Comp : ~Known(k)' => providingState'[k] # "provided"
  BY <1>1, <1>14 DEF Begun
<1>18. Begun'
  BY <1>15, <1>16, <1>17 DEF Begun
<1> QED
  BY <1>13, <1>18

LEMMA RemovePendingBounds ==
    ASSUME RInv, Straight, Structure, Counting, Limits, Begun, RemovePending
    PROVE  Limits' /\ Begun'
<1>1. PICK a \in Head(removing) : Remove(a)
  BY DEF RemovePending, RemoveNext
<1>2. removing # <<>> /\ UNCHANGED <<providingState, stack, returning, obtained, lateInitsAdded>>
  BY DEF RemovePending, RemoveNext, frames, user
<1>3. PICK n : n = a.node
  OBVIOUS
<1>4. CASE ~IsPending(n)
  <2>1. /\ removing' = ToRemove(Head(removing) \ {a}, Tail(removing))
        /\ UNCHANGED <<pending, providedErr, regResult>>
    BY <1>1, <1>3, <1>4 DEF Remove
  <2>2. Scheduled \ {a} \subseteq Scheduled' /\ Scheduled' \subseteq Scheduled
    <3>1. PICK B \in SUBSET RemoveCalls : B = {}
      OBVIOUS
    <3>2. removing' = ToRemove(B, ToRemove(Head(removing) \ {a}, Tail(removing)))
      BY <2>1, <3>1 DEF ToRemove
    <3>3. Scheduled \ {a} \subseteq Scheduled' /\ Scheduled' \subseteq Scheduled \cup B
      BY <1>2, <3>2, ScheduledNext
    <3> QED
      BY <3>1, <3>3
  <2>3. Leaving' = Leaving /\ Failing' = Failing
    BY <1>3, <1>4, <2>1, <2>2 DEF Leaving, Failing, IsPending
  <2> QED
    BY <1>2, <2>1, <2>3, BoundsStay DEF regResult
<1>5. CASE IsPending(n)
  <2>1. RemoveEffect(a, n) /\ a \in Scheduled
    BY <1>1, <1>2, <1>3, <1>5, RemoveHasEffect
  <2>2. n \in Comp /\ n \in DOMAIN pending
    BY <1>5 DEF IsPending, Structure, RecsTyped
  <2>3. RegEffect(a, n)
    BY <1>1, <1>3, <1>5, <2>2, RemoveRegisters
  <2>4. RemovalOf(a, n)
    BY <1>2, <1>3, <2>1, <2>2, <2>3 DEF RemovalOf
  <2> QED
    BY <1>2, <2>4, RemovalBounds
<1> QED
  BY <1>4, <1>5

\* Where nothing was asked for while being provided, and at most one component has used
\* late inits, nothing is left behind.
OneInv ==
    /\ EInv /\ lateInitsAdded \in [Comp -> Nat]
    /\ cycled = {} /\ Lone => revived = {} /\ Limits /\ Begun

LEMMA OneInvInit == Init => OneInv
<1> SUFFICES ASSUME Init PROVE OneInv
  OBVIOUS
<1>1. /\ pending = [n \in {} |-> Rec(0)] /\ removing = <<>> /\ stack = <<>> /\ revived = {}
      /\ providingState = [n \in Comp |-> "none"] /\ lateInitsAdded = [n \in Comp |-> 0]
  BY DEF Init, NodeInit, FramesInit, PendingInit
<1>2. DOMAIN pending = {} /\ AllFinished = {}
  BY <1>1 DEF AllFinished
<1>3. Limits
  BY <1>2 DEF Limits, WaitsForLateInits
<1>4. Begun
  BY <1>1, <1>2 DEF Begun, Unfinished, IsPending, InLateInit, Places
<1>5. lateInitsAdded \in [Comp -> Nat]
  BY <1>1
<1> QED
  BY <1>1, <1>3, <1>4, <1>5, EInvInit DEF OneInv

LEMMA LoneBefore ==
    ASSUME lateInitsAdded \in [Comp -> Nat], [Next]_vars
    PROVE  /\ lateInitsAdded' \in [Comp -> Nat]
           /\ cycled' = {} /\ Lone' => cycled = {} /\ Lone
<1>1. cycled \subseteq cycled'
  BY DEF Next, vars, user, Ask, EnterChain, EndChain, Call, UseLateInit, UseLifecycle, StartProviding,
     ProviderReturns, ProviderPanics, LateInitReturns, GetterReturns, RemovePending, ExecuteQueuedLateInit,
     AllAnswered
<1>2. CASE UseLateInit
  <2>1. PICK x : x = Top.node
    OBVIOUS
  <2>2. lateInitsAdded' = [lateInitsAdded EXCEPT ![x] = @ + 1]
    BY <1>2, <2>1 DEF UseLateInit
  <2>3. lateInitsAdded' \in [Comp -> Nat]
    <3>1. ASSUME NEW n \in Comp PROVE lateInitsAdded'[n] \in Nat
      BY <2>2
    <3> QED
      BY <2>2, <3>1
  <2>4. LateInits \subseteq LateInits'
    BY <2>2 DEF LateInits
  <2> QED
    BY <1>1, <2>3, <2>4 DEF Lone
<1>3. CASE lateInitsAdded' = lateInitsAdded
  BY <1>1, <1>3 DEF Lone, LateInits
<1>4. UseLateInit \/ lateInitsAdded' = lateInitsAdded
  BY DEF Next, vars, user, Ask, EnterChain, EndChain, Call, UseLifecycle, StartProviding, ProviderFrameEnds,
     ProviderReturns, ProviderPanics, LateInitReturns, GetterReturns, RemovePending, ExecuteQueuedLateInit,
     AllAnswered
<1> QED
  BY <1>2, <1>3, <1>4

LEMMA NoneRevived ==
    ASSUME RInv, Structure, Limits, revived = {}, [Next]_vars
    PROVE  revived' = {}
<1>1. CASE StartProviding
  <2>1. removing = <<>> /\ RecsTyped /\ SchedulesFit
    BY <1>1 DEF StartProviding, Settled, Structure
  <2>2. LeftBehind = {}
    BY <2>1, NoneLeftBehind
  <2> QED
    BY <1>1, <2>2 DEF StartProviding, user
<1>2. StartProviding \/ revived' = revived
  BY DEF Next, vars, user, Ask, EnterChain, EndChain, Call, UseLateInit, UseLifecycle, ProviderFrameEnds,
     ProviderReturns, ProviderPanics, LateInitReturns, GetterReturns, RemovePending, ExecuteQueuedLateInit,
     AllAnswered
<1> QED
  BY <1>1, <1>2

LEMMA BoundsNext ==
    ASSUME SInv, EndsFit, RInv', Straight, Straight', Lone, Limits, Begun, [Next]_vars
    PROVE  Limits' /\ Begun'
<1>0. RInv /\ Structure /\ Counting
  BY DEF SInv, AInv
<1>1. CASE UNCHANGED <<pending, removing, stack, providingState, regState, lateInitsAdded>>
  BY <1>1, BoundsSame
<1>2. ASSUME NEW g \in Caller, Ask(g, asks[g]) \/ EndChain(g) PROVE Limits' /\ Begun'
  BY <1>1, <1>2 DEF Ask, EndChain, frames, user, componentNode, regResult
<1>3. CASE UNCHANGED vars \/ GetterReturns
  BY <1>1, <1>3 DEF vars, GetterReturns, frames, user, componentNode, regResult
<1>4. CASE ProviderReturns \/ ProviderPanics \/ LateInitReturns
  <2>1. PICK x : x = Top.node
    OBVIOUS
  <2>2. EndOf(x)
    BY <1>0, <1>4, <2>1, ProviderEnds, LateInitEnds
  <2> QED
    BY <1>0, <2>2, EndOfBounds
<1>5. CASE UseLateInit \/ UseLifecycle
  BY <1>0, <1>5, QuietBounds
<1>6. CASE StartProviding
  BY <1>0, <1>6, StartProvidingBounds
<1>7. CASE RemovePending
  BY <1>0, <1>7, RemovePendingBounds
<1>8. CASE ExecuteQueuedLateInit
  BY <1>0, <1>8, LateInitStartBounds
<1>9. ASSUME NEW m \in Comp, Call(m) PROVE Limits' /\ Begun'
  BY <1>0, <1>9, CallBounds
<1>10. ASSUME NEW g \in Caller, EnterChain(g) PROVE Limits' /\ Begun'
  BY <1>10, EnterChainBounds
<1> QED
  BY <1>2, <1>3, <1>4, <1>5, <1>6, <1>7, <1>8, <1>9, <1>10 DEF Next, AllAnswered

LEMMA OneInvNext == OneInv /\ [Next]_vars => OneInv'
<1> SUFFICES ASSUME OneInv, [Next]_vars PROVE OneInv'
  OBVIOUS
<1>1. EInv /\ EInv' /\ SInv /\ SInv'
  BY EInvNext DEF OneInv, EInv
<1>2. RInv /\ RInv'
  BY <1>1 DEF SInv, AInv
<1>3. ASSUME cycled' = {}, Lone' PROVE revived' = {} /\ Limits' /\ Begun'
  <2>2. cycled = {} /\ Lone
    BY <1>3, LoneBefore DEF OneInv
  <2>3. revived = {} /\ Limits /\ Begun /\ Straight
    BY <2>2 DEF OneInv, Straight
  <2>4. Structure /\ EndsFit
    BY <1>1, <2>3 DEF EInv, SInv
  <2>5. revived' = {}
    BY <1>2, <2>3, <2>4, NoneRevived
  <2>6. Straight'
    BY <1>3, <2>5 DEF Straight
  <2> QED
    BY <1>1, <1>2, <2>2, <2>3, <2>4, <2>5, <2>6, BoundsNext
<1> QED
  BY <1>1, <1>3, LoneBefore DEF OneInv

\* registry.go:96, as far as it holds: where nothing was asked for while it was being provided,
\* and at most one component has used late inits, none is left in pendingNodes at the end of a
\* chain, whichever providers and late inits fail, in cycles made by late inits too.
THEOREM OneLateInitLeavesNone == Spec => [](cycled = {} => RegisteredWithOneLateInit)
<1>1. OneInv => (cycled = {} => RegisteredWithOneLateInit)
  <2> SUFFICES ASSUME OneInv, cycled = {}, Cardinality({n \in Comp : lateInitsAdded[n] > 0}) <= 1, signal
               PROVE  DOMAIN pending = {}
    BY DEF RegisteredWithOneLateInit, EveryNodeIsRegistered
  <2>1. Lone
    <3>1. LateInits = {n \in Comp : lateInitsAdded[n] > 0} /\ IsFiniteSet(LateInits)
      <4>1. \A n \in Comp : lateInitsAdded[n] # 0 <=> lateInitsAdded[n] > 0
        BY DEF OneInv
      <4> QED
        BY <4>1, CompAssumption, FS_Subset DEF LateInits
    <3> SUFFICES ASSUME NEW m \in LateInits, NEW k \in LateInits, m # k PROVE FALSE
      BY DEF Lone
    <3>2. PICK X : X = LateInits \ {m}
      OBVIOUS
    <3>3. k \in X /\ IsFiniteSet(X) /\ Cardinality(LateInits) \in Nat /\ Cardinality(X) = Cardinality(LateInits) - 1
      BY <3>1, <3>2, FS_CardinalityType, FS_RemoveElement
    <3>4. Cardinality(X) # 0
      BY <3>3, FS_EmptySet
    <3>5. Cardinality(LateInits) <= 1
      BY <3>1, Zenon
    <3>6. Cardinality(X) \in Nat
      BY <3>3, FS_CardinalityType
    <3> QED
      BY <3>3, <3>4, <3>5, <3>6
  <2>2. /\ Straight /\ Limits /\ Inv /\ RInv /\ Structure /\ EndsFit
        /\ stack = <<>> /\ QueueLen = 0 /\ removing = <<>>
    BY <2>1 DEF OneInv, Straight, EInv, SInv, AInv, Inv, OneChainAtATime
  <2>3. Failing = {} /\ RecsTyped /\ SchedulesFit /\ FInv
    BY <2>2, NothingScheduled DEF Structure, RInv
  <2>4. \A n \in Comp : ~Unfinished(n)
    BY <2>2, <2>3, NothingOnStack DEF EndsFit
  <2>5. LeftBehind = {}
    BY <2>2, <2>3, NoneLeftBehind
  <2>6. \A n \in DOMAIN pending : pending[n].waitsForDepsCount # waitsForOwnFrames
    BY <2>3, <2>4 DEF Unfinished, IsPending, RecsTyped, waits
  <2>7. PICK S \in SUBSET {n \in DOMAIN pending : pending[n].waitsForDepsCount # waitsForOwnFrames} : S = DOMAIN pending
    BY <2>6
  <2>8. \A n \in S : pending[n].dependsOn \cap DOMAIN pending \subseteq S
    BY <2>7
  <2>9. S \subseteq LeftBehind
    BY <2>8 DEF LeftBehind
  <2> QED
    BY <2>5, <2>7, <2>9
<1>2. Spec => []OneInv
  BY OneInvInit, OneInvNext, PTL DEF Spec
<1> QED
  BY <1>1, <1>2, PTL
=============================================================================
