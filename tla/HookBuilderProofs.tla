-------------------------- MODULE HookBuilderProofs --------------------------
(***************************************************************************)
(* However many calls of the builder, with whatever options, panic or      *)
(* return, before getHook and after it, the hook plays the roles that were *)
(* taken before getHook. That needs what the checks of the calls keep up:  *)
(* roles that exclude each other are not taken together.                   *)
(*                                                                         *)
(* And the hook is started and judged as the options of those calls say.   *)
(* That needs what the fold of NewCfg leaves, for options of any number:   *)
(* by induction over how many of them have been applied, the last of each  *)
(* kind.                                                                   *)
(***************************************************************************)
EXTENDS HookBuilder, TLAPS, WellFoundedInduction

AnyOptions == UNION {OptionsUpTo(MaxOptions, Option(role)) : role \in Role}
Call == [role : Role, options : AnyOptions]

TypeOK ==
    /\ impl \in [Role -> Nat] /\ built \in BOOLEAN /\ refused \subseteq Role
    /\ added \in Seq(Call)

\* Until getHook, the builder holds the calls that took a role, each in its role.
Held ==
    ~built => /\ \A i \in DOMAIN added : impl[added[i].role] = i
              /\ \A role \in Role : impl[role] # Nil => Adds(impl[role], role)

Exclusive ==
    \A role \in Role : impl[role] # Nil => \A r \in Excludes(role) \ {role} : impl[r] = Nil

RefusedForReason == \A role \in refused : \E i \in DOMAIN added : added[i].role \in Excludes(role)

\* The last conjunct is what matters; it stays once getHook has made the hook.
IInv == TypeOK /\ Held /\ Exclusive /\ RefusedForReason /\ HookPlaysWhatWasAdded

-----------------------------------------------------------------------------

LEMMA InitOK == Init => IInv
<1> SUFFICES ASSUME Init PROVE IInv
  OBVIOUS
<1>1. added = <<>> /\ DOMAIN added = {} /\ refused = {} /\ ~built /\ \A r \in Role : impl[r] = Nil
  BY DEF Init
<1>2. TypeOK
  <2>1. added \in Seq(Call)
    BY <1>1
  <2> QED
    BY <2>1 DEF TypeOK, Init, Nil
<1> QED
  BY <1>1, <1>2 DEF IInv, Held, Exclusive, RefusedForReason, HookPlaysWhatWasAdded

\* A call that takes its role, before getHook or after it.
LEMMA TakeOK ==
    ASSUME IInv, NEW role \in Role, NEW options \in OptionsUpTo(MaxOptions, Option(role)), Take(role, options)
    PROVE  IInv'
<1> DEFINE k == Len(added) + 1
           call == [role |-> role, options |-> options]
<1> USE DEF IInv
<1>1. /\ k \in Nat \ {0} /\ impl' = [impl EXCEPT ![role] = k]
      /\ UNCHANGED <<built, hook, refused>>
      /\ added' = IF built THEN added ELSE Append(added, call)
  BY DEF Take, TypeOK
<1>2. call \in Call
  BY DEF Call, AnyOptions
<1>3. TypeOK'
  <2>1. Append(added, call) \in Seq(Call)
    BY <1>2 DEF TypeOK
  <2> QED
    BY <1>1, <2>1 DEF TypeOK
<1>4. \A r \in Excludes(role) : r \in Role /\ impl[r] = Nil
  BY DEF Take, CanAdd, Excludes, Runnables, Role
<1>5. Exclusive'
  <2>1. \A r, q \in Role : q \in Excludes(r) /\ q # r => r \in Excludes(q)
    BY DEF Excludes, Runnables, Role
  <2> QED
    BY <1>1, <1>4, <2>1 DEF Exclusive, TypeOK, Nil
<1>6. CASE built
  BY <1>1, <1>3, <1>5, <1>6 DEF Held, RefusedForReason, HookPlaysWhatWasAdded, Plays, Adds
<1>7. CASE ~built
  <2>1. /\ DOMAIN added = 1 .. Len(added) /\ DOMAIN added' = 1 .. k
        /\ \A i \in DOMAIN added : added'[i] = added[i] /\ i # k
        /\ added'[k] = call
    BY <1>1, <1>2, <1>7 DEF TypeOK
  <2>2. \A i \in DOMAIN added : added[i].role # role
    <3>1. impl[role] = Nil
      BY <1>4 DEF Excludes
    <3> QED
      BY <1>7, <2>1, <3>1 DEF Held, Nil
  <2>3. Held'
    <3>1. \A i \in DOMAIN added' : impl'[added'[i].role] = i
      BY <1>1, <1>7, <2>1, <2>2 DEF Held, TypeOK
    <3>2. ASSUME NEW r \in Role, impl'[r] # Nil PROVE Adds(impl[r], r)'
      <4>1. CASE r = role
        BY <1>1, <2>1, <3>2, <4>1 DEF TypeOK, Adds
      <4>2. CASE r # role
        BY <1>1, <1>7, <2>1, <3>2, <4>2 DEF Held, TypeOK, Adds
      <4> QED
        BY <4>1, <4>2
    <3> QED
      BY <3>1, <3>2 DEF Held, Adds
  <2>4. RefusedForReason'
    BY <1>1, <2>1 DEF RefusedForReason
  <2> QED
    BY <1>1, <1>3, <1>5, <1>7, <2>3, <2>4 DEF HookPlaysWhatWasAdded
<1> QED
  BY <1>6, <1>7

LEMMA NoOptions == \A role : <<>> \in OptionsUpTo(MaxOptions, Option(role))
<1> SUFFICES ASSUME NEW role PROVE <<>> \in OptionsUpTo(MaxOptions, Option(role))
  OBVIOUS
<1>1. 0 \in 0 .. MaxOptions
  BY HookBuilderAssumption
<1>2. <<>> \in [1 .. 0 -> Option(role)]
  OBVIOUS
<1> QED
  BY <1>1, <1>2 DEF OptionsUpTo

LEMMA AddPanicsOK == ASSUME IInv, NEW role \in Role, AddPanics(role) PROVE IInv'
<1> USE DEF IInv
<1>1. PICK r \in Excludes(role) : r \in Role /\ impl[r] # Nil
  BY DEF AddPanics, CanAdd, Excludes, Runnables, Role
<1>2. ~built => \E i \in DOMAIN added : added[i].role \in Excludes(role)
  BY <1>1 DEF Held, Adds
<1>3. UNCHANGED <<impl, built, hook, added>> /\ refused' = IF built THEN refused ELSE refused \cup {role}
  BY DEF AddPanics
<1> QED
  BY <1>2, <1>3 DEF TypeOK, Held, Exclusive, RefusedForReason, HookPlaysWhatWasAdded, Plays, Adds

\* The switch of getHook takes the one case that fits what was added.
LEMMA GetHookOK == ASSUME IInv, GetHook PROVE IInv'
<1> USE DEF IInv
<1>1. ~built /\ built' /\ UNCHANGED <<impl, added, refused>>
  BY DEF GetHook
<1>2. \A i \in DOMAIN added : added[i].role \in Role /\ impl[added[i].role] = i /\ i # Nil
  <2>1. DOMAIN added = 1 .. Len(added) /\ Len(added) \in Nat
    BY DEF TypeOK
  <2>2. \A i \in DOMAIN added : added[i] \in Call
    BY <2>1 DEF TypeOK
  <2>3. \A i \in DOMAIN added : added[i].role \in Role
    BY <2>2 DEF Call
  <2> QED
    BY <1>1, <2>1, <2>3 DEF Held, Nil
<1>3. \A role \in Role : /\ impl[role] \in DOMAIN added \cup {Nil}
                         /\ impl[role] # Nil => added[impl[role]].role = role
  BY <1>1 DEF Held, Adds
<1>4. ASSUME NEW i \in DOMAIN added PROVE Plays(i)'
  <2>1. \A r \in Excludes(added[i].role) \ {added[i].role} : impl[r] = Nil
    BY <1>2 DEF Exclusive
  <2>2. CASE added[i].role = "readinessRunnable"
    BY <1>1, <1>2, <2>1, <2>2 DEF GetHook, Adapted, Plays, Excludes, Runnables, Role, Nil
  <2>3. CASE added[i].role = "runnable"
    BY <1>1, <1>2, <2>1, <2>3 DEF GetHook, Adapted, Plays, Excludes, Runnables, Role, Nil
  <2>4. CASE added[i].role = "starter"
    <3>1. impl["runnable"] = Nil /\ impl["readinessRunnable"] = Nil
      BY <2>1, <2>4 DEF Excludes, Runnables
    <3>2. impl["starter"] = i /\ impl["closer"] # i
      BY <1>2, <1>3, <2>4 DEF Role
    <3>3. hook' = StarterAndCloser
      BY <3>1 DEF GetHook
    <3> QED
      BY <1>1, <1>2, <2>4, <3>2, <3>3 DEF StarterAndCloser, Plays, Runnables, Nil
  <2>5. CASE added[i].role = "closer"
    <3>1. impl["runnable"] = Nil /\ impl["readinessRunnable"] = Nil
      BY <2>1, <2>5 DEF Excludes, Runnables
    <3>2. impl["closer"] = i /\ impl["starter"] # i
      BY <1>2, <1>3, <2>5 DEF Role
    <3>3. hook' = StarterAndCloser
      BY <3>1 DEF GetHook
    <3> QED
      BY <1>1, <1>2, <2>5, <3>2, <3>3 DEF StarterAndCloser, Plays, Runnables, Nil
  <2> QED
    BY <1>2, <2>2, <2>3, <2>4, <2>5 DEF Role, Runnables
<1>5. {hook'.starter, hook'.waiter, hook'.closer, hook'.causeCloser} \subseteq DOMAIN added \cup {Nil}
  BY <1>3 DEF GetHook, Adapted, StarterAndCloser, NoHook, Role, Runnables
<1>6. HookPlaysWhatWasAdded'
  BY <1>1, <1>4, <1>5 DEF HookPlaysWhatWasAdded, RefusedForReason
<1> QED
  BY <1>1, <1>6 DEF TypeOK, Held, Exclusive, RefusedForReason

LEMMA NextOK == IInv /\ [Next]_vars => IInv'
<1> SUFFICES ASSUME IInv, [Next]_vars PROVE IInv'
  OBVIOUS
<1>1. CASE UNCHANGED vars
  BY <1>1 DEF vars, IInv, TypeOK, Held, Exclusive, RefusedForReason, HookPlaysWhatWasAdded, Plays, Adds
<1> QED
  BY <1>1, TakeOK, NoOptions, AddPanicsOK, GetHookOK DEF Next, Add, AddPanicsHalfway, AddNilPanics

\* Whatever calls of the builder panic, at once or half-way, in between or after getHook,
\* no role that was taken is lost, overwritten or mixed with one that excludes it.
THEOREM AcceptedRolesArePlayed == Spec => []HookPlaysWhatWasAdded
<1>1. Spec => []IInv
  BY InitOK, NextOK, PTL DEF Spec
<1>2. IInv => HookPlaysWhatWasAdded
  BY DEF IInv
<1> QED
  BY <1>1, <1>2, PTL

-----------------------------------------------------------------------------
(* Options: the fold of NewCfg keeps the last one of each kind. *)

LEMMA Least ==
    ASSUME NEW S \in SUBSET Nat, S # {}
    PROVE  \E x \in S : \A y \in S : x <= y
<1> DEFINE R == OpToRel(<, Nat)
<1>1. IsWellFoundedOn(R, Nat)
  BY NatLessThanWellFounded
<1>2. \A x, y \in Nat : <<y, x>> \in R <=> y < x
  BY DEF OpToRel
<1> HIDE DEF R
<1>3. PICK x \in S : \A y \in S : ~(<<y, x>> \in R)
  BY <1>1, WFMin
<1>4. ASSUME NEW y \in S PROVE x <= y
  <2>1. ~(y < x)
    BY <1>2, <1>3, Zenon
  <2> QED
    BY <2>1
<1> QED
  BY <1>4

LEMMA SetInduction ==
    ASSUME NEW S \in SUBSET Nat, 0 \in S, \A n \in S : n + 1 \in S
    PROVE  S = Nat
<1> SUFFICES ASSUME Nat \ S # {} PROVE FALSE
  OBVIOUS
<1>1. PICK x \in Nat \ S : \A y \in Nat \ S : x <= y
  BY Least
<1>2. x - 1 \in Nat /\ x - 1 \in S
  BY <1>1
<1> QED
  BY <1>1, <1>2

LEMMA MaxOfIndices ==
    ASSUME NEW n \in Nat, NEW s \in SUBSET (1 .. n), s # {}
    PROVE  Max(s) \in s /\ \A i \in s : i <= Max(s)
<1> DEFINE below == {n - i : i \in s}
<1>0. \A i \in s : i \in 1 .. n
  OBVIOUS
<1>1. below \in SUBSET Nat /\ below # {}
  <2>1. \A i \in s : n - i \in Nat
    BY <1>0
  <2> QED
    BY <2>1
<1>2. PICK d \in below : \A e \in below : d <= e
  BY <1>1, Least
<1>3. PICK m \in s : d = n - m
  BY <1>2
<1>4. ASSUME NEW i \in s PROVE m >= i
  <2>1. d <= n - i
    BY <1>2
  <2>2. i \in 1 .. n /\ m \in 1 .. n
    BY <1>0
  <2> HIDE DEF below
  <2> QED
    BY <1>3, <2>1, <2>2
<1>5. \E x \in s : \A y \in s : x >= y
  BY <1>4
<1>6. Max(s) \in s /\ \A y \in s : Max(s) >= y
  BY <1>5 DEF Max
<1> QED
  BY <1>6

\* The highest index of what is left is applied last.
Folded(options, h, s) == IF s = {} THEN ZeroCfg ELSE Apply(h[s \ {Max(s)}], options[Max(s)])
IsFold(options, h, n) == h = [s \in SUBSET (1 .. n) |-> Folded(options, h, s)]

LEMMA FoldExists ==
    ASSUME NEW options
    PROVE  \A n \in Nat : \E h : IsFold(options, h, n)
<1> DEFINE S == {n \in Nat : \E h : IsFold(options, h, n)}
<1>1. 0 \in S
  <2> DEFINE h == [s \in {{}} |-> ZeroCfg]
  <2>1. SUBSET (1 .. 0) = {{}}
    OBVIOUS
  <2>2. IsFold(options, h, 0)
    BY <2>1 DEF IsFold, Folded
  <2> QED
    BY <2>2
<1>2. ASSUME NEW n \in S PROVE n + 1 \in S
  <2>1. PICK h : IsFold(options, h, n)
    OBVIOUS
  <2>2. n \in Nat /\ \A s \in SUBSET (1 .. n) : h[s] = Folded(options, h, s)
    BY <2>1, Zenon DEF IsFold
  <2> DEFINE g == [s \in SUBSET (1 .. n + 1) |->
                     IF n + 1 \in s THEN Apply(h[s \ {n + 1}], options[n + 1]) ELSE h[s]]
  <2>3. \A s \in SUBSET (1 .. n) : s \in SUBSET (1 .. n + 1) /\ n + 1 \notin s
    BY <2>2
  <2>4. \A s \in SUBSET (1 .. n) : g[s] = h[s]
    BY <2>3, Zenon
  <2>5. \A s \in SUBSET (1 .. n + 1) : s \ {n + 1} \in SUBSET (1 .. n)
    BY <2>2
  <2>6. ASSUME NEW s \in SUBSET (1 .. n + 1) PROVE g[s] = Folded(options, g, s)
    <3>1. CASE n + 1 \in s
      <4>1. Max(s) = n + 1
        <5>1. n + 1 \in Nat /\ s # {}
          BY <2>2, <3>1
        <5>2. Max(s) \in s /\ n + 1 <= Max(s)
          BY <3>1, <5>1, MaxOfIndices
        <5>3. Max(s) \in 1 .. n + 1
          BY <5>2
        <5> QED
          BY <2>2, <5>2, <5>3
      <4>2. g[s \ {n + 1}] = h[s \ {n + 1}]
        BY <2>4, <2>5, Zenon
      <4>3. g[s] = Apply(h[s \ {n + 1}], options[n + 1])
        BY <3>1, Zenon
      <4> HIDE DEF g
      <4> QED
        BY <3>1, <4>1, <4>2, <4>3, Zenon DEF Folded
    <3>2. CASE n + 1 \notin s
      <4>1. s \in SUBSET (1 .. n)
        BY <2>5, <3>2
      <4>2. g[s] = Folded(options, h, s)
        BY <2>2, <2>4, <4>1, Zenon
      <4>3. g[s \ {Max(s)}] = h[s \ {Max(s)}]
        <5>1. s \ {Max(s)} \in SUBSET (1 .. n)
          BY <4>1
        <5> QED
          BY <2>4, <5>1, Zenon
      <4> HIDE DEF g
      <4> QED
        BY <4>2, <4>3, Zenon DEF Folded
    <3> QED
      BY <3>1, <3>2
  <2>7. IsFold(options, g, n + 1)
    <3>1. g = [s \in SUBSET (1 .. n + 1) |-> g[s]]
      OBVIOUS
    <3> HIDE DEF g
    <3> QED
      BY <2>6, <3>1 DEF IsFold
  <2> QED
    BY <2>2, <2>7
<1>3. S = Nat
  <2>1. S \in SUBSET Nat
    OBVIOUS
  <2> HIDE DEF S
  <2> QED
    BY <1>1, <1>2, <2>1, SetInduction
<1> QED
  BY <1>3, Zenon

LEMMA NewCfgFolds ==
    ASSUME NEW n \in Nat, NEW options, DOMAIN options = 1 .. n
    PROVE  \E h : IsFold(options, h, n) /\ NewCfg(options) = h[1 .. n]
<1> DEFINE h == CHOOSE h : h = [s \in SUBSET (1 .. n) |-> Folded(options, h, s)]
<1>1. IsFold(options, h, n)
  <2>1. PICK g : IsFold(options, g, n)
    BY FoldExists
  <2> HIDE DEF Folded
  <2> QED
    BY <2>1 DEF IsFold
<1>2. NewCfg(options) = h[1 .. n]
  BY DEF h, Folded, NewCfg, FoldLeft, MapThenFoldSet
<1> HIDE DEF h
<1> QED
  BY <1>1, <1>2

AnyOption == (UNION {Option(role) : role \in Role}) \cup RunnerOption
OptionKind == {"startTimeout", "nilResultAsError"}

LEMMA TwoKinds ==
    ASSUME NEW o \in AnyOption
    PROVE  o \in StartTimeoutOption \cup NilRunResultAsErrorOption
<1>1. \A role : Option(role) \subseteq StartTimeoutOption \cup NilRunResultAsErrorOption
  BY DEF Option
<1>2. CASE o \in RunnerOption
  BY <1>2 DEF RunnerOption
<1>3. CASE o \in UNION {Option(role) : role \in Role}
  <2>1. PICK role \in Role : o \in Option(role)
    BY <1>3
  <2> QED
    BY <1>1, <2>1
<1> QED
  BY <1>2, <1>3 DEF AnyOption

GivenUpTo(k, options, opt) == {i \in 1 .. k : options[i].opt = opt}
LastUpTo(k, options, opt) ==
    IF GivenUpTo(k, options, opt) = {} THEN ZeroCfg[opt] ELSE options[Max(GivenUpTo(k, options, opt))].value

LEMMA LastWins ==
    ASSUME NEW n \in Nat, NEW options \in [1 .. n -> AnyOption]
    PROVE  NewCfg(options) = [startTimeout |-> LastGiven(options, "startTimeout"),
                              nilResultAsError |-> LastGiven(options, "nilResultAsError")]
<1> DEFINE cfgOf(k) == [startTimeout |-> LastUpTo(k, options, "startTimeout"),
                        nilResultAsError |-> LastUpTo(k, options, "nilResultAsError")]
<1>1. PICK h : IsFold(options, h, n) /\ NewCfg(options) = h[1 .. n]
  BY NewCfgFolds
<1>2. \A k \in 0 .. n : h[1 .. k] = Folded(options, h, 1 .. k)
  BY <1>1 DEF IsFold
<1> DEFINE S == {k \in Nat : k <= n => h[1 .. k] = cfgOf(k)}
<1>3. 0 \in S
  <2>1. 1 .. 0 = {}
    OBVIOUS
  <2>2. h[1 .. 0] = ZeroCfg
    <3>1. 0 \in 0 .. n
      OBVIOUS
    <3>2. h[1 .. 0] = Folded(options, h, 1 .. 0)
      BY <1>2, <3>1
    <3> QED
      BY <2>1, <3>2, Zenon DEF Folded
  <2>3. \A opt : GivenUpTo(0, options, opt) = {}
    BY <2>1 DEF GivenUpTo
  <2>4. cfgOf(0) = ZeroCfg
    BY <2>3 DEF LastUpTo, ZeroCfg
  <2> QED
    BY <2>2, <2>4
<1>4. ASSUME NEW k \in S PROVE k + 1 \in S
  <2> SUFFICES ASSUME k + 1 <= n PROVE h[1 .. k + 1] = cfgOf(k + 1)
    OBVIOUS
  <2>1. k \in Nat /\ h[1 .. k] = cfgOf(k) /\ k + 1 \in 1 .. n
    OBVIOUS
  <2>2. options[k + 1].opt \in OptionKind
    <3>1. options[k + 1] \in AnyOption
      BY <2>1
    <3>2. options[k + 1] \in StartTimeoutOption \cup NilRunResultAsErrorOption
      BY <3>1, TwoKinds
    <3> QED
      BY <3>2 DEF StartTimeoutOption, NilRunResultAsErrorOption, OptionKind
  <2>3. h[1 .. k + 1] = Apply(cfgOf(k), options[k + 1])
    <3>1. Max(1 .. k + 1) = k + 1
      <4> DEFINE s == 1 .. k + 1
      <4>1. k + 1 \in Nat /\ k + 1 \in s /\ s \in SUBSET (1 .. k + 1)
        BY <2>1
      <4>2. \A i \in s : i \in Int /\ i <= k + 1
        BY <2>1
      <4> HIDE DEF s
      <4>3. Max(s) \in s /\ k + 1 <= Max(s)
        BY <4>1, MaxOfIndices
      <4>4. Max(s) = k + 1
        <5>1. k \in Nat /\ Max(s) \in Int /\ Max(s) <= k + 1
          BY <2>1, <4>2, <4>3
        <5> QED
          BY <4>3, <5>1
      <4> QED
        BY <4>4 DEF s
    <3>2. (1 .. k + 1) \ {k + 1} = 1 .. k /\ 1 .. k + 1 # {}
      <4>1. k \in Nat
        BY <2>1
      <4>2. k + 1 \in 1 .. k + 1
        BY <4>1
      <4>3. \A i : i \in (1 .. k + 1) \ {k + 1} <=> i \in 1 .. k
        BY <4>1
      <4> QED
        BY <4>2, <4>3
    <3>3. h[1 .. k + 1] = Folded(options, h, 1 .. k + 1)
      BY <1>2, <2>1
    <3> HIDE DEF cfgOf
    <3> QED
      BY <2>1, <3>1, <3>2, <3>3, Zenon DEF Folded
  <2>4. ASSUME NEW opt \in OptionKind
        PROVE  LastUpTo(k + 1, options, opt) =
                   IF options[k + 1].opt = opt THEN options[k + 1].value ELSE LastUpTo(k, options, opt)
    <3>1. CASE options[k + 1].opt = opt
      <4> DEFINE given == GivenUpTo(k + 1, options, opt)
      <4>1. given \in SUBSET (1 .. k + 1) /\ k + 1 \in given
        BY <2>1, <3>1 DEF GivenUpTo
      <4>2. Max(given) \in given /\ \A i \in given : i <= Max(given)
        <5> HIDE DEF given
        <5>1. k + 1 \in Nat /\ given # {}
          BY <2>1, <4>1
        <5> QED
          BY <4>1, <5>1, MaxOfIndices
      <4>3. Max(given) = k + 1
        <5> HIDE DEF given
        <5>1. Max(given) \in 1 .. k + 1 /\ k + 1 <= Max(given)
          BY <4>1, <4>2
        <5> QED
          BY <2>1, <5>1
      <4> QED
        BY <3>1, <4>1, <4>3 DEF LastUpTo
    <3>2. CASE options[k + 1].opt # opt
      <4>1. GivenUpTo(k + 1, options, opt) = GivenUpTo(k, options, opt)
        BY <2>1, <3>2 DEF GivenUpTo
      <4> QED
        BY <3>2, <4>1 DEF LastUpTo
    <3> QED
      BY <3>1, <3>2
  <2>5. CASE options[k + 1].opt = "startTimeout"
    BY <2>3, <2>4, <2>5 DEF Apply, OptionKind
  <2>6. CASE options[k + 1].opt = "nilResultAsError"
    BY <2>3, <2>4, <2>6 DEF Apply, OptionKind
  <2> QED
    BY <2>2, <2>5, <2>6 DEF OptionKind
<1>5. S = Nat
  <2>1. S \in SUBSET Nat
    OBVIOUS
  <2> HIDE DEF S
  <2> QED
    BY <1>3, <1>4, <2>1, SetInduction
<1>6. h[1 .. n] = cfgOf(n)
  <2>1. n \in S
    BY <1>5
  <2> QED
    BY <2>1
<1>7. \A opt : LastUpTo(n, options, opt) = LastGiven(options, opt)
  BY DEF LastUpTo, GivenUpTo, LastGiven
<1> QED
  BY <1>1, <1>6, <1>7

\* Every configuration that a call can leave, as what was given last.
CfgOf(options) ==
    [startTimeout |-> LastGiven(options, "startTimeout"),
     nilResultAsError |-> LastGiven(options, "nilResultAsError")]
Configuration == [startTimeout : Int, nilResultAsError : BOOLEAN]

LEMMA CallCfg ==
    ASSUME NEW options \in AnyOptions \cup OptionsUpTo(MaxOptions, RunnerOption)
    PROVE  NewCfg(options) = CfgOf(options) /\ NewCfg(options) \in Configuration
<1>1. PICK n \in Nat : options \in [1 .. n -> AnyOption]
  <2>1. AnyOption = (UNION {Option(role) : role \in Role}) \cup RunnerOption
    BY DEF AnyOption
  <2>2. \A A : \A o \in OptionsUpTo(MaxOptions, A) : \E i \in Nat : o \in [1 .. i -> A]
    BY HookBuilderAssumption DEF OptionsUpTo
  <2>3. CASE options \in AnyOptions
    <3>1. PICK role \in Role : options \in OptionsUpTo(MaxOptions, Option(role))
      BY <2>3 DEF AnyOptions
    <3>2. Option(role) \subseteq AnyOption
      BY <2>1
    <3>3. PICK i \in Nat : options \in [1 .. i -> Option(role)]
      BY <2>2, <3>1, Zenon
    <3> QED
      BY <3>2, <3>3
  <2>4. CASE options \in OptionsUpTo(MaxOptions, RunnerOption)
    <3>1. PICK i \in Nat : options \in [1 .. i -> RunnerOption]
      BY <2>2, <2>4, Zenon
    <3>2. RunnerOption \subseteq AnyOption
      BY <2>1
    <3> QED
      BY <3>1, <3>2
  <2> QED
    BY <2>3, <2>4
<1>2. NewCfg(options) = CfgOf(options)
  BY <1>1, LastWins DEF CfgOf
<1>3. \A i \in 1 .. n : /\ options[i].opt = "startTimeout" => options[i].value \in Int
                        /\ options[i].opt = "nilResultAsError" => options[i].value \in BOOLEAN
  <2>2. \A o \in StartTimeoutOption : o.opt = "startTimeout" /\ o.value \in Int
    BY HookBuilderAssumption DEF StartTimeoutOption
  <2>3. \A o \in NilRunResultAsErrorOption : o.opt = "nilResultAsError" /\ o.value \in BOOLEAN
    BY DEF NilRunResultAsErrorOption
  <2>4. \A i \in 1 .. n : options[i] \in StartTimeoutOption \cup NilRunResultAsErrorOption
    BY <1>1, TwoKinds
  <2> QED
    BY <2>2, <2>3, <2>4
<1>4. ASSUME NEW opt PROVE \/ LastGiven(options, opt) = ZeroCfg[opt]
                           \/ \E i \in 1 .. n : options[i].opt = opt /\ LastGiven(options, opt) = options[i].value
  <2> DEFINE given == {i \in DOMAIN options : options[i].opt = opt}
  <2>1. given \in SUBSET (1 .. n)
    BY <1>1
  <2>2. CASE given = {}
    BY <2>2 DEF LastGiven
  <2>3. CASE given # {}
    <3>1. Max(given) \in given
      <4> HIDE DEF given
      <4> QED
        BY <1>1, <2>1, <2>3, MaxOfIndices
    <3>2. LastGiven(options, opt) = options[Max(given)].value
      BY <2>3 DEF LastGiven
    <3> QED
      BY <1>1, <3>1, <3>2
  <2> QED
    BY <2>2, <2>3
<1>5. LastGiven(options, "startTimeout") \in Int
  BY <1>3, <1>4 DEF ZeroCfg
<1>6. LastGiven(options, "nilResultAsError") \in BOOLEAN
  BY <1>3, <1>4 DEF ZeroCfg
<1> QED
  BY <1>2, <1>5, <1>6 DEF CfgOf, Configuration

-----------------------------------------------------------------------------
(* The options of the calls that took a role are in the hook. *)

\* Until getHook, the builder holds what the options of each call that took a role say.
CfgHeld == ~built => \A i \in DOMAIN added : cfg[added[i].role] = CfgOf(added[i].options)

\* No options are left in a role that is free: a call that panics half-way leaves none.
FreeHasNoOptions == \A role \in Role : impl[role] = Nil => cfg[role] = ZeroCfg

CfgTypeOK == cfg \in [Role -> Configuration] /\ runnerCfg \in Configuration

OInv == IInv /\ CfgTypeOK /\ CfgHeld /\ FreeHasNoOptions /\ OptionsReachTheSession

LEMMA InitOptions == Init => OInv
<1> SUFFICES ASSUME Init PROVE OInv
  OBVIOUS
<1>1. PICK options \in OptionsUpTo(MaxOptions, RunnerOption) : runnerCfg = NewCfg(options)
  BY DEF Init
<1>2. runnerCfg \in Configuration
  BY <1>1, CallCfg
<1>3. ZeroCfg \in Configuration
  BY DEF ZeroCfg, Configuration
<1>4. ~built /\ DOMAIN added = {}
  BY DEF Init
<1> QED
  BY <1>2, <1>3, <1>4, InitOK DEF OInv, CfgTypeOK, CfgHeld, FreeHasNoOptions, OptionsReachTheSession, Init

\* The configuration of the role is then what the options of the call say.
LEMMA TakeKeepsOptions ==
    ASSUME OInv, NEW role \in Role, NEW options \in OptionsUpTo(MaxOptions, Option(role)), Take(role, options),
           cfg' = [cfg EXCEPT ![role] = CfgOf(options)], CfgOf(options) \in Configuration
    PROVE  OInv'
<1> USE DEF OInv
<1> DEFINE call == [role |-> role, options |-> options]
<1>1. /\ cfg' = [cfg EXCEPT ![role] = CfgOf(options)] /\ UNCHANGED <<built, hook, runnerCfg>>
      /\ impl' = [impl EXCEPT ![role] = Len(added) + 1] /\ Len(added) + 1 # Nil
      /\ added' = IF built THEN added ELSE Append(added, call)
  BY DEF Take, IInv, TypeOK, Nil
<1>2. FreeHasNoOptions'
  BY <1>1 DEF FreeHasNoOptions, CfgTypeOK, IInv, TypeOK
<1>3. IInv'
  BY TakeOK
<1>4. CfgTypeOK'
  BY <1>1 DEF CfgTypeOK
<1>5. CfgHeld'
  <2> SUFFICES ASSUME ~built, NEW i \in DOMAIN added' PROVE cfg'[added'[i].role] = CfgOf(added'[i].options)
    BY <1>1 DEF CfgHeld
  <2>1. added \in Seq(Call) /\ call \in Call /\ added' = Append(added, call)
    BY <1>1 DEF IInv, TypeOK, Call, AnyOptions
  <2>2. CASE i = Len(added) + 1
    <3>1. added'[i] = call
      BY <2>1, <2>2
    <3> QED
      BY <1>1, <3>1 DEF CfgTypeOK
  <2>3. CASE i # Len(added) + 1
    <3>1. i \in DOMAIN added /\ added'[i] = added[i]
      BY <2>1, <2>3
    <3>2. added[i].role # role
      <4>1. impl[role] = Nil
        BY DEF Take, CanAdd, Excludes
      <4>2. impl[added[i].role] = i /\ i # Nil
        BY <2>1, <3>1 DEF IInv, Held, Nil
      <4> QED
        BY <4>1, <4>2
    <3>3. added[i].role \in Role
      <4>1. added[i] \in Call
        BY <2>1, <3>1
      <4> QED
        BY <4>1 DEF Call
    <3> QED
      BY <1>1, <3>1, <3>2, <3>3 DEF CfgTypeOK, CfgHeld
  <2> QED
    BY <2>2, <2>3
<1>6. OptionsReachTheSession'
  BY <1>1 DEF OptionsReachTheSession, StartIsTimed, StartTimeout, NilResultIsError
<1> QED
  BY <1>2, <1>3, <1>4, <1>5, <1>6

LEMMA AddKeepsOptions ==
    ASSUME OInv, NEW role \in Role, NEW options \in OptionsUpTo(MaxOptions, Option(role)), Add(role, options)
    PROVE  OInv'
<1>1. options \in AnyOptions
  BY DEF AnyOptions
<1>2. NewCfg(options) = CfgOf(options) /\ NewCfg(options) \in Configuration
  BY <1>1, CallCfg
<1> QED
  BY <1>2, TakeKeepsOptions DEF Add

LEMMA AddPanicsHalfwayKeepsOptions ==
    ASSUME OInv, NEW role \in Role, AddPanicsHalfway(role)
    PROVE  OInv'
<1>1. cfg[role] = ZeroCfg /\ UNCHANGED cfg /\ Take(role, <<>>)
  BY DEF AddPanicsHalfway, Take, CanAdd, Excludes, OInv, FreeHasNoOptions
<1>2. CfgOf(<<>>) = ZeroCfg
  <2>1. DOMAIN <<>> = {}
    OBVIOUS
  <2> QED
    BY <2>1 DEF CfgOf, LastGiven, ZeroCfg
<1>3. ZeroCfg \in Configuration
  BY DEF ZeroCfg, Configuration
<1>4. cfg' = [cfg EXCEPT ![role] = CfgOf(<<>>)]
  BY <1>1, <1>2 DEF OInv, CfgTypeOK
<1> QED
  BY <1>1, <1>2, <1>3, <1>4, NoOptions, TakeKeepsOptions

LEMMA GetHookKeepsOptions == ASSUME OInv, GetHook PROVE OInv'
<1> USE DEF OInv
<1>1. ~built /\ built' /\ UNCHANGED <<impl, cfg, runnerCfg, added>>
  BY DEF GetHook
<1>2. IInv'
  BY GetHookOK
<1>3. OptionsReachTheSession'
  <2> SUFFICES ASSUME NEW i \in DOMAIN added
               PROVE  LET own == LastGiven(added[i].options, "startTimeout")
                      IN  /\ added[i].role \in {"starter", "readinessRunnable"} =>
                                (StartIsTimed <=> own > 0 \/ (own = 0 /\ runnerCfg.startTimeout > 0))'
                          /\ added[i].role = "runnable" => ~StartIsTimed'
                          /\ added[i].role \in Runnables =>
                                (NilResultIsError <=> \/ runnerCfg.nilResultAsError
                                                      \/ LastGiven(added[i].options, "nilResultAsError"))'
    BY <1>1 DEF OptionsReachTheSession
  <2>1. /\ added[i].role \in Role /\ impl[added[i].role] = i /\ i # Nil
        /\ cfg[added[i].role] = CfgOf(added[i].options) /\ cfg[added[i].role] \in Configuration
        /\ runnerCfg \in Configuration
    <3>1. DOMAIN added = 1 .. Len(added) /\ \A j \in DOMAIN added : added[j] \in Call
      BY DEF IInv, TypeOK
    <3>2. added[i].role \in Role
      BY <3>1 DEF Call
    <3> QED
      BY <1>1, <3>1, <3>2 DEF IInv, Held, Nil, CfgHeld, CfgTypeOK
  <2>2. \A r \in Excludes(added[i].role) \ {added[i].role} : impl[r] = Nil
    BY <2>1 DEF IInv, Exclusive
  <2>3. /\ cfg[added[i].role].startTimeout = LastGiven(added[i].options, "startTimeout")
        /\ cfg[added[i].role].nilResultAsError = LastGiven(added[i].options, "nilResultAsError")
        /\ cfg[added[i].role].startTimeout \in Int /\ runnerCfg.startTimeout \in Int
    BY <2>1 DEF CfgOf, Configuration
  <2>4. CASE added[i].role = "readinessRunnable"
    <3>1. hook' = Adapted("readinessRunnable")
      BY <2>1, <2>4 DEF GetHook
    <3> QED
      BY <1>1, <2>1, <2>3, <2>4, <3>1
      DEF Adapted, Runnables, StartIsTimed, StartTimeout, NilResultIsError
  <2>5. CASE added[i].role = "runnable"
    <3>1. impl["readinessRunnable"] = Nil
      BY <2>2, <2>5 DEF Excludes, Runnables
    <3>2. hook' = Adapted("runnable")
      BY <2>1, <2>5, <3>1 DEF GetHook
    <3> QED
      BY <1>1, <2>1, <2>3, <2>5, <3>2
      DEF Adapted, Runnables, StartIsTimed, StartTimeout, NilResultIsError
  <2>6. CASE added[i].role = "starter"
    <3>1. impl["readinessRunnable"] = Nil /\ impl["runnable"] = Nil
      BY <2>2, <2>6 DEF Excludes, Runnables
    <3>2. hook' = StarterAndCloser
      BY <3>1 DEF GetHook
    <3> QED
      BY <1>1, <2>1, <2>3, <2>6, <3>2
      DEF StarterAndCloser, Runnables, StartIsTimed, StartTimeout, NilResultIsError
  <2>7. CASE added[i].role = "closer"
    BY <2>7 DEF Runnables
  <2> QED
    BY <2>1, <2>4, <2>5, <2>6, <2>7 DEF Role, Runnables
<1> QED
  BY <1>1, <1>2, <1>3 DEF CfgTypeOK, CfgHeld, FreeHasNoOptions

LEMMA OptionsNext == OInv /\ [Next]_vars => OInv'
<1> SUFFICES ASSUME OInv, [Next]_vars PROVE OInv'
  OBVIOUS
<1>1. IInv'
  BY NextOK DEF OInv
<1>2. ASSUME UNCHANGED <<impl, cfg, built, hook, runnerCfg, added>> PROVE OInv'
  BY <1>1, <1>2
  DEF OInv, CfgTypeOK, CfgHeld, FreeHasNoOptions, OptionsReachTheSession, StartIsTimed, StartTimeout, NilResultIsError
<1>3. CASE UNCHANGED vars
  BY <1>2, <1>3 DEF vars
<1>4. ASSUME NEW role \in Role, AddPanics(role) PROVE OInv'
  BY <1>2, <1>4 DEF AddPanics
<1> QED
  BY <1>3, <1>4, AddKeepsOptions, AddPanicsHalfwayKeepsOptions, GetHookKeepsOptions DEF Next, AddNilPanics

\* Whatever options a component was given, in which order and how often, and whatever
\* calls follow: its own last timeout decides how a session starts it unless that is zero,
\* else the Runner's last, and a nil result is an error if either says so.
THEOREM OptionsAreHonoured == Spec => []OptionsReachTheSession
<1>1. Spec => []OInv
  BY InitOptions, OptionsNext, PTL DEF Spec
<1>2. OInv => OptionsReachTheSession
  BY DEF OInv
<1> QED
  BY <1>1, <1>2, PTL
=============================================================================
