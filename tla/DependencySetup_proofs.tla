----------------------- MODULE DependencySetup_proofs -----------------------
(***************************************************************************)
(* setup_dependencies computes the closure, for every number of            *)
(* applications and every configuration of them.                           *)
(***************************************************************************)
EXTENDS DependencySetup, TLAPS

-----------------------------------------------------------------------------
(* About the closure.                                                      *)

\* A set between an application and what it needs that is closed is all that it
\* needs: the loop may stop as soon as a round moves nothing.
LEMMA ClosedIsEnough ==
  ASSUME NEW requirement, NEW a \in App, NEW S \in SUBSET App,
         a \in S, S \subseteq Needs(requirement, a) \cup {a}, Closed(requirement, S)
  PROVE  S \ {a} = Needs(requirement, a)
<1>1. ASSUME NEW d \in Needs(requirement, a) PROVE d \in S \ {a}
  BY <1>1 DEF Needs
<1>2. QED
  BY <1>1

\* What a member of such a set requires may be added to it.
LEMMA GrowthIsNeeded ==
  ASSUME NEW requirement, NEW a \in App, NEW S \in SUBSET App,
         S \subseteq Needs(requirement, a) \cup {a},
         NEW d \in S, NEW e \in requirement[d], e \in App
  PROVE  e \in Needs(requirement, a) \cup {a}
<1>1. SUFFICES ASSUME e # a,
                      NEW T \in SUBSET App, a \in T, Closed(requirement, T)
               PROVE  e \in T
  BY DEF Needs
<1>2. d \in T
  BY <1>1 DEF Needs
<1>3. QED
  BY <1>1, <1>2 DEF Closed

-----------------------------------------------------------------------------

LEMMA TypeInit == Init => TypeOK
BY NAppsAssumption DEF Init, TypeOK, App

LEMMA TypeStep == TypeOK /\ [Next]_vars => TypeOK'
<1> SUFFICES ASSUME TypeOK, [Next]_vars PROVE TypeOK'
  OBVIOUS
<1> USE DEF TypeOK
<1>1. CASE Grow
  BY <1>1 DEF Grow, Pass, config
<1>2. CASE Finish
  <2>1. depends' \in [App -> SUBSET App]
    BY <1>2 DEF Finish
  <2>2. idx' \in App /\ deps' \in SUBSET App /\ others' \in SUBSET App
    <3>1. CASE idx < NApps
      <4>1. idx + 1 \in App
        BY <3>1, NAppsAssumption DEF App
      <4>2. QED
        BY <1>2, <3>1, <4>1 DEF Finish, More
    <3>2. CASE ~(idx < NApps)
      BY <1>2, <3>2 DEF Finish, More
    <3>3. QED
      BY <3>1, <3>2
  <2>3. QED
    BY <1>2, <2>1, <2>2 DEF Finish, config
<1>3. CASE Invert
  BY <1>3 DEF Invert, config
<1>4. CASE UNCHANGED vars
  BY <1>4 DEF vars, config
<1>5. QED
  BY <1>1, <1>2, <1>3, <1>4 DEF Next, Done

\* Type correctness.
THEOREM TypeCorrect == Spec => []TypeOK
BY TypeInit, TypeStep, PTL DEF Spec

\* A round that moves nothing finds deps closed.
LEMMA NoPassIsClosed ==
  ASSUME TypeOK, others = App \ deps, Pass = {}
  PROVE  Closed(Requires, deps)
<1>1. SUFFICES ASSUME NEW d \in deps, NEW name \in requires[d], NEW o \in Named(name), o \notin deps
               PROVE  FALSE
  BY DEF Closed, Requires, TypeOK
<1>2. o \in others
  BY <1>1 DEF Named
<1>3. QED
  BY <1>1, <1>2 DEF Pass

LEMMA LoopInit == Init => LoopInvariant
<1> SUFFICES ASSUME Init PROVE LoopInvariant
  OBVIOUS
<1>1. \A a \in App : ~(a < idx)
  BY NAppsAssumption DEF Init, App
<1>2. QED
  BY <1>1 DEF Init, LoopInvariant

LEMMA LoopStep == TypeOK /\ TypeOK' /\ LoopInvariant /\ [Next]_vars => LoopInvariant'
<1> SUFFICES ASSUME TypeOK, TypeOK', LoopInvariant, [Next]_vars PROVE LoopInvariant'
  OBVIOUS
<1>0. UNCHANGED config => Requires' = Requires
  BY DEF config, Requires, Named
<1>1. CASE Grow
  <2>1. UNCHANGED <<pc, idx, depends, rdepends>> /\ pc = "close" /\ Requires' = Requires
    BY <1>0, <1>1 DEF Grow
  <2>2. idx \in deps' /\ others' = App \ deps'
    BY <1>1 DEF Grow, LoopInvariant, TypeOK
  <2>3. deps' \subseteq Needs(Requires, idx) \cup {idx}
    <3>1. SUFFICES ASSUME NEW o \in Pass PROVE o \in Needs(Requires, idx) \cup {idx}
      BY <1>1 DEF Grow, LoopInvariant
    <3>2. PICK d \in deps : o \in Requires[d]
      BY DEF Pass, Requires, TypeOK
    <3>3. o \in App
      BY DEF Pass, TypeOK
    <3>4. QED
      BY <2>1, <3>2, <3>3, GrowthIsNeeded DEF LoopInvariant, TypeOK
  <2>4. QED
    BY <2>1, <2>2, <2>3 DEF LoopInvariant
<1>2. CASE Finish
  <2>1. Requires' = Requires /\ pc = "close"
    BY <1>0, <1>2 DEF Finish
  <2>2. depends'[idx] = Needs(Requires, idx)
    <3>1. Closed(Requires, deps)
      BY <1>2, NoPassIsClosed DEF Finish, LoopInvariant
    <3>2. deps \ {idx} = Needs(Requires, idx)
      BY <2>1, <3>1, ClosedIsEnough DEF LoopInvariant, TypeOK
    <3>3. QED
      BY <1>2, <3>2 DEF Finish, TypeOK
  <2>3. \A a \in App : a <= idx => depends'[a] = Needs(Requires, a)
    <3>1. \A a \in App : a # idx => depends'[a] = depends[a]
      BY <1>2 DEF Finish, TypeOK
    <3>2. \A a \in App : a <= idx /\ a # idx => a < idx
      BY DEF App, TypeOK
    <3>3. QED
      BY <2>2, <3>1, <3>2 DEF LoopInvariant
  <2>4. CASE idx < NApps
    <3>1. pc' = "close" /\ idx' = idx + 1 /\ idx' \in deps' /\ others' = App \ deps' /\ deps' = {idx'}
      BY <1>2, <2>4 DEF Finish, More
    <3>2. \A a \in App : a < idx' => a <= idx
      BY <3>1 DEF App, TypeOK
    <3>3. QED
      BY <2>1, <2>3, <3>1, <3>2 DEF LoopInvariant
  <2>5. CASE ~(idx < NApps)
    <3>1. pc' = "invert"
      BY <1>2, <2>5 DEF Finish, More
    <3>2. \A a \in App : a <= idx
      BY <2>5, NAppsAssumption DEF App, TypeOK
    <3>3. QED
      BY <2>1, <2>3, <3>1, <3>2 DEF LoopInvariant
  <2>6. QED
    BY <2>4, <2>5
<1>3. CASE Invert
  <2>1. pc = "invert" /\ pc' = "done" /\ UNCHANGED <<idx, depends>> /\ Requires' = Requires
    BY <1>0, <1>3 DEF Invert
  <2>2. \A a \in App : rdepends'[a] = NeededBy(depends', a)
    BY <1>3, <2>1 DEF Invert, NeededBy
  <2>3. QED
    BY <2>1, <2>2 DEF LoopInvariant
<1>4. CASE UNCHANGED vars
  <2>1. UNCHANGED <<pc, idx, deps, others, depends, rdepends>> /\ Requires' = Requires
    BY <1>0, <1>4 DEF vars
  <2>2. QED
    BY <2>1 DEF LoopInvariant
<1>5. QED
  BY <1>1, <1>2, <1>3, <1>4 DEF Next, Done

\* Why it does.
THEOREM LoopCorrect == Spec => []LoopInvariant
BY LoopInit, LoopStep, TypeCorrect, PTL DEF Spec

\* setup_dependencies (init.rs:262-324) leaves the closure of the requirements
\* in depends and its inverse in rdepends: for any number of applications, and
\* with ids that are unknown, repeated or circular.
THEOREM SetupCorrect == Spec => []SetupIsRight
<1>1. LoopInvariant => SetupIsRight
  BY DEF LoopInvariant, SetupIsRight
<1>2. QED
  BY <1>1, LoopCorrect, PTL
=============================================================================
