---------------------------- MODULE Dependencies ----------------------------
(***************************************************************************)
(* What the depends list of an application means.  Applications are the    *)
(* indices of the applications vector, from 1.  The module DependencySetup *)
(* shows that Init::setup_dependencies computes Needs.                     *)
(***************************************************************************)
EXTENDS Naturals

CONSTANT NApps      \* the number of configured applications

ASSUME NAppsAssumption == NApps \in Nat \ {0}

App == 1 .. NApps

\* requires[a] is the set of applications that a asks for by name.  A set is
\* closed when it lacks nothing that its members ask for.
Closed(requires, S) == \A m \in S : requires[m] \subseteq S

\* Everything that a needs, directly or through others, but not a itself: what
\* no closed set with a in it can lack.
Needs(requires, a) ==
  {d \in App \ {a} : \A S \in SUBSET App : a \in S /\ Closed(requires, S) => d \in S}

\* Who needs a.
NeededBy(needs, a) == {b \in App : a \in needs[b]}
=============================================================================
