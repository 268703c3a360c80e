-------------------------- MODULE DependencySetup ---------------------------
(***************************************************************************)
(* Init::setup_dependencies (init.rs), step by step.  The configuration    *)
(* names applications by id; one application after the other, the code     *)
(* grows the list deps from the application itself, moving into it from    *)
(* others, round after round, those that a member of deps asks for, until  *)
(* a round moves none.  What is left without the application itself is its *)
(* depends list.  At last the lists are turned round for rdepends.         *)
(*                                                                         *)
(* The configuration is not checked: ids in requires may be those of no    *)
(* application, several applications may have the same id (an application  *)
(* that is in two groups is configured twice), and requirements may be     *)
(* circular.                                                               *)
(***************************************************************************)
EXTENDS Dependencies

CONSTANT Id         \* the ids of applications

VARIABLES
  id,        \* the id of each application
  requires,  \* the ids that it requires
  pc,        \* "close", "invert" or "done"
  idx,       \* the application whose depends list is being made
  deps,      \* found so far, idx included
  others,    \* not found so far
  depends,
  rdepends

config == <<id, requires>>
vars == <<config, pc, idx, deps, others, depends, rdepends>>

TypeOK ==
  /\ id \in [App -> Id]
  /\ requires \in [App -> SUBSET Id]
  /\ pc \in {"close", "invert", "done"}
  /\ idx \in App
  /\ deps \in SUBSET App
  /\ others \in SUBSET App
  /\ depends \in [App -> SUBSET App]
  /\ rdepends \in [App -> SUBSET App]

Init ==
  /\ id \in [App -> Id]
  /\ requires \in [App -> SUBSET Id]
  /\ pc = "close"
  /\ idx = 1
  /\ deps = {1}
  /\ others = App \ {1}
  /\ depends = [a \in App |-> {}]
  /\ rdepends = [a \in App |-> {}]

\* The HashMap idxs: of the applications with the same id the last one is in.
Named(name) == {a \in App : id[a] = name /\ \A b \in App : id[b] = name => b <= a}

\* Faulty variants: a round looks at the application's own requires alone, or at
\* those that were moved already too.
PassOfOwn == {o \in others : \E name \in requires[idx] : o \in Named(name)}
PassAgain == {o \in App : \E d \in deps : \E name \in requires[d] : o \in Named(name)}

\* The partition of others: those that the id in a requires of deps stands for.
Pass == {o \in others : \E d \in deps : \E name \in requires[d] : o \in Named(name)}

Grow ==
  /\ pc = "close" /\ Pass # {}
  /\ deps' = deps \cup Pass
  /\ others' = others \ Pass
  /\ UNCHANGED <<config, pc, idx, depends, rdepends>>

\* Faulty variant: one application too many.
MoreThanAll == idx <= NApps

More == idx < NApps

Finish ==
  /\ pc = "close" /\ Pass = {}
  /\ depends' = [depends EXCEPT ![idx] = deps \ {idx}]
  /\ IF More
       THEN /\ idx' = idx + 1
            /\ deps' = {idx + 1}
            /\ others' = App \ {idx + 1}
            /\ UNCHANGED pc
       ELSE pc' = "invert" /\ UNCHANGED <<idx, deps, others>>
  /\ UNCHANGED <<config, rdepends>>

Invert ==
  /\ pc = "invert"
  /\ rdepends' = [a \in App |-> {b \in App : a \in depends[b]}]
  /\ pc' = "done"
  /\ UNCHANGED <<config, idx, deps, others, depends>>

Done == pc = "done" /\ UNCHANGED vars

Next == Grow \/ Finish \/ Invert \/ Done

Spec == Init /\ [][Next]_vars /\ WF_vars(Next)

-----------------------------------------------------------------------------
\* The applications that the ids in each one's requires stand for.
Requires == [a \in App |-> UNION {Named(name) : name \in requires[a]}]

\* The lists that Init runs with are what they are meant to be, whatever the
\* configuration: the transitive closure of the requirements, without the
\* application itself even if it is in a circle, and its inverse.
SetupIsRight ==
  pc = "done" => \A a \in App : /\ depends[a] = Needs(Requires, a)
                                /\ rdepends[a] = NeededBy(depends, a)

\* Why it is right: deps never leaves what every closed set around idx must hold,
\* together with others it is everything, and the lists made so far are right.
LoopInvariant ==
  /\ pc = "close" =>
       /\ idx \in deps
       /\ others = App \ deps
       /\ deps \subseteq Needs(Requires, idx) \cup {idx}
  /\ \A a \in App : pc # "close" \/ a < idx => depends[a] = Needs(Requires, a)
  /\ pc = "done" => \A a \in App : rdepends[a] = NeededBy(depends, a)
=============================================================================
