----------------------------- MODULE Lifecycle ------------------------------
(***************************************************************************)
(* What riffol promises whoever configures applications that require one   *)
(* another, with nothing said of processes, signals, timers or the order   *)
(* in which the main loop gets to things:                                  *)
(*                                                                         *)
(*   - an application is launched only when all that it depends on is up,  *)
(*   - and taken down only when all that depends on it is down;            *)
(*   - once riffol is closing nothing is launched any more;                *)
(*   - riffol leaves only when it is closing and everything is down.       *)
(*                                                                         *)
(* Supervisor implements this specification.  That riffol may also be      *)
(* aborted, by a signal or by a panic of its own, is conceded here and is  *)
(* what NoPanic and RunawayIsActive are about there.                       *)
(***************************************************************************)
CONSTANTS
  App,      \* the applications
  depends   \* depends[a]: the applications that a depends on

VARIABLES
  phase,    \* the phase of life of each application
  closing,  \* was riffol told to terminate?
  over      \* how riffol itself came to an end

vars == <<phase, closing, over>>

Phase == {"Idle", "Starting", "Running", "Stopping", "Complete"}

TypeOK ==
  /\ phase \in [App -> Phase]
  /\ closing \in BOOLEAN
  /\ over \in {"no", "left", "aborted"}

Down(a) == phase[a] \in {"Idle", "Complete"}
Up(a)   == phase[a] \in {"Running", "Complete"}

Init ==
  /\ phase = [a \in App |-> "Idle"]
  /\ closing = FALSE
  /\ over = "no"

Launch(a) ==
  /\ over = "no" /\ ~closing
  /\ phase[a] = "Idle"
  /\ \A d \in depends[a] : Up(d)
  /\ \E next \in {"Starting", "Running"} : phase' = [phase EXCEPT ![a] = next]
  /\ UNCHANGED <<closing, over>>

\* A launch has come to its end, one way or another.
Settle(a) ==
  /\ over = "no"
  /\ phase[a] = "Starting"
  /\ \E next \in {"Running", "Complete", "Idle"} : phase' = [phase EXCEPT ![a] = next]
  /\ UNCHANGED <<closing, over>>

Retire(a) ==
  /\ over = "no"
  /\ ~Down(a)
  /\ \A b \in App : a \in depends[b] => phase[b] \in {"Idle", "Complete"}
  /\ \E next \in {"Stopping", "Idle"} : phase' = [phase EXCEPT ![a] = next]
  /\ UNCHANGED <<closing, over>>

Gone(a) ==
  /\ over = "no"
  /\ phase[a] = "Stopping"
  /\ phase' = [phase EXCEPT ![a] = "Idle"]
  /\ UNCHANGED <<closing, over>>

Close ==
  /\ over = "no" /\ ~closing
  /\ closing' = TRUE
  /\ UNCHANGED <<phase, over>>

Leave ==
  /\ over = "no" /\ closing
  /\ \A a \in App : Down(a)
  /\ over' = "left"
  /\ UNCHANGED <<phase, closing>>

Abort ==
  /\ over = "no"
  /\ over' = "aborted"
  /\ UNCHANGED <<phase, closing>>

Next ==
  \/ Close \/ Leave \/ Abort
  \/ \E a \in App : Launch(a) \/ Settle(a) \/ Retire(a) \/ Gone(a)

Spec == Init /\ [][Next]_vars
=============================================================================
