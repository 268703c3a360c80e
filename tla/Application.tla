---------------------------- MODULE Application ----------------------------
(***************************************************************************)
(* One supervised application, as application.rs keeps it: the AppState    *)
(* enum, the predicates Init asks of it, and what each method of           *)
(* Application makes of the state.  The methods' calls to the kernel       *)
(* (spawn, kill, wait) are the Supervisor's actions; the operators here    *)
(* say which process they are aimed at and what state they leave.          *)
(*                                                                         *)
(* Every variant of the enum is a record with the same two fields, and a   *)
(* variant that lacks a field holds None in it.  Pid 0 is no process: it   *)
(* is the mark Some(0) that claim_child leaves for a dead application, and *)
(* for kill(2) it names the caller's whole process group.                  *)
(***************************************************************************)
CONSTANTS
  Pid,    \* the process identifiers that the kernel hands out
  None    \* Rust's None, of a pid and of a timer

ASSUME PidAssumption == 0 \notin Pid /\ None \notin Pid /\ None # 0

Mode   == {"Simple", "Forking", "OneShot"}
PidOpt == Pid \cup {0, None}

Variant(st, app, exec) == [st |-> st, app |-> app, exec |-> exec]

Idle           == Variant("Idle", None, None)
Complete       == Variant("Complete", None, None)
Starting(exec) == Variant("Starting", None, exec)
Running(app)   == Variant("Running", app, None)
Stopping(app, exec) == Variant("Stopping", app, exec)

AppState ==
  {Idle, Complete}
    \cup {Starting(exec) : exec \in Pid}
    \cup {Running(app) : app \in PidOpt}
    \cup {Stopping(app, exec) : app \in PidOpt, exec \in Pid \cup {None}}

-----------------------------------------------------------------------------
(* The predicates.                                                         *)

IsIdle(s)    == s.st = "Idle"
IsStopped(s) == s.st \in {"Idle", "Complete"}

IsStarted(s) == s.st \in {"Running", "Complete"}

IsRunaway(s) == s.st = "Stopping" /\ s.exec = None
IsDead(s)    == s.st = "Running" /\ s.app = 0

-----------------------------------------------------------------------------
(* start() once the process child has been spawned.  The result of start() *)
(* asks Init for a timer over a start command.                             *)

AfterStart(mode, child) ==
  IF mode = "Simple" THEN Running(child) ELSE Starting(child)

StartAsksTimer(mode) == mode # "Simple"

(* stop().  child is the stop command's process, None when the command     *)
(* could not be spawned or the mode has none.  A one-shot application      *)
(* ignores the request.  The application process that is still known is    *)
(* signalled directly when no stop command runs; a forking application of  *)
(* which none is known has nothing to wait for.                            *)

\* Faulty variant: the application's own process is forgotten.
AfterStopForgets(s, mode, child) ==
  IF mode = "OneShot" THEN s
  ELSE IF mode = "Forking" /\ child = None /\ s.app \in {None, 0} THEN Idle
  ELSE Stopping(None, child)

AfterStop(s, mode, child) ==
  IF mode = "OneShot" THEN s
  ELSE IF mode = "Forking" /\ child = None /\ s.app \in {None, 0} THEN Idle
  ELSE Stopping(s.app, child)

\* Faulty variant: a timer over stop commands only.
StopAsksTimerForCommand(s, mode, child) == mode = "Forking" /\ child # None

StopAsksTimer(s, mode, child) ==
  mode # "OneShot" /\ AfterStop(s, mode, child).st = "Stopping"

\* Whom stop() sends SIGTERM; None for nobody.
TermTarget(s, mode, child) ==
  IF child = None /\ StopAsksTimer(s, mode, child) THEN s.app ELSE None

(* kill(): whom it sends SIGKILL, a running command first.  None stands    *)
(* for the unreachable!() of the last arm.                                 *)

KillTarget(s) ==
  IF s.st = "Starting" \/ (s.st = "Stopping" /\ s.exec # None)
    THEN s.exec
    ELSE s.app

(* claim_child(): whether a reaped child belongs to the application, and   *)
(* what its exit makes of the state.  ok is a zero wait status, pidfile    *)
(* what read_pidfile() returns.                                            *)

Claims(s, child) == child \in {s.app, s.exec}

\* Faulty variant: a dead application keeps the pid that it had.
AfterClaimKeepsPid(s, mode, child, ok, pidfile) ==
  CASE s.st = "Starting" /\ ~ok -> Idle
    [] s.st = "Starting" /\ ok  -> IF mode = "OneShot" THEN Complete
                                                       ELSE Running(pidfile)
    [] s.st = "Running"  -> s
    [] s.st = "Stopping" -> IF None \in {s.app, s.exec} THEN Idle
                            ELSE IF child = s.app THEN Stopping(None, s.exec)
                            ELSE Stopping(s.app, None)

\* Faulty variant: of a stopping application the wrong process is forgotten.
AfterClaimSwapped(s, mode, child, ok, pidfile) ==
  CASE s.st = "Starting" /\ ~ok -> Idle
    [] s.st = "Starting" /\ ok  -> IF mode = "OneShot" THEN Complete
                                                       ELSE Running(pidfile)
    [] s.st = "Running"  -> Running(0)
    [] s.st = "Stopping" -> IF None \in {s.app, s.exec} THEN Idle
                            ELSE IF child = s.app THEN Stopping(s.app, None)
                            ELSE Stopping(None, s.exec)

AfterClaim(s, mode, child, ok, pidfile) ==
  CASE s.st = "Starting" /\ ~ok -> Idle
    [] s.st = "Starting" /\ ok  -> IF mode = "OneShot" THEN Complete
                                                       ELSE Running(pidfile)
    [] s.st = "Running"  -> Running(0)
    [] s.st = "Stopping" -> IF None \in {s.app, s.exec} THEN Idle
                            ELSE IF child = s.app THEN Stopping(None, s.exec)
                            ELSE Stopping(s.app, None)
=============================================================================
