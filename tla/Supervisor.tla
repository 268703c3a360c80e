----------------------------- MODULE Supervisor -----------------------------
(***************************************************************************)
(* Riffol's main loop (init.rs) together with what it talks to: the        *)
(* kernel's process table, the signal thread and its channel (signal.rs),  *)
(* and the channel on which health checks report (health.rs).              *)
(*                                                                         *)
(* The main thread is a program counter.  Each pass of the loop kills what *)
(* is overdue, stops what was asked to stop and starts what may start;     *)
(* each of the three first collects the indices to treat (todo) and then   *)
(* treats them one by one in index order.  Then the thread blocks in       *)
(* select, and for SIGCHLD once more in wait(2).  Everything outside the   *)
(* thread may happen between any two of its steps.                         *)
(***************************************************************************)
EXTENDS Application, Dependencies, Sequences

CONSTANTS
  Requires,      \* Requires[a]: the applications that the ids in a's requires name
  ModeOf,        \* the mode of each application
  Group,         \* the names of health check groups
  ChecksOf,      \* ChecksOf[a]: the groups in a's healthchecks
  StartTimeout,  \* 30 s: SIGKILL for a start command that is still running
  StopTimeout,   \* 5 s: SIGKILL for an application that is still stopping
  RestartDelay,  \* 1 s: before an idle application is started again
  RunsAsInit,    \* is riffol process 1, which the kernel shields from SIGKILL?
  Faults,        \* what may go wrong outside: see FaultKinds
  MaxSigs,       \* bound: signals in the channel
  MaxTerm,       \* bound: SIGTERM and SIGINT that arrive from outside
  MaxFail        \* bound: health check failures

FaultKinds ==
  { "crash",     \* an application's process dies without being asked to
    "spawn",     \* a command cannot be spawned
    "pidfile" }  \* a start command is done before its daemon writes the pidfile

ASSUME SupervisorAssumption ==
  /\ Requires \in [App -> SUBSET App]
  /\ ModeOf \in [App -> Mode]
  /\ ChecksOf \in [App -> SUBSET Group]
  /\ RestartDelay \in Nat /\ StopTimeout \in Nat /\ StartTimeout \in Nat
  /\ 0 < RestartDelay /\ RestartDelay < StopTimeout /\ StopTimeout < StartTimeout
  /\ None \notin Nat
  /\ RunsAsInit \in BOOLEAN
  /\ Faults \subseteq FaultKinds
  /\ MaxSigs \in Nat \ {0} /\ MaxTerm \in Nat /\ MaxFail \in Nat

\* What setup_dependencies leaves in the applications' lists.
depends  == [a \in App |-> Needs(Requires, a)]
rdepends == [a \in App |-> NeededBy(depends, a)]

VARIABLES
  (* the main thread *)
  pc,         \* where it is
  todo,       \* the indices that the current phase has still to treat
  state,      \* inner.state of each application
  needsStop,  \* needs_stop
  killTime,   \* kill_time: what is left of the timer, 0 once due, or None
  startTime,  \* start_time, likewise
  shutdown,   \* the local of run()
  (* the channels that it selects on *)
  sigs,       \* signals, first in first out
  fails,      \* groups with a failed health check, first in first out
  (* the kernel and the world outside *)
  pending,    \* signals raised and not yet taken by the signal thread
  proc,       \* the process table
  pidfile,    \* what reading each application's pidfile gives
  terms,      \* SIGTERMs sent from outside so far
  failures,   \* health check failures so far
  mishap     \* history: has a process died unasked, or come up without a pidfile of its own?

apps   == <<state, needsStop, killTime, startTime>>
kernel == <<proc, pidfile>>
bounds == <<terms, failures, mishap>>
vars   == <<pc, todo, apps, shutdown, sigs, fails, pending, kernel, bounds>>

Ended  == {"exited", "killed", "panicked"}
Timer(max) == 0 .. max \cup {None}
Signal == {"CHLD", "TERM"}     \* TERM stands for SIGTERM and SIGINT alike

Free == [life |-> "free", app |-> 0, role |-> "none", ok |-> TRUE]

Process == {Free} \cup [ life : {"alive", "zombie"},
                         app  : App,
                         role : {"start", "main", "stop"},
                         ok   : BOOLEAN ]

Live(a, role) == [life |-> "alive", app |-> a, role |-> role, ok |-> TRUE]
Dead(q, ok)   == [q EXCEPT !.life = "zombie", !.ok = ok]

In(life) == {p \in Pid : proc[p].life = life}

TypeOK ==
  /\ pc \in {"loop", "kills", "stops", "starts", "select", "wait"} \cup Ended
  /\ todo \in SUBSET App
  /\ state \in [App -> AppState]
  /\ needsStop \in [App -> BOOLEAN]
  /\ killTime \in [App -> Timer(StartTimeout)]
  /\ startTime \in [App -> Timer(RestartDelay)]
  /\ shutdown \in BOOLEAN
  /\ sigs \in Seq(Signal)
  /\ fails \in Seq(Group)
  /\ pending \in SUBSET Signal
  /\ proc \in [Pid -> Process]
  /\ pidfile \in [App -> Pid \cup {None}]
  /\ terms \in 0 .. MaxTerm
  /\ failures \in 0 .. MaxFail
  /\ mishap \in BOOLEAN

Init ==
  /\ pc = "loop"
  /\ todo = {}
  /\ state = [a \in App |-> Idle]
  /\ needsStop = [a \in App |-> FALSE]
  /\ killTime = [a \in App |-> None]
  /\ startTime = [a \in App |-> None]
  /\ shutdown = FALSE
  /\ sigs = <<>>
  /\ fails = <<>>
  /\ pending = {}
  /\ proc = [p \in Pid |-> Free]
  /\ pidfile = [a \in App |-> None]
  /\ terms = 0
  /\ failures = 0
  /\ mishap = FALSE

-----------------------------------------------------------------------------
(* What the main thread asks of the kernel.                                *)

\* signal(pid, SIGKILL).  Pid 0 is every process of riffol's own group:
\* itself, and its children but for daemons, which have left the group.
Victims(pid) ==
  IF pid = 0
    THEN {p \in In("alive") : ~(proc[p].role = "main" /\ ModeOf[proc[p].app] = "Forking")}
    ELSE In("alive") \cap {pid}

SigKill(pid) ==
  /\ proc' = [p \in Pid |-> IF p \in Victims(pid) THEN Dead(proc[p], FALSE) ELSE proc[p]]
  /\ pending' = IF Victims(pid) = {} THEN pending ELSE pending \cup {"CHLD"}

\* signal(pid, SIGTERM).  The processes that get it may die of it or not (see
\* Exit); sent to pid 0 it comes back to riffol itself.
SigTerm(pid) ==
  pending' = IF pid = 0 THEN pending \cup {"TERM"} ELSE pending

\* start_process(): child is the new process, or None when the spawn fails.
\* When it is exec that fails, the forked child has already died and spawn()
\* has waited for it, and its SIGCHLD is still raised.
Spawn(child, a, role) ==
  \/ /\ child \in In("free")
     /\ proc' = [proc EXCEPT ![child] = Live(a, role)]
     /\ UNCHANGED pending
  \/ /\ child = None
     /\ \/ UNCHANGED pending /\ ("spawn" \in Faults \/ In("free") = {})
        \/ pending' = pending \cup {"CHLD"} /\ "spawn" \in Faults
     /\ UNCHANGED proc

-----------------------------------------------------------------------------
(* The passes of the loop.                                                 *)

First(a) == a \in todo /\ \A b \in todo : a <= b
Due(t)   == t = 0

\* Faulty variant: any() in place of all().
AnyStopped == \E a \in App : IsStopped(state[a])

AllStopped == \A a \in App : IsStopped(state[a])

Panic == pc' = "panicked" /\ UNCHANGED <<todo, apps, shutdown, sigs, fails, pending, kernel, bounds>>

LeaveLoop ==
  /\ pc = "loop" /\ shutdown /\ AllStopped
  /\ pc' = "exited"
  /\ UNCHANGED <<todo, apps, shutdown, sigs, fails, pending, kernel, bounds>>

BeginKills ==
  /\ pc = "loop" /\ ~(shutdown /\ AllStopped)
  /\ pc' = "kills"
  /\ todo' = {a \in App : Due(killTime[a])}
  /\ UNCHANGED <<apps, shutdown, sigs, fails, pending, kernel, bounds>>

KillOne(a) ==
  /\ pc = "kills" /\ First(a)
  /\ \/ KillTarget(state[a]) = None /\ Panic
     \/ /\ KillTarget(state[a]) # None
        /\ SigKill(KillTarget(state[a]))
        /\ pc' = IF KillTarget(state[a]) = 0 /\ ~RunsAsInit THEN "killed" ELSE pc
        /\ killTime' = [killTime EXCEPT ![a] = None]
        /\ todo' = todo \ {a}
        /\ UNCHANGED <<state, needsStop, startTime, shutdown, sigs, fails, pidfile, bounds>>

\* Faulty variant: dependants are not waited for.
MayStopAtOnce(a) == needsStop[a]

\* do_stops' filters: dependants go first.
MayStop(a) == needsStop[a] /\ \A r \in rdepends[a] : IsStopped(state[r])

BeginStops ==
  /\ pc = "kills" /\ todo = {}
  /\ pc' = "stops"
  /\ todo' = {a \in App : MayStop(a)}
  /\ UNCHANGED <<apps, shutdown, sigs, fails, pending, kernel, bounds>>

\* What do_stops makes of the application once stop() has returned.
StopsTo(a, child) ==
  /\ state' = [state EXCEPT ![a] = AfterStop(@, ModeOf[a], child)]
  /\ killTime' = IF StopAsksTimer(state[a], ModeOf[a], child)
                   THEN [killTime EXCEPT ![a] = StopTimeout] ELSE killTime
  /\ needsStop' = [needsStop EXCEPT ![a] = FALSE]
  /\ todo' = todo \ {a}
  /\ UNCHANGED <<pc, startTime, shutdown, sigs, fails, pidfile, bounds>>

StopOneShot(a) ==
  /\ pc = "stops" /\ First(a) /\ ModeOf[a] = "OneShot"
  /\ StopsTo(a, None)
  /\ UNCHANGED <<proc, pending>>

\* app_pid.unwrap() panics when there is none.
StopSimple(a) ==
  /\ pc = "stops" /\ First(a) /\ ModeOf[a] = "Simple"
  /\ \/ state[a].app = None /\ Panic
     \/ /\ state[a].app # None
        /\ StopsTo(a, None)
        /\ SigTerm(TermTarget(state[a], ModeOf[a], None))
        /\ UNCHANGED proc

StopForking(a, child) ==
  /\ pc = "stops" /\ First(a) /\ ModeOf[a] = "Forking"
  /\ Spawn(child, a, "stop")
  /\ StopsTo(a, child)

\* do_starts' filters: what an application depends on has been started and is
\* not about to be stopped.
MayStart(a) ==
  /\ IsIdle(state[a])
  /\ startTime[a] = None \/ Due(startTime[a])
  /\ \A d \in depends[a] : ~needsStop[d] /\ IsStarted(state[d])

\* Faulty variant: starts during shutdown.
StartableInShutdown == {a \in App : MayStart(a)}

\* There are no starts during shutdown.
Startable == {a \in App : ~shutdown /\ MayStart(a)}

BeginStarts ==
  /\ pc = "stops" /\ todo = {}
  /\ pc' = "starts"
  /\ todo' = Startable
  /\ UNCHANGED <<apps, shutdown, sigs, fails, pending, kernel, bounds>>

StartRole(a) == IF ModeOf[a] = "Simple" THEN "main" ELSE "start"

StartOne(a, child) ==
  /\ pc = "starts" /\ First(a)
  /\ Spawn(child, a, StartRole(a))
  /\ IF child = None
       THEN /\ startTime' = [startTime EXCEPT ![a] = RestartDelay]
            /\ UNCHANGED <<state, killTime>>
       ELSE /\ startTime' = [startTime EXCEPT ![a] = None]
            /\ state' = [state EXCEPT ![a] = AfterStart(ModeOf[a], child)]
            /\ killTime' = IF StartAsksTimer(ModeOf[a])
                             THEN [killTime EXCEPT ![a] = StartTimeout] ELSE killTime
  /\ todo' = todo \ {a}
  /\ UNCHANGED <<pc, needsStop, shutdown, sigs, fails, pidfile, bounds>>

EnterSelect ==
  /\ pc = "starts" /\ todo = {}
  /\ pc' = "select"
  /\ UNCHANGED <<todo, apps, shutdown, sigs, fails, pending, kernel, bounds>>

-----------------------------------------------------------------------------
(* The events that select waits for.                                       *)

\* Faulty variant: get_next_timeout() looks at kill_time alone.
SelectKillTimer ==
  /\ pc = "select"
  /\ \E a \in App : Due(killTime[a])
  /\ pc' = "loop"
  /\ UNCHANGED <<todo, apps, shutdown, sigs, fails, pending, kernel, bounds>>

\* get_next_timeout() is over at once when a timer is due already.
SelectTimer ==
  /\ pc = "select"
  /\ \E a \in App : Due(killTime[a]) \/ Due(startTime[a])
  /\ pc' = "loop"
  /\ UNCHANGED <<todo, apps, shutdown, sigs, fails, pending, kernel, bounds>>

\* Faulty variant: the stopped are asked to stop too.
ScheduleStopOfAll(S) ==
  [a \in App |-> needsStop[a] \/ \E x \in S : a = x \/ a \in rdepends[x]]

\* schedule_stop() for every application of S.
ScheduleStop(S) ==
  [a \in App |-> \/ needsStop[a]
                 \/ /\ \E x \in S : a = x \/ a \in rdepends[x]
                    /\ ~IsStopped(state[a])]

SelectFail ==
  /\ pc = "select" /\ fails # <<>>
  /\ fails' = Tail(fails)
  /\ needsStop' = ScheduleStop({a \in App : Head(fails) \in ChecksOf[a]})
  /\ pc' = "loop"
  /\ UNCHANGED <<todo, state, killTime, startTime, shutdown, sigs, pending, kernel, bounds>>

SelectTerm ==
  /\ pc = "select" /\ sigs # <<>> /\ Head(sigs) = "TERM"
  /\ sigs' = Tail(sigs)
  /\ needsStop' = ScheduleStop(App)
  /\ shutdown' = TRUE
  /\ pc' = "loop"
  /\ UNCHANGED <<todo, state, killTime, startTime, fails, pending, kernel, bounds>>

\* SIGCHLD: the main thread calls wait(2) once, and sits in it for as long as
\* there are children and none of them has died.
SelectChld ==
  /\ pc = "select" /\ sigs # <<>> /\ Head(sigs) = "CHLD"
  /\ sigs' = Tail(sigs)
  /\ pc' = "wait"
  /\ UNCHANGED <<todo, apps, shutdown, fails, pending, kernel, bounds>>

\* The first application in index order that claims the child has it.
Claimant(a, p) == Claims(state[a], p) /\ \A b \in 1 .. a - 1 : ~Claims(state[b], p)

\* Faulty variant: the kill timer outlives the process.
ClaimedByUnderTimer(a, p) ==
  LET s == AfterClaim(state[a], ModeOf[a], p, proc[p].ok, pidfile[a]) IN
  /\ state' = [state EXCEPT ![a] = s]
  /\ killTime' = [killTime EXCEPT ![a] = IF IsRunaway(s) THEN StopTimeout ELSE @]
  /\ startTime' = [startTime EXCEPT ![a] = IF IsIdle(s) THEN RestartDelay ELSE @]
  /\ needsStop' = IF IsDead(s) THEN ScheduleStop({a}) ELSE needsStop

ClaimedBy(a, p) ==
  LET s == AfterClaim(state[a], ModeOf[a], p, proc[p].ok, pidfile[a]) IN
  /\ state' = [state EXCEPT ![a] = s]
  /\ killTime' = [killTime EXCEPT ![a] = IF IsRunaway(s) THEN StopTimeout ELSE None]
  /\ startTime' = [startTime EXCEPT ![a] = IF IsIdle(s) THEN RestartDelay ELSE @]
  /\ needsStop' = IF IsDead(s) THEN ScheduleStop({a}) ELSE needsStop

Reap(p) ==
  /\ pc = "wait" /\ p \in In("zombie")
  /\ \/ /\ \A a \in App : ~Claims(state[a], p)
        /\ UNCHANGED apps
        /\ pc' = "loop"
     \/ \E a \in App :
          /\ Claimant(a, p)
          /\ IF ModeOf[a] = "Simple" /\ state[a].st = "Starting"   \* unreachable!()
               THEN UNCHANGED apps /\ pc' = "panicked"
               ELSE ClaimedBy(a, p) /\ pc' = "loop"
  /\ proc' = [proc EXCEPT ![p] = Free]
  /\ UNCHANGED <<todo, shutdown, sigs, fails, pending, pidfile, bounds>>

\* wait(2) fails with ECHILD, and nobody claims the -1 it returns.
NoChild ==
  /\ pc = "wait" /\ In("free") = Pid
  /\ pc' = "loop"
  /\ UNCHANGED <<todo, apps, shutdown, sigs, fails, pending, kernel, bounds>>

-----------------------------------------------------------------------------
(* Outside the main thread, for as long as riffol runs.                    *)

Up == pc \notin Ended
main == <<pc, todo, apps, shutdown>>

\* The signal thread takes a signal that was raised, once or many times since
\* it last did, and passes it on.
ForwardSignal(s) ==
  /\ Up /\ s \in pending /\ Len(sigs) < MaxSigs
  /\ pending' = pending \ {s}
  /\ sigs' = Append(sigs, s)
  /\ UNCHANGED <<main, fails, kernel, bounds>>

Terminate ==
  /\ Up /\ terms < MaxTerm
  /\ terms' = terms + 1
  /\ pending' = pending \cup {"TERM"}
  /\ UNCHANGED <<main, sigs, fails, kernel, failures, mishap>>

\* A health check thread reports a failure of one of its group's checks.
HealthFail(g) ==
  /\ Up /\ failures < MaxFail
  /\ failures' = failures + 1
  /\ fails' = Append(fails, g)
  /\ UNCHANGED <<main, sigs, pending, kernel, terms, mishap>>

\* Faulty variant: the time that is left may be less than none.
LessThanNone(t) == IF t = None THEN t ELSE t - 1

\* What is left of a timer one tick later; one that is due stays due.
Less(t) == IF t = None \/ t = 0 THEN t ELSE t - 1

Tick ==
  /\ Up /\ \E a \in App : {killTime[a], startTime[a]} \ {None, 0} # {}
  /\ killTime'  = [a \in App |-> Less(killTime[a])]
  /\ startTime' = [a \in App |-> Less(startTime[a])]
  /\ UNCHANGED <<pc, todo, state, needsStop, shutdown, sigs, fails, pending, kernel, bounds>>

\* An application's own process ends when it is stopped, or unasked.
Crashes(p) == proc[p].role = "main" /\ state[proc[p].app].st # "Stopping"

MayExit(p) == p \in In("alive") /\ (Crashes(p) => "crash" \in Faults)

\* A process that riffol started, or a daemon it adopted, is over.  A one-shot
\* command, or a start command, may fail.
Exit(p, ok) ==
  /\ Up /\ MayExit(p)
  /\ ok \/ proc[p].role = "start"
  /\ ~(ok /\ proc[p].role = "start" /\ ModeOf[proc[p].app] = "Forking")
  /\ proc' = [proc EXCEPT ![p] = Dead(@, ok)]
  /\ pending' = pending \cup {"CHLD"}
  /\ mishap' = (mishap \/ Crashes(p))
  /\ UNCHANGED <<main, sigs, fails, pidfile, terms, failures>>

\* A forking application's start command is done: its daemon is riffol's child
\* from now on, and has written the pidfile or has not yet.  An application for which
\* none is configured is one that never does (fault pidfile): read_pidfile() finds nothing.
Daemonize(p, daemon) ==
  /\ Up /\ MayExit(p) /\ proc[p].role = "start" /\ ModeOf[proc[p].app] = "Forking"
  /\ daemon \in In("free")
  /\ proc' = [proc EXCEPT ![p] = Dead(@, TRUE), ![daemon] = Live(proc[p].app, "main")]
  /\ \/ pidfile' = [pidfile EXCEPT ![proc[p].app] = daemon] /\ UNCHANGED mishap
     \/ "pidfile" \in Faults /\ UNCHANGED pidfile /\ mishap' = TRUE
  /\ pending' = pending \cup {"CHLD"}
  /\ UNCHANGED <<main, sigs, fails, terms, failures>>

\* riffol's process is gone.
Terminated == pc \in Ended /\ UNCHANGED vars

-----------------------------------------------------------------------------

Pass ==
  \/ LeaveLoop \/ BeginKills \/ BeginStops \/ BeginStarts \/ EnterSelect
  \/ \E a \in App : KillOne(a) \/ StopOneShot(a) \/ StopSimple(a)
  \/ \E a \in App, child \in Pid \cup {None} : StopForking(a, child) \/ StartOne(a, child)

Event ==
  \/ SelectTimer \/ SelectFail \/ SelectTerm \/ SelectChld \/ NoChild
  \/ \E p \in Pid : Reap(p)

Outside ==
  \/ Terminate \/ Tick
  \/ \E s \in Signal : ForwardSignal(s)
  \/ \E g \in Group : HealthFail(g)
  \/ \E p \in Pid, ok \in BOOLEAN : Exit(p, ok)
  \/ \E p, daemon \in Pid : Daemonize(p, daemon)

Next == Pass \/ Event \/ Outside \/ Terminated

Spec == Init /\ [][Next]_vars

Fairness ==
  /\ WF_vars(Pass)
  /\ WF_vars(NoChild \/ \E p \in Pid : Reap(p))
  /\ WF_vars(SelectTimer)
  /\ SF_vars(SelectTerm) /\ SF_vars(SelectChld) /\ SF_vars(SelectFail)
  /\ \A s \in Signal : WF_vars(ForwardSignal(s))
  /\ WF_vars(Tick)

FairSpec == Spec /\ Fairness

-----------------------------------------------------------------------------
(* Safety.                                                                 *)

\* An application is Starting, Running or Stopping only while everything it
\* depends on is up: do_starts waits for what is required, do_stops for those
\* who require it, whatever children die and are reaped in between.
DependencyOrder ==
  \A a \in App : ~IsStopped(state[a]) => \A d \in depends[a] : IsStarted(state[d])

\* A stop request always finds something to stop: stop() unwraps the pid of a
\* simple application, so it must never be called on one that has gone idle.
\* Requests are made while a child may die, and may have to wait for
\* dependants; those that do wait are for applications that are up.
StopsAreServiceable ==
  \A a \in App : needsStop[a] =>
    /\ ~IsStopped(state[a])
    /\ pc \in {"starts", "select", "wait"} => state[a].st = "Running"

\* do_kills, do_stops and do_starts collect indices first and treat them one by
\* one: what an index was collected for still holds when its turn comes, though
\* those before it have been treated and time has passed.
SnapshotsHold ==
  /\ pc = "kills"  => \A a \in todo : Due(killTime[a])
  /\ pc = "stops"  => \A a \in todo : MayStop(a) /\ ~IsStopped(state[a])
  /\ pc = "starts" => \A a \in todo : MayStart(a)

\* The three of them together, with what makes them last from one step to the
\* next: the requests that do_stops leaves for later are for applications that
\* are up, and what do_starts is about to start may be started even now.
Orderly ==
  /\ DependencyOrder
  /\ StopsAreServiceable
  /\ SnapshotsHold
  /\ pc = "stops"  => \A a \in App \ todo : needsStop[a] => state[a].st = "Running"
  /\ pc = "starts" => todo \subseteq Startable

\* Once run() has seen a termination signal it is set on leaving: the flag is
\* never taken back, and an application that is down stays down.
ShutdownIsFinal ==
  [][shutdown => /\ shutdown'
                 /\ \A a \in App : IsStopped(state[a]) => IsStopped(state'[a])]_vars

\* Process accounting: the pids that an application holds on to are exactly the
\* processes started for it that have not been reaped yet.  So no process is
\* orphaned, no pid is signalled after the kernel may have given it to another
\* process, and no child is claimed by the wrong application.
ProcessesTracked ==
  \A a \in App, p \in Pid :
    Claims(state[a], p) <=> proc[p].life # "free" /\ proc[p].app = a

\* While an application waits for a process of its own to come to an end, in
\* Starting or Stopping, a kill timer makes sure that it does.
Watched ==
  \A a \in App, p \in In("alive") :
    Claims(state[a], p) /\ state[a].st \in {"Starting", "Stopping"} => killTime[a] # None

\* The main thread reaches none of the panics that its code contains: the
\* unwrap() in stop(), the unreachable!() in claim_child() and in kill().
NoPanic == pc # "panicked"

\* Why the last three hold where nothing forks: every state of an application
\* then names the one process it is about, and a timer runs while it is awaited.
Accounted ==
  /\ \A a \in App :
       \/ state[a] \in {Idle, Complete}
       \/ ModeOf[a] = "OneShot" /\ \E p \in Pid : state[a] = Starting(p)
       \/ ModeOf[a] = "Simple"  /\ \E p \in Pid \cup {0} : state[a] \in {Running(p), Stopping(p, None)}
  /\ \A a \in App : killTime[a] # None => state[a].st \in {"Starting", "Stopping"}
  /\ ProcessesTracked
  /\ Watched
  /\ NoPanic

\* What riffol may signal and wait for is its own: a pid that an application
\* holds on to is that of a process that was started for it and has not been
\* reaped, so that the kernel cannot have given it to another process; and it is
\* never the mark 0, which would mean riffol's own process group.  So it is until
\* a process dies unasked, of which the mark is left, or a pidfile is late, when the
\* pid in it is one of the past, or is not configured; whatever commands fail or are
\* killed meanwhile.
HeldPidsAreOwn ==
  ~mishap => \A a \in App : \A p \in {state[a].app, state[a].exec} \ {None} :
               p \in Pid /\ proc[p].life # "free" /\ proc[p].app = a

\* A Running application is up in fact: no kill timer, SIGKILL or stop, left over
\* from an earlier attempt or meant for another application, has hit its process,
\* and the pid that was read from the pidfile is that of a daemon that lives.  This
\* too is so until the first mishap: a forking application without a configured pidfile
\* is Running with no pid at all, and nothing is claimed from then on.
RunningIsAlive ==
  ~mishap => \A a \in App : state[a].st = "Running" => state[a].app \in In("alive")

Started(a, p, role) == proc[p].life # "free" /\ proc[p].app = a /\ proc[p].role = role

\* Why these two hold until a process dies unasked, or comes up without a pidfile.
\* The two processes of a stopping daemon differ in role, so that reaping
\* one leaves the pid of the other good; no kill timer outlasts what it is for,
\* unless a failed stop has made a forking application Idle; and when a start
\* command is done the pidfile names a daemon, though perhaps that of an earlier
\* attempt which riffol has forgotten.
HeldBy(a) ==
  LET s == state[a] IN
  /\ s.app  # None => s.app \in Pid /\ Started(a, s.app, "main")
  /\ s.exec # None => /\ s.exec \in Pid
                      /\ Started(a, s.exec, IF s.st = "Starting" THEN "start" ELSE "stop")
  /\ s.st = "Running"  => s.app \in In("alive")
  /\ s.st = "Starting" => ModeOf[a] # "Simple"
  /\ killTime[a] # None => \/ s.st \in {"Starting", "Stopping"}
                           \/ s.st = "Idle" /\ ModeOf[a] = "Forking"
  /\ ModeOf[a] = "Forking" /\ s.st = "Starting" /\ proc[s.exec].life = "zombie" /\ proc[s.exec].ok =>
       pidfile[a] \in In("alive") /\ Started(a, pidfile[a], "main")

Held == \A a \in App : HeldBy(a)

HeldUntilMishap == ~mishap => Held

\* When handle_signal() takes an application for a runaway, "the main process
\* is still active": there is a process to be killed later.
RunawayIsActive == \A a \in App : IsRunaway(state[a]) => state[a].app \in Pid

-----------------------------------------------------------------------------
(* Liveness, under FairSpec.                                               *)

\* A termination signal is answered: riffol stops everything and exits.
TerminationServed == (terms > 0) ~> (pc = "exited")

\* A stop request, from a health check or for a dead process, takes the
\* application down, even if its process does not react to SIGTERM.
StopsAreServed == \A a \in App : needsStop[a] ~> IsStopped(state[a])

\* An application whose requirements are up is started sooner or later, unless
\* riffol is told to terminate or the requirements fail meanwhile.
StartServed(a) ==
  (IsIdle(state[a]) /\ \A d \in depends[a] : IsStarted(state[d]))
    ~> (\/ ~IsIdle(state[a]) \/ shutdown
        \/ \E d \in depends[a] : ~IsStarted(state[d]))

\* So it is for an application that requires none but jobs and daemons, whose
\* start commands come to an end that wakes the main thread.
StartsAreServed ==
  \A a \in App : (\A d \in depends[a] : ModeOf[d] # "Simple") => StartServed(a)

\* And for one that requires a simple application too.
AllStartsAreServed == \A a \in App : StartServed(a)

\* Every child that dies is reaped, as befits an init process.
ZombiesAreReaped ==
  \A p \in Pid : (proc[p].life = "zombie") ~> (proc[p].life # "zombie" \/ ~Up)

-----------------------------------------------------------------------------
(* What all this implements.                                               *)

phase == [a \in App |-> state[a].st]

over == IF pc = "exited" THEN "left"
        ELSE IF pc \in {"killed", "panicked"} THEN "aborted"
        ELSE "no"

L == INSTANCE Lifecycle WITH closing <- shutdown

\* The main loop, through every interleaving with processes, signals, health
\* checks and timers, keeps the promises of Lifecycle.
Promise == L!Spec
=============================================================================
