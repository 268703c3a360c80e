-------------------------- MODULE Supervisor_proofs -------------------------
(***************************************************************************)
(* What the main loop guarantees for every configuration, every number of  *)
(* processes and every bound.                                              *)
(***************************************************************************)
EXTENDS Supervisor, TLAPS

-----------------------------------------------------------------------------
(* Applications.                                                           *)

LEMMA NoneIsNoPid == None \notin Pid /\ 0 \notin Pid /\ None # 0
BY PidAssumption

LEMMA StartType ==
  ASSUME NEW child \in Pid, NEW mode
  PROVE  AfterStart(mode, child) \in AppState
BY DEF AfterStart, AppState, Running, Starting, PidOpt

LEMMA StopType ==
  ASSUME NEW s \in AppState, NEW mode, NEW child \in Pid \cup {None}
  PROVE  AfterStop(s, mode, child) \in AppState
<1>1. s.app \in PidOpt
  BY DEF AppState, Idle, Complete, Starting, Running, Stopping, Variant, PidOpt
<1>2. Stopping(s.app, child) \in AppState
  BY <1>1 DEF AppState
<1>3. QED
  BY <1>2 DEF AfterStop, AppState

\* A child that an application claims is the process of its start command, of
\* its stop command, or its own.
LEMMA ClaimType ==
  ASSUME NEW s \in AppState, NEW child \in Pid, Claims(s, child), NEW mode, NEW ok \in BOOLEAN,
         NEW pidf \in Pid \cup {None}
  PROVE  AfterClaim(s, mode, child, ok, pidf) \in AppState
<1>1. s.st \in {"Starting", "Running", "Stopping"}
  BY NoneIsNoPid DEF AppState, Claims, Idle, Complete, Starting, Running, Stopping, Variant
<1>2. s.app \in PidOpt
  BY DEF AppState, Idle, Complete, Starting, Running, Stopping, Variant, PidOpt
<1>3. s.exec \in Pid \cup {None}
  BY DEF AppState, Idle, Complete, Starting, Running, Stopping, Variant, PidOpt
<1>4. /\ Idle \in AppState /\ Complete \in AppState
      /\ \A p \in PidOpt : Running(p) \in AppState
      /\ \A p \in PidOpt, e \in Pid \cup {None} : Stopping(p, e) \in AppState
  BY DEF AppState
<1>5. pidf \in PidOpt /\ 0 \in PidOpt /\ None \in PidOpt
  BY DEF PidOpt
<1>6. CASE s.st = "Starting"
  BY <1>4, <1>5, <1>6 DEF AfterClaim
<1>7. CASE s.st = "Running"
  BY <1>4, <1>5, <1>7 DEF AfterClaim
<1>8. CASE s.st = "Stopping"
  BY <1>2, <1>3, <1>4, <1>5, <1>8 DEF AfterClaim
<1>9. QED
  BY <1>1, <1>6, <1>7, <1>8

-----------------------------------------------------------------------------
(* Type correctness.                                                       *)

LEMMA TimersTyped ==
  /\ None \in Timer(StartTimeout) /\ None \in Timer(RestartDelay)
  /\ StartTimeout \in Timer(StartTimeout) /\ StopTimeout \in Timer(StartTimeout)
  /\ RestartDelay \in Timer(RestartDelay)
BY SupervisorAssumption DEF Timer

LEMMA LessTyped ==
  ASSUME NEW max \in Nat, NEW t \in Timer(max)
  PROVE  Less(t) \in Timer(max)
BY DEF Timer, Less

LEMMA SpawnTyped ==
  ASSUME TypeOK, NEW a \in App, NEW child \in Pid \cup {None},
         NEW role \in {"start", "main", "stop"}, Spawn(child, a, role)
  PROVE  proc' \in [Pid -> Process] /\ pending' \in SUBSET Signal
<1>1. Live(a, role) \in Process
  BY DEF Live, Process
<1>2. QED
  BY <1>1 DEF TypeOK, Spawn, Signal

LEMMA DeadTyped ==
  ASSUME NEW q \in Process, q.life = "alive", NEW ok \in BOOLEAN
  PROVE  Dead(q, ok) \in Process
<1>1. q \in [life : {"alive", "zombie"}, app : App, role : {"start", "main", "stop"}, ok : BOOLEAN]
  BY DEF Process, Free
<1>2. QED
  BY <1>1 DEF Dead, Process

\* Every variable keeps to its type; of the pids in an application's state,
\* only those are None or 0 that may be in the code.
THEOREM TypeCorrect == Spec => []TypeOK
<1>1. Init => TypeOK
  <2> SUFFICES ASSUME Init PROVE TypeOK
    OBVIOUS
  <2>1. Free \in Process
    BY DEF Process
  <2>2. Idle \in AppState
    BY DEF AppState
  <2>3. sigs \in Seq(Signal) /\ fails \in Seq(Group)
    BY DEF Init
  <2>4. terms \in 0 .. MaxTerm /\ failures \in 0 .. MaxFail
    BY SupervisorAssumption DEF Init
  <2>5. QED
    BY <2>1, <2>2, <2>3, <2>4, TimersTyped DEF Init, TypeOK
<1>2. TypeOK /\ [Next]_vars => TypeOK'
  <2> SUFFICES ASSUME TypeOK, [Next]_vars PROVE TypeOK'
    OBVIOUS
  <2> USE DEF TypeOK
  <2>1. CASE LeaveLoop
    BY <2>1 DEF LeaveLoop, apps, kernel, bounds, Ended
  <2>2. CASE BeginKills
    BY <2>2 DEF BeginKills, apps, kernel, bounds
  <2>3. CASE BeginStops
    BY <2>3 DEF BeginStops, apps, kernel, bounds
  <2>4. CASE BeginStarts
    BY <2>4 DEF BeginStarts, Startable, apps, kernel, bounds
  <2>5. CASE EnterSelect
    BY <2>5 DEF EnterSelect, apps, kernel, bounds
  <2>6. ASSUME NEW a \in App, KillOne(a) PROVE TypeOK'
    <3>1. CASE KillTarget(state[a]) = None /\ Panic
      BY <3>1 DEF Panic, apps, kernel, bounds, Ended
    <3>2. CASE KillTarget(state[a]) # None /\ SigKill(KillTarget(state[a]))
               /\ UNCHANGED <<state, needsStop, startTime, shutdown, sigs, fails, pidfile, bounds>>
      <4>1. proc' \in [Pid -> Process] /\ pending' \in SUBSET Signal
        BY <3>2, DeadTyped DEF SigKill, Victims, In, Signal
      <4>2. pc' \in {"kills", "killed", "panicked"} /\ todo' \in SUBSET App
            /\ killTime' \in [App -> Timer(StartTimeout)]
        BY <2>6, <3>2, TimersTyped DEF KillOne, Panic, apps
      <4>3. QED
        BY <3>2, <4>1, <4>2 DEF bounds, Ended
    <3>3. QED
      BY <2>6, <3>1, <3>2 DEF KillOne
  <2>7. ASSUME NEW a \in App, NEW child \in Pid \cup {None}, StopsTo(a, child),
               proc' \in [Pid -> Process], pending' \in SUBSET Signal
        PROVE  TypeOK'
    <3>1. state' \in [App -> AppState]
      BY <2>7, StopType DEF StopsTo
    <3>2. killTime' \in [App -> Timer(StartTimeout)] /\ needsStop' \in [App -> BOOLEAN]
      BY <2>7, TimersTyped DEF StopsTo
    <3>3. QED
      BY <2>7, <3>1, <3>2 DEF StopsTo, bounds
  <2>8. ASSUME NEW a \in App, StopOneShot(a) PROVE TypeOK'
    BY <2>7, <2>8 DEF StopOneShot
  <2>9. ASSUME NEW a \in App, StopSimple(a) PROVE TypeOK'
    <3>1. CASE Panic
      BY <3>1 DEF Panic, apps, kernel, bounds, Ended
    <3>2. CASE StopsTo(a, None) /\ SigTerm(TermTarget(state[a], ModeOf[a], None)) /\ UNCHANGED proc
      BY <2>7, <3>2 DEF SigTerm, Signal
    <3>3. QED
      BY <2>9, <3>1, <3>2 DEF StopSimple
  <2>10. ASSUME NEW a \in App, NEW child \in Pid \cup {None}, StopForking(a, child) PROVE TypeOK'
    BY <2>7, <2>10, SpawnTyped DEF StopForking
  <2>11. ASSUME NEW a \in App, NEW child \in Pid \cup {None}, StartOne(a, child) PROVE TypeOK'
    <3>1. proc' \in [Pid -> Process] /\ pending' \in SUBSET Signal
      BY <2>11, SpawnTyped DEF StartOne, StartRole
    <3>2. startTime' \in [App -> Timer(RestartDelay)]
      BY <2>11, TimersTyped DEF StartOne
    <3>3. killTime' \in [App -> Timer(StartTimeout)]
      BY <2>11, TimersTyped DEF StartOne
    <3>4. state' \in [App -> AppState]
      BY <2>11, StartType DEF StartOne
    <3>5. QED
      BY <2>11, <3>1, <3>2, <3>3, <3>4 DEF StartOne, bounds
  <2>12. CASE SelectTimer
    BY <2>12 DEF SelectTimer, apps, kernel, bounds
  <2>13. CASE SelectFail
    BY <2>13 DEF SelectFail, ScheduleStop, kernel, bounds
  <2>14. CASE SelectTerm
    BY <2>14 DEF SelectTerm, ScheduleStop, kernel, bounds
  <2>15. CASE SelectChld
    BY <2>15 DEF SelectChld, apps, kernel, bounds
  <2>16. CASE NoChild
    BY <2>16 DEF NoChild, apps, kernel, bounds
  <2>17. ASSUME NEW p \in Pid, Reap(p) PROVE TypeOK'
    <3>1. Free \in Process
      BY DEF Free, Process
    <3>2. proc' \in [Pid -> Process]
      BY <2>17, <3>1 DEF Reap
    <3>3. pc' \in {"loop", "panicked"}
      BY <2>17 DEF Reap
    <3>4. /\ state' \in [App -> AppState]
          /\ killTime' \in [App -> Timer(StartTimeout)]
          /\ startTime' \in [App -> Timer(RestartDelay)]
          /\ needsStop' \in [App -> BOOLEAN]
      <4>1. CASE UNCHANGED apps
        BY <4>1 DEF apps
      <4>2. ASSUME NEW a \in App, Claimant(a, p), ClaimedBy(a, p)
            PROVE  /\ state' \in [App -> AppState]
                   /\ killTime' \in [App -> Timer(StartTimeout)]
                   /\ startTime' \in [App -> Timer(RestartDelay)]
                   /\ needsStop' \in [App -> BOOLEAN]
        <5>1. proc[p].ok \in BOOLEAN
          <6>1. proc[p] \in Process
            OBVIOUS
          <6>2. CASE proc[p] = Free
            BY <6>2 DEF Free
          <6>3. CASE proc[p] # Free
            BY <6>1, <6>3 DEF Process
          <6>4. QED
            BY <6>2, <6>3
        <5>2. AfterClaim(state[a], ModeOf[a], p, proc[p].ok, pidfile[a]) \in AppState
          BY <4>2, <5>1, ClaimType DEF Claimant
        <5>3. needsStop' \in [App -> BOOLEAN]
          BY <4>2 DEF ClaimedBy, ScheduleStop
        <5>4. QED
          BY <4>2, <5>2, <5>3, TimersTyped DEF ClaimedBy
      <4>3. QED
        BY <2>17, <4>1, <4>2 DEF Reap
    <3>5. QED
      BY <2>17, <3>2, <3>3, <3>4 DEF Reap, bounds, Ended
  <2>18. ASSUME NEW s \in Signal, ForwardSignal(s) PROVE TypeOK'
    <3>1. sigs' \in Seq(Signal)
      BY <2>18 DEF ForwardSignal
    <3>2. QED
      BY <2>18, <3>1 DEF ForwardSignal, main, apps, kernel, bounds
  <2>19. CASE Terminate
    BY <2>19, SupervisorAssumption DEF Terminate, Signal, main, apps, kernel, bounds
  <2>20. ASSUME NEW g \in Group, HealthFail(g) PROVE TypeOK'
    BY <2>20, SupervisorAssumption DEF HealthFail, main, apps, kernel, bounds
  <2>21. CASE Tick
    <3>1. killTime' \in [App -> Timer(StartTimeout)]
      BY <2>21, LessTyped, SupervisorAssumption DEF Tick
    <3>2. startTime' \in [App -> Timer(RestartDelay)]
      BY <2>21, LessTyped, SupervisorAssumption DEF Tick
    <3>3. QED
      BY <2>21, <3>1, <3>2 DEF Tick, kernel, bounds
  <2>22. ASSUME NEW p \in Pid, NEW ok \in BOOLEAN, Exit(p, ok) PROVE TypeOK'
    <3>1. proc' \in [Pid -> Process]
      BY <2>22, DeadTyped DEF Exit, MayExit, In
    <3>2. QED
      BY <2>22, <3>1 DEF Exit, Signal, main, apps, bounds
  <2>23. ASSUME NEW p \in Pid, NEW daemon \in Pid, Daemonize(p, daemon) PROVE TypeOK'
    <3>1. proc[p].app \in App /\ proc[p].life = "alive"
      BY <2>23 DEF Daemonize, MayExit, In, Process, Free
    <3>2. Live(proc[p].app, "main") \in Process
      BY <3>1 DEF Live, Process
    <3>3. proc' \in [Pid -> Process]
      BY <2>23, <3>1, <3>2, DeadTyped DEF Daemonize
    <3>4. pidfile' \in [App -> Pid \cup {None}]
      BY <2>23, <3>1 DEF Daemonize
    <3>5. QED
      BY <2>23, <3>3, <3>4 DEF Daemonize, Signal, main, apps, bounds
  <2>24. CASE UNCHANGED vars
    BY <2>24 DEF vars, apps, kernel, bounds
  <2>25. QED
    BY <2>1, <2>2, <2>3, <2>4, <2>5, <2>6, <2>8, <2>9, <2>10, <2>11, <2>12, <2>13, <2>14, <2>15,
       <2>16, <2>17, <2>18, <2>19, <2>20, <2>21, <2>22, <2>23, <2>24
    DEF Next, Pass, Event, Outside, Terminated
<1>3. QED
  BY <1>1, <1>2, PTL DEF Spec
-----------------------------------------------------------------------------
(* The order of starts and stops.                                          *)

LEMMA DependsFacts ==
  /\ \A a \in App : depends[a] \subseteq App /\ a \notin depends[a]
  /\ \A a, b \in App : b \in rdepends[a] <=> a \in depends[b]
BY DEF depends, rdepends, Needs, NeededBy

\* A child that dies never takes down an application that is up.
LEMMA ClaimEffect ==
  ASSUME NEW s \in AppState, NEW child \in Pid, Claims(s, child), NEW mode, NEW ok, NEW pidf
  PROVE  LET t == AfterClaim(s, mode, child, ok, pidf) IN
         \/ s.st = "Starting" /\ t.st \in {"Idle", "Running", "Complete"}
         \/ s.st = "Running"  /\ t.st = "Running"
         \/ s.st = "Stopping" /\ t.st \in {"Idle", "Stopping"}
<1>1. s.st \in {"Starting", "Running", "Stopping"}
  BY NoneIsNoPid DEF AppState, Claims, Idle, Complete, Starting, Running, Stopping, Variant
<1>2. QED
  BY <1>1 DEF AfterClaim, Idle, Complete, Running, Stopping, Variant

LEMMA StopEffect ==
  ASSUME NEW s, NEW mode, NEW child
  PROVE  \/ AfterStop(s, mode, child) = s
         \/ AfterStop(s, mode, child).st \in {"Idle", "Stopping"}
BY DEF AfterStop, Idle, Stopping, Variant

\* Requests are made of none but those that have something to stop.
LEMMA RequestsAreServiceable ==
  ASSUME NEW S \in SUBSET App, NEW a \in App, ScheduleStop(S)[a]
  PROVE  needsStop[a] \/ ~IsStopped(state[a])
BY DEF ScheduleStop

LEMMA DueStaysDue == /\ \A t : Due(t) => Due(Less(t))
                     /\ Less(None) = None
BY DEF Due, Less

\* Steps of the loop that only move on.
LEMMA BeginsOrderly ==
  ASSUME TypeOK, Orderly, BeginKills \/ BeginStops \/ BeginStarts \/ EnterSelect
  PROVE  Orderly'
<1>1. UNCHANGED <<state, needsStop, killTime, startTime, shutdown>>
  BY DEF BeginKills, BeginStops, BeginStarts, EnterSelect, apps
<1>2. DependencyOrder'
  BY <1>1 DEF Orderly, DependencyOrder
<1>3. CASE BeginKills
  BY <1>1, <1>2, <1>3 DEF BeginKills, Orderly, StopsAreServiceable, SnapshotsHold
<1>4. CASE BeginStops
  <2>1. pc' = "stops" /\ todo' = {a \in App : MayStop(a)}
    BY <1>4 DEF BeginStops
  <2>2. \A a \in App \ todo' : needsStop[a] => state[a].st = "Running"
    <3>1. SUFFICES ASSUME NEW a \in App, needsStop[a], ~MayStop(a) PROVE state[a].st = "Running"
      BY <2>1
    <3>2. PICK r \in App : a \in depends[r] /\ ~IsStopped(state[r])
      BY <3>1, DependsFacts DEF MayStop, rdepends, NeededBy
    <3>3. IsStarted(state[a]) /\ ~IsStopped(state[a])
      BY <3>1, <3>2 DEF Orderly, DependencyOrder, StopsAreServiceable
    <3>4. QED
      BY <3>3 DEF IsStarted, IsStopped
  <2>3. SnapshotsHold'
    BY <1>1, <2>1 DEF SnapshotsHold, MayStop, Orderly, StopsAreServiceable
  <2>4. StopsAreServiceable'
    BY <1>1, <2>1 DEF Orderly, StopsAreServiceable
  <2>5. QED
    BY <1>1, <1>2, <2>1, <2>2, <2>3, <2>4 DEF Orderly
<1>5. CASE BeginStarts
  <2>1. pc' = "starts" /\ todo' = Startable /\ pc = "stops" /\ todo = {}
    BY <1>5 DEF BeginStarts
  <2>2. Startable' = Startable
    BY <1>1 DEF Startable, MayStart
  <2>3. SnapshotsHold'
    BY <1>1, <2>1 DEF SnapshotsHold, Startable, MayStart
  <2>4. StopsAreServiceable'
    BY <1>1, <2>1 DEF Orderly, StopsAreServiceable
  <2>5. QED
    BY <1>2, <2>1, <2>2, <2>3, <2>4 DEF Orderly
<1>6. CASE EnterSelect
  BY <1>1, <1>2, <1>6 DEF EnterSelect, Orderly, StopsAreServiceable, SnapshotsHold
<1>7. QED
  BY <1>3, <1>4, <1>5, <1>6

\* stop() is called for an application that none depends on that is not down.
LEMMA StopOrderly ==
  ASSUME TypeOK, Orderly, NEW a \in App, NEW child, pc = "stops", First(a), StopsTo(a, child)
  PROVE  Orderly'
<1>1. /\ pc' = "stops" /\ todo' = todo \ {a} /\ UNCHANGED <<startTime, shutdown>>
      /\ needsStop' = [needsStop EXCEPT ![a] = FALSE]
      /\ state' = [state EXCEPT ![a] = AfterStop(@, ModeOf[a], child)]
  BY DEF StopsTo
<1>2. a \in todo /\ MayStop(a) /\ ~IsStopped(state[a])
  BY DEF First, Orderly, SnapshotsHold
<1>3. \A b \in App : a \in depends[b] => IsStopped(state[b])
  BY <1>2, DependsFacts DEF MayStop
<1>4. \A b \in App : b # a => state'[b] = state[b] /\ needsStop'[b] = needsStop[b]
  BY <1>1 DEF TypeOK
<1>5. ~needsStop'[a]
  BY <1>1 DEF TypeOK
<1>6. DependencyOrder'
  <2>1. SUFFICES ASSUME NEW b \in App, ~IsStopped(state'[b]), NEW d \in depends[b]
                 PROVE  IsStarted(state'[d])
    BY DEF DependencyOrder
  <2>2. d \in App /\ d # b
    BY DependsFacts
  <2>3. ~IsStopped(state[b])
    BY <1>2, <1>4, <2>1
  <2>4. d # a
    BY <1>3, <2>1, <2>3
  <2>5. QED
    BY <1>4, <2>2, <2>3, <2>4 DEF Orderly, DependencyOrder
<1>7. StopsAreServiceable'
  BY <1>1, <1>4, <1>5 DEF Orderly, StopsAreServiceable
<1>8. SnapshotsHold'
  <2>1. SUFFICES ASSUME NEW b \in todo, b # a PROVE MayStop(b)' /\ ~IsStopped(state'[b])
    BY <1>1 DEF SnapshotsHold
  <2>2. b \in App /\ MayStop(b) /\ ~IsStopped(state[b])
    BY <2>1 DEF Orderly, SnapshotsHold, TypeOK
  <2>3. a \notin rdepends[b]
    BY <1>2, <2>2 DEF MayStop
  <2>4. \A r \in rdepends[b] : r \in App /\ r # a
    BY <2>2, <2>3 DEF rdepends, NeededBy
  <2>5. QED
    BY <1>4, <2>1, <2>2, <2>4 DEF MayStop
<1>9. \A b \in App \ todo' : needsStop'[b] => state'[b].st = "Running"
  BY <1>1, <1>4, <1>5 DEF Orderly
<1>10. QED
  BY <1>1, <1>6, <1>7, <1>8, <1>9 DEF Orderly

\* start() is called for an application all of whose requirements are up.
LEMMA StartOrderly ==
  ASSUME TypeOK, Orderly, NEW a \in App, NEW child \in Pid \cup {None}, StartOne(a, child)
  PROVE  Orderly'
<1>1. /\ pc = "starts" /\ pc' = "starts" /\ todo' = todo \ {a} /\ a \in todo
      /\ UNCHANGED <<needsStop, shutdown>>
  BY DEF StartOne, First
<1>2. MayStart(a)
  BY <1>1 DEF Orderly, SnapshotsHold
<1>3. \A b \in App : b # a => state'[b] = state[b] /\ startTime'[b] = startTime[b]
  BY DEF StartOne, TypeOK
<1>4. DependencyOrder'
  <2>1. SUFFICES ASSUME NEW b \in App, ~IsStopped(state'[b]), NEW d \in depends[b]
                 PROVE  IsStarted(state'[d])
    BY DEF DependencyOrder
  <2>2. d \in App /\ d # b
    BY DependsFacts
  <2>3. IsStarted(state[d])
    BY <1>2, <1>3, <2>1 DEF MayStart, Orderly, DependencyOrder
  <2>4. d # a
    BY <1>2, <2>3 DEF MayStart, IsIdle, IsStarted
  <2>5. QED
    BY <1>3, <2>2, <2>3, <2>4
<1>5. StopsAreServiceable'
  <2>1. ~needsStop[a]
    BY <1>2 DEF MayStart, Orderly, StopsAreServiceable, IsIdle, IsStopped
  <2>2. QED
    BY <1>1, <1>3, <2>1 DEF Orderly, StopsAreServiceable
<1>6. \A b \in todo' : b \in App /\ MayStart(b)'
  <2>1. SUFFICES ASSUME NEW b \in todo, b # a PROVE b \in App /\ MayStart(b)'
    BY <1>1
  <2>2. b \in App /\ MayStart(b)
    BY <1>1 DEF Orderly, SnapshotsHold, TypeOK
  <2>3. \A d \in depends[b] : d \in App /\ d # a
    BY <1>2, <2>2, DependsFacts DEF MayStart, IsIdle, IsStarted
  <2>4. QED
    BY <1>1, <1>3, <2>1, <2>2, <2>3 DEF MayStart
<1>7. SnapshotsHold'
  BY <1>1, <1>6 DEF SnapshotsHold
<1>8. todo' \subseteq Startable'
  BY <1>1, <1>6 DEF Orderly, Startable
<1>9. QED
  BY <1>1, <1>4, <1>5, <1>7, <1>8 DEF Orderly

\* A reaped child changes what it was claimed by, and no application that was
\* up is down for it.
LEMMA ReapOrderly ==
  ASSUME TypeOK, Orderly, NEW p \in Pid, Reap(p)
  PROVE  Orderly'
<1>1. pc = "wait" /\ pc' \in {"loop", "panicked"}
  BY DEF Reap
<1>2. CASE UNCHANGED apps
  BY <1>1, <1>2 DEF apps, Orderly, DependencyOrder, StopsAreServiceable, SnapshotsHold
<1>3. ASSUME NEW a \in App, Claimant(a, p), ClaimedBy(a, p) PROVE Orderly'
  <2> DEFINE s == AfterClaim(state[a], ModeOf[a], p, proc[p].ok, pidfile[a])
  <2>1. state' = [state EXCEPT ![a] = s]
    BY <1>3 DEF ClaimedBy
  <2>2. \/ state[a].st = "Starting" /\ s.st \in {"Idle", "Running", "Complete"}
        \/ state[a].st = "Running"  /\ s.st = "Running"
        \/ state[a].st = "Stopping" /\ s.st \in {"Idle", "Stopping"}
    BY <1>3, ClaimEffect DEF Claimant, TypeOK
  <2>3. \A b \in App : b # a => state'[b] = state[b]
    BY <2>1 DEF TypeOK
  <2>4. state'[a] = s
    BY <2>1 DEF TypeOK
  <2> HIDE DEF s
  <2>5. \A b \in App : /\ IsStarted(state[b]) => IsStarted(state'[b])
                       /\ IsStopped(state[b]) => IsStopped(state'[b])
    BY <2>2, <2>3, <2>4 DEF IsStarted, IsStopped
  <2>6. DependencyOrder'
    BY <2>5, DependsFacts DEF Orderly, DependencyOrder
  <2>7. StopsAreServiceable'
    <3>1. SUFFICES ASSUME NEW b \in App, needsStop'[b] PROVE ~IsStopped(state'[b])
      BY <1>1 DEF StopsAreServiceable
    <3>2. CASE needsStop[b]
      <4>1. state[b].st = "Running"
        BY <1>1, <3>2 DEF Orderly, StopsAreServiceable
      <4>2. QED
        BY <2>2, <2>3, <2>4, <4>1 DEF IsStopped
    <3>3. CASE ~needsStop[b]
      <4>1. IsDead(s) /\ ScheduleStop({a})[b]
        BY <1>3, <3>1, <3>3 DEF ClaimedBy, s
      <4>2. ~IsStopped(state[b])
        BY <3>3, <4>1, RequestsAreServiceable
      <4>3. CASE b = a
        BY <2>4, <4>1, <4>3 DEF IsDead, IsStopped
      <4>4. QED
        BY <2>3, <4>2, <4>3
    <3>4. QED
      BY <3>2, <3>3
  <2>8. QED
    BY <1>1, <2>6, <2>7 DEF Orderly, SnapshotsHold
<1>4. QED
  BY <1>2, <1>3 DEF Reap
LEMMA StopStep ==
  ASSUME NEW a \in App,
         StopOneShot(a) \/ StopSimple(a) \/ \E c \in Pid \cup {None} : StopForking(a, c)
  PROVE  \/ Panic
         \/ \E child \in Pid \cup {None} : pc = "stops" /\ First(a) /\ StopsTo(a, child)
BY DEF StopOneShot, StopSimple, StopForking

LEMMA PanicOrderly ==
  ASSUME Orderly, Panic
  PROVE  Orderly'
BY DEF Panic, apps, Orderly, DependencyOrder, StopsAreServiceable, SnapshotsHold

\* What happens outside the main thread does not touch the order.
LEMMA OutsideOrderly ==
  ASSUME Orderly, UNCHANGED <<pc, todo, apps, shutdown>>
  PROVE  Orderly'
<1>1. UNCHANGED <<pc, todo, state, needsStop, killTime, startTime, shutdown>>
  BY DEF apps
<1>2. DependencyOrder' /\ StopsAreServiceable'
  BY <1>1 DEF Orderly, DependencyOrder, StopsAreServiceable
<1>3. SnapshotsHold'
  BY <1>1 DEF Orderly, SnapshotsHold, MayStop, MayStart
<1>4. Startable' = Startable
  BY <1>1 DEF Startable, MayStart
<1>5. QED
  BY <1>1, <1>2, <1>3, <1>4 DEF Orderly

LEMMA TickOrderly ==
  ASSUME TypeOK, Orderly, Tick
  PROVE  Orderly'
<1>1. UNCHANGED <<pc, todo, state, needsStop, shutdown>>
  BY DEF Tick
<1>2. \A a \in App : /\ Due(killTime[a]) => Due(killTime'[a])
                     /\ Due(startTime[a]) => Due(startTime'[a])
                     /\ startTime[a] = None => startTime'[a] = None
  BY DueStaysDue DEF Tick
<1>3. DependencyOrder' /\ StopsAreServiceable'
  BY <1>1 DEF Orderly, DependencyOrder, StopsAreServiceable
<1>4. \A a \in App : MayStart(a) => MayStart(a)'
  BY <1>1, <1>2 DEF MayStart
<1>5. SnapshotsHold'
  <2>1. todo \subseteq App
    BY DEF TypeOK
  <2>2. QED
    BY <1>1, <1>2, <1>4, <2>1 DEF Orderly, SnapshotsHold, MayStop
<1>6. Startable \subseteq Startable'
  BY <1>1, <1>4 DEF Startable
<1>7. QED
  BY <1>1, <1>3, <1>5, <1>6 DEF Orderly

LEMMA KillOrderly ==
  ASSUME TypeOK, Orderly, NEW a \in App, KillOne(a)
  PROVE  Orderly'
<1>1. CASE Panic
  BY <1>1, PanicOrderly
<1>2. CASE ~Panic
  <2>1. /\ pc = "kills" /\ pc' \in {"kills", "killed"} /\ todo' = todo \ {a}
        /\ killTime' = [killTime EXCEPT ![a] = None]
        /\ UNCHANGED <<state, needsStop, shutdown>>
    BY <1>2 DEF KillOne
  <2>2. DependencyOrder' /\ StopsAreServiceable'
    BY <2>1 DEF Orderly, DependencyOrder, StopsAreServiceable
  <2>3. SnapshotsHold'
    BY <2>1 DEF Orderly, SnapshotsHold, TypeOK
  <2>4. QED
    BY <2>1, <2>2, <2>3 DEF Orderly
<1>3. QED
  BY <1>1, <1>2

\* A stop request leaves the loop to treat it.
LEMMA RequestOrderly ==
  ASSUME Orderly, NEW S \in SUBSET App, pc = "select", pc' = "loop",
         UNCHANGED <<state, killTime, startTime>>, needsStop' = ScheduleStop(S)
  PROVE  Orderly'
<1>1. DependencyOrder'
  BY DEF Orderly, DependencyOrder
<1>2. StopsAreServiceable'
  BY RequestsAreServiceable DEF Orderly, StopsAreServiceable
<1>3. QED
  BY <1>1, <1>2 DEF Orderly, SnapshotsHold

LEMMA OrderlyStep == TypeOK /\ Orderly /\ [Next]_vars => Orderly'
<1> SUFFICES ASSUME TypeOK, Orderly, [Next]_vars PROVE Orderly'
  OBVIOUS
<1>1. CASE LeaveLoop
  BY <1>1 DEF LeaveLoop, apps, Orderly, DependencyOrder, StopsAreServiceable, SnapshotsHold
<1>2. CASE BeginKills \/ BeginStops \/ BeginStarts \/ EnterSelect
  BY <1>2, BeginsOrderly
<1>3. ASSUME NEW a \in App, KillOne(a) PROVE Orderly'
  BY <1>3, KillOrderly
<1>4. ASSUME NEW a \in App,
             StopOneShot(a) \/ StopSimple(a) \/ \E c \in Pid \cup {None} : StopForking(a, c)
      PROVE  Orderly'
  BY <1>4, StopStep, StopOrderly, PanicOrderly
<1>5. ASSUME NEW a \in App, NEW child \in Pid \cup {None}, StartOne(a, child) PROVE Orderly'
  BY <1>5, StartOrderly
<1>6. CASE SelectTimer \/ SelectChld \/ NoChild
  BY <1>6 DEF SelectTimer, SelectChld, NoChild, apps, Orderly, DependencyOrder, StopsAreServiceable,
              SnapshotsHold
<1>7. CASE SelectFail
  BY <1>7, RequestOrderly DEF SelectFail
<1>8. CASE SelectTerm
  BY <1>8, RequestOrderly DEF SelectTerm
<1>9. ASSUME NEW p \in Pid, Reap(p) PROVE Orderly'
  BY <1>9, ReapOrderly
<1>10. CASE Terminate
  BY <1>10, OutsideOrderly DEF Terminate, main
<1>11. CASE Tick
  BY <1>11, TickOrderly
<1>12. ASSUME NEW s \in Signal, ForwardSignal(s) PROVE Orderly'
  BY <1>12, OutsideOrderly DEF ForwardSignal, main
<1>13. ASSUME NEW g \in Group, HealthFail(g) PROVE Orderly'
  BY <1>13, OutsideOrderly DEF HealthFail, main
<1>14. ASSUME NEW p \in Pid, NEW ok \in BOOLEAN, Exit(p, ok) PROVE Orderly'
  BY <1>14, OutsideOrderly DEF Exit, main
<1>15. ASSUME NEW p \in Pid, NEW daemon \in Pid, Daemonize(p, daemon) PROVE Orderly'
  BY <1>15, OutsideOrderly DEF Daemonize, main
<1>16. CASE UNCHANGED vars
  BY <1>16, OutsideOrderly DEF vars
<1>17. QED
  BY <1>1, <1>2, <1>3, <1>4, <1>5, <1>6, <1>7, <1>8, <1>9, <1>10, <1>11, <1>12, <1>13, <1>14,
     <1>15, <1>16
  DEF Next, Pass, Event, Outside, Terminated

\* The inductive invariant of the main loop.
THEOREM LoopIsOrderly == Spec => []Orderly
<1>1. Init => Orderly
  <2> SUFFICES ASSUME Init PROVE Orderly
    OBVIOUS
  <2>1. \A a \in App : IsStopped(state[a]) /\ ~needsStop[a]
    BY DEF Init, IsStopped, Idle, Variant
  <2>2. QED
    BY <2>1 DEF Init, Orderly, DependencyOrder, StopsAreServiceable, SnapshotsHold
<1>2. QED
  BY <1>1, OrderlyStep, TypeCorrect, PTL DEF Spec

\* do_starts and do_stops (init.rs:174-220) keep the order of dependencies,
\* whatever children die meanwhile.
THEOREM OrderIsKept == Spec => []DependencyOrder
<1>1. Orderly => DependencyOrder
  BY DEF Orderly
<1>2. QED
  BY <1>1, LoopIsOrderly, PTL

\* needs_stop (init.rs:145-149, 158-168) is never left with an application that
\* has nothing to stop.
THEOREM RequestsFindSomething == Spec => []StopsAreServiceable
<1>1. Orderly => StopsAreServiceable
  BY DEF Orderly
<1>2. QED
  BY <1>1, LoopIsOrderly, PTL

\* The indices that do_kills, do_stops and do_starts collect stay good until
\* they are treated.
THEOREM IndicesStayGood == Spec => []SnapshotsHold
<1>1. Orderly => SnapshotsHold
  BY DEF Orderly
<1>2. QED
  BY <1>1, LoopIsOrderly, PTL
-----------------------------------------------------------------------------
(* The main loop implements Lifecycle.                                     *)

LEMMA PhaseOf == \A a \in App : phase[a] = state[a].st
BY DEF phase

\* A step that changes no application's state and does not end riffol.
LEMMA QuietStep ==
  ASSUME UNCHANGED <<state, shutdown>>, over' = over
  PROVE  UNCHANGED L!vars
BY DEF L!vars, phase

\* A step that changes the state of one application.
LEMMA OnePhase ==
  ASSUME TypeOK, NEW a \in App, NEW t, state' = [state EXCEPT ![a] = t]
  PROVE  phase' = [phase EXCEPT ![a] = t.st]
BY DEF phase, TypeOK

LEMMA AbortStep ==
  ASSUME UNCHANGED <<state, shutdown>>, over = "no", over' = "aborted"
  PROVE  L!Abort
BY DEF L!Abort, phase

LEMMA LeaveStep ==
  ASSUME LeaveLoop
  PROVE  L!Leave
<1>1. over = "no" /\ over' = "left" /\ UNCHANGED <<state, shutdown>> /\ shutdown
  BY DEF LeaveLoop, over, apps
<1>2. \A a \in App : phase[a] \in {"Idle", "Complete"}
  BY PhaseOf DEF LeaveLoop, AllStopped, IsStopped
<1>3. QED
  BY <1>1, <1>2 DEF L!Leave, L!Down, phase

LEMMA StopPhase ==
  ASSUME TypeOK, Orderly, NEW a \in App, NEW child, pc = "stops", First(a), StopsTo(a, child)
  PROVE  L!Next \/ UNCHANGED L!vars
<1> DEFINE t == AfterStop(state[a], ModeOf[a], child)
<1>1. state' = [state EXCEPT ![a] = t] /\ UNCHANGED <<pc, shutdown>>
  BY DEF StopsTo
<1>2. over = "no" /\ over' = "no"
  BY <1>1 DEF over
<1>3. ~IsStopped(state[a]) /\ MayStop(a)
  BY DEF First, Orderly, SnapshotsHold
<1>4. CASE t = state[a]
  <2>1. state' = state
    BY <1>1, <1>4 DEF TypeOK
  <2>2. QED
    BY <1>1, <1>2, <2>1, QuietStep
<1>5. CASE t.st \in {"Idle", "Stopping"}
  <2>1. phase' = [phase EXCEPT ![a] = t.st]
    BY <1>1, OnePhase
  <2>2. \A b \in App : a \in depends[b] => phase[b] \in {"Idle", "Complete"}
    BY <1>3, DependsFacts, PhaseOf DEF MayStop, IsStopped
  <2>3. ~L!Down(a)
    BY <1>3, PhaseOf DEF L!Down, IsStopped
  <2>4. L!Retire(a)
    BY <1>1, <1>2, <1>5, <2>1, <2>2, <2>3 DEF L!Retire
  <2>5. QED
    BY <2>4 DEF L!Next
<1>6. QED
  BY <1>4, <1>5, StopEffect

LEMMA StartPhase ==
  ASSUME TypeOK, Orderly, NEW a \in App, NEW child \in Pid \cup {None}, StartOne(a, child)
  PROVE  L!Next \/ UNCHANGED L!vars
<1>1. UNCHANGED <<pc, shutdown>> /\ over = "no" /\ over' = "no" /\ a \in todo /\ pc = "starts"
  BY DEF StartOne, First, over
<1>2. CASE child = None
  BY <1>1, <1>2, QuietStep DEF StartOne
<1>3. CASE child # None
  <2> DEFINE t == AfterStart(ModeOf[a], child)
  <2>1. state' = [state EXCEPT ![a] = t]
    BY <1>3 DEF StartOne
  <2>2. t.st \in {"Starting", "Running"}
    BY DEF AfterStart, Starting, Running, Variant
  <2>3. phase' = [phase EXCEPT ![a] = t.st]
    BY <2>1, OnePhase
  <2>4. ~shutdown /\ MayStart(a)
    BY <1>1 DEF Orderly, Startable
  <2>5. phase[a] = "Idle" /\ \A d \in depends[a] : L!Up(d)
    BY <2>4, DependsFacts, PhaseOf DEF MayStart, IsIdle, IsStarted, L!Up
  <2>6. L!Launch(a)
    BY <1>1, <2>2, <2>3, <2>4, <2>5 DEF L!Launch
  <2>7. QED
    BY <2>6 DEF L!Next
<1>4. QED
  BY <1>2, <1>3

LEMMA ReapPhase ==
  ASSUME TypeOK, NEW p \in Pid, Reap(p)
  PROVE  L!Next \/ UNCHANGED L!vars
<1>1. pc = "wait" /\ over = "no" /\ UNCHANGED shutdown
  BY DEF Reap, over
<1>2. CASE UNCHANGED apps
  <2>1. CASE pc' = "panicked"
    <3>1. over' = "aborted"
      BY <2>1 DEF over
    <3>2. L!Abort
      BY <1>1, <1>2, <3>1, AbortStep DEF apps
    <3>3. QED
      BY <3>2 DEF L!Next
  <2>2. CASE pc' = "loop"
    <3>1. over' = "no"
      BY <2>2 DEF over
    <3>2. QED
      BY <1>1, <1>2, <3>1, QuietStep DEF apps
  <2>3. QED
    BY <2>1, <2>2 DEF Reap
<1>3. ASSUME NEW a \in App, Claimant(a, p), ClaimedBy(a, p), pc' = "loop"
      PROVE  L!Next \/ UNCHANGED L!vars
  <2> DEFINE s == AfterClaim(state[a], ModeOf[a], p, proc[p].ok, pidfile[a])
  <2>1. state' = [state EXCEPT ![a] = s]
    BY <1>3 DEF ClaimedBy
  <2>2. \/ state[a].st = "Starting" /\ s.st \in {"Idle", "Running", "Complete"}
        \/ state[a].st = "Running"  /\ s.st = "Running"
        \/ state[a].st = "Stopping" /\ s.st \in {"Idle", "Stopping"}
    BY <1>3, ClaimEffect DEF Claimant, TypeOK
  <2>3. phase' = [phase EXCEPT ![a] = s.st]
    BY <2>1, OnePhase
  <2> HIDE DEF s
  <2>4. over' = "no"
    BY <1>3 DEF over
  <2>5. CASE phase[a] = s.st
    <3>1. phase' = phase
      BY <2>3, <2>5 DEF phase
    <3>2. QED
      BY <1>1, <2>4, <3>1 DEF L!vars
  <2>6. CASE state[a].st = "Starting" /\ s.st \in {"Idle", "Running", "Complete"}
    <3>1. L!Settle(a)
      BY <1>1, <2>3, <2>4, <2>6, PhaseOf DEF L!Settle
    <3>2. QED
      BY <3>1 DEF L!Next
  <2>7. CASE state[a].st = "Stopping" /\ s.st = "Idle"
    <3>1. L!Gone(a)
      BY <1>1, <2>3, <2>4, <2>7, PhaseOf DEF L!Gone
    <3>2. QED
      BY <3>1 DEF L!Next
  <2>8. QED
    BY <2>2, <2>5, <2>6, <2>7, PhaseOf
<1>4. QED
  BY <1>2, <1>3 DEF Reap

LEMMA PanicPhase ==
  ASSUME Panic, pc \in {"kills", "stops"}
  PROVE  L!Next
<1>1. UNCHANGED <<state, shutdown>> /\ over = "no" /\ over' = "aborted"
  BY DEF Panic, apps, over
<1>2. QED
  BY <1>1, AbortStep DEF L!Next

LEMMA KillPhase ==
  ASSUME NEW a \in App, KillOne(a)
  PROVE  L!Next \/ UNCHANGED L!vars
<1>1. CASE Panic
  BY <1>1, PanicPhase DEF KillOne
<1>2. CASE ~Panic
  <2>1. UNCHANGED <<state, shutdown>> /\ over = "no"
    BY <1>2 DEF KillOne, over
  <2>2. CASE pc' = "killed"
    <3>1. over' = "aborted"
      BY <2>2 DEF over
    <3>2. QED
      BY <2>1, <3>1, AbortStep DEF L!Next
  <2>3. CASE pc' = pc
    BY <2>1, <2>3, QuietStep DEF over
  <2>4. QED
    BY <1>2, <2>2, <2>3 DEF KillOne
<1>3. QED
  BY <1>1, <1>2

LEMMA TermPhase ==
  ASSUME SelectTerm
  PROVE  L!Next \/ UNCHANGED L!vars
<1>1. UNCHANGED state /\ shutdown' = TRUE /\ over = "no" /\ over' = "no"
  BY DEF SelectTerm, over
<1>2. CASE shutdown = TRUE
  BY <1>1, <1>2, QuietStep
<1>3. CASE shutdown # TRUE
  BY <1>1, <1>3 DEF L!Next, L!Close, phase
<1>4. QED
  BY <1>2, <1>3

LEMMA PromiseStep == TypeOK /\ Orderly /\ [Next]_vars => [L!Next]_L!vars
<1> SUFFICES ASSUME TypeOK, Orderly, [Next]_vars PROVE L!Next \/ UNCHANGED L!vars
  OBVIOUS
<1>1. CASE LeaveLoop
  BY <1>1, LeaveStep DEF L!Next
<1>2. CASE BeginKills \/ BeginStops \/ BeginStarts \/ EnterSelect
  BY <1>2, QuietStep DEF BeginKills, BeginStops, BeginStarts, EnterSelect, apps, over
<1>3. ASSUME NEW a \in App, KillOne(a) PROVE L!Next \/ UNCHANGED L!vars
  BY <1>3, KillPhase
<1>4. ASSUME NEW a \in App,
             StopOneShot(a) \/ StopSimple(a) \/ \E c \in Pid \cup {None} : StopForking(a, c)
      PROVE  L!Next \/ UNCHANGED L!vars
  <2>1. pc = "stops"
    BY <1>4 DEF StopOneShot, StopSimple, StopForking
  <2>2. QED
    BY <1>4, <2>1, StopStep, StopPhase, PanicPhase
<1>5. ASSUME NEW a \in App, NEW child \in Pid \cup {None}, StartOne(a, child)
      PROVE  L!Next \/ UNCHANGED L!vars
  BY <1>5, StartPhase
<1>6. CASE SelectTimer \/ SelectChld \/ NoChild \/ SelectFail
  BY <1>6, QuietStep DEF SelectTimer, SelectChld, NoChild, SelectFail, apps, over
<1>7. CASE SelectTerm
  BY <1>7, TermPhase
<1>8. ASSUME NEW p \in Pid, Reap(p) PROVE L!Next \/ UNCHANGED L!vars
  BY <1>8, ReapPhase
<1>9. CASE UNCHANGED <<pc, state, shutdown>>
  BY <1>9, QuietStep DEF over
<1>10. CASE Outside
  <2>1. UNCHANGED <<pc, state, shutdown>>
    BY <1>10 DEF Outside, Terminate, Tick, ForwardSignal, HealthFail, Exit, Daemonize, main, apps
  <2>2. QED
    BY <1>9, <2>1
<1>11. CASE UNCHANGED vars
  BY <1>9, <1>11 DEF vars, apps
<1>12. QED
  BY <1>1, <1>2, <1>3, <1>4, <1>5, <1>6, <1>7, <1>8, <1>10, <1>11 DEF Next, Pass, Event, Terminated

\* Init::run with all that happens around it implements Lifecycle, for any
\* applications, dependencies, faults and bounds.
THEOREM PromiseIsKept == Spec => Promise
<1>1. Init => L!Init
  BY DEF Init, L!Init, phase, over, Idle, Variant
<1>2. QED
  BY <1>1, PromiseStep, TypeCorrect, LoopIsOrderly, PTL DEF Spec, Promise, L!Spec

\* run()'s shutdown flag stands once it is set, and do_starts is never called
\* again: what is down stays down.
THEOREM ShutdownStands == Spec => ShutdownIsFinal
<1>1. [L!Next]_L!vars =>
        (shutdown => /\ shutdown'
                     /\ \A a \in App : IsStopped(state[a]) => IsStopped(state'[a]))
  <2> SUFFICES ASSUME [L!Next]_L!vars, shutdown
               PROVE  /\ shutdown'
                      /\ \A a \in App : IsStopped(state[a]) => IsStopped(state'[a])
    OBVIOUS
  <2>1. \A a \in App : phase[a] = state[a].st /\ phase'[a] = state'[a].st
    BY DEF phase
  <2>2. shutdown' /\ \A a \in App : phase[a] \in {"Idle", "Complete"} => phase'[a] \in {"Idle", "Complete"}
    <3>1. CASE UNCHANGED L!vars
      BY <3>1 DEF L!vars
    <3>2. CASE L!Leave \/ L!Abort
      BY <3>2 DEF L!Leave, L!Abort
    <3>3. ASSUME NEW a \in App, L!Settle(a) \/ L!Retire(a) \/ L!Gone(a)
          PROVE  shutdown' /\ \A b \in App : phase[b] \in {"Idle", "Complete"} => phase'[b] \in {"Idle", "Complete"}
      <4>1. shutdown' /\ phase[a] \notin {"Idle", "Complete"}
        BY <3>3 DEF L!Settle, L!Retire, L!Gone, L!Down
      <4>2. \A b \in App : b # a => phase'[b] = phase[b]
        BY <3>3 DEF L!Settle, L!Retire, L!Gone, phase
      <4>3. QED
        BY <4>1, <4>2
    <3>4. QED
      BY <3>1, <3>2, <3>3 DEF L!Next, L!Close, L!Launch
  <2>3. QED
    BY <2>1, <2>2 DEF IsStopped
<1>2. QED
  BY <1>1, PromiseStep, TypeCorrect, LoopIsOrderly, PTL DEF Spec, ShutdownIsFinal
=============================================================================
