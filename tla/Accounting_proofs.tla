-------------------------- MODULE Accounting_proofs -------------------------
(***************************************************************************)
(* Process accounting.  Where no application is forking, each process is   *)
(* known to the application it was started for until it is reaped, is      *)
(* under a timer while it is awaited, and no step panics.  With forking    *)
(* applications none of the three holds: see the README.  What does hold   *)
(* in all modes comes second: until a process dies unasked or comes up     *)
(* without a pidfile of its own (late, or not configured), nothing is held *)
(* on to that is not the application's own, and what is Running is alive.  *)
(***************************************************************************)
EXTENDS Supervisor_proofs

NoForking == \A a \in App : ModeOf[a] # "Forking"

LEMMA PlainModes ==
  ASSUME NoForking, NEW a \in App
  PROVE  ModeOf[a] = "OneShot" \/ ModeOf[a] = "Simple"
BY SupervisorAssumption DEF NoForking, Mode

\* The one process that a state of a plain application is about.
LEMMA PlainClaims ==
  ASSUME NEW p \in Pid, NEW q \in PidOpt
  PROVE  /\ ~Claims(Idle, p) /\ ~Claims(Complete, p)
         /\ Claims(Starting(q), p) <=> p = q
         /\ Claims(Running(q), p) <=> p = q
         /\ Claims(Stopping(q, None), p) <=> p = q
BY NoneIsNoPid DEF Claims, Idle, Complete, Starting, Running, Stopping, Variant

LEMMA FreeIsFree == Free.life = "free"
BY DEF Free

\* A process whose life alone has changed, from alive to zombie, is accounted for
\* as it was.
LEMMA DyingAccounted ==
  ASSUME TypeOK, Accounted, UNCHANGED <<pc, state, killTime>>,
         proc' \in [Pid -> Process],
         \A p \in Pid : \/ proc'[p] = proc[p]
                        \/ proc[p].life = "alive" /\ \E ok \in BOOLEAN : proc'[p] = Dead(proc[p], ok)
  PROVE  Accounted'
<1>1. \A p \in Pid : /\ proc[p].life # "free" => proc'[p].app = proc[p].app
                     /\ proc'[p].life = "alive" => proc[p].life = "alive"
                     /\ proc'[p].life = "free" <=> proc[p].life = "free"
  <2>1. SUFFICES ASSUME NEW p \in Pid, proc[p].life = "alive", NEW ok \in BOOLEAN,
                        proc'[p] = Dead(proc[p], ok)
                 PROVE  proc'[p].life = "zombie" /\ proc'[p].app = proc[p].app
    OBVIOUS
  <2>2. proc[p] \in [life : {"alive", "zombie"}, app : App, role : {"start", "main", "stop"}, ok : BOOLEAN]
    BY <2>1 DEF TypeOK, Process, Free
  <2>3. QED
    BY <2>1, <2>2 DEF Dead
<1>2. ProcessesTracked'
  <2>1. \A a \in App, p \in Pid : Claims(state[a], p)' <=> Claims(state[a], p)
    BY DEF Claims
  <2>2. QED
    BY <1>1, <2>1 DEF Accounted, ProcessesTracked
<1>3. Watched'
  BY <1>1 DEF Accounted, Watched, In, Claims
<1>4. QED
  BY <1>2, <1>3 DEF Accounted, NoPanic

\* Steps that have nothing to do with processes or timers.
LEMMA StillAccounted ==
  ASSUME Accounted, UNCHANGED <<state, killTime, proc>>, pc' # "panicked"
  PROVE  Accounted'
<1>1. ProcessesTracked' /\ Watched'
  BY DEF Accounted, ProcessesTracked, Watched, In, Claims
<1>2. QED
  BY <1>1 DEF Accounted, NoPanic

LEMMA TickAccounted ==
  ASSUME TypeOK, Accounted, Tick
  PROVE  Accounted'
<1>1. \A a \in App : killTime'[a] = None <=> killTime[a] = None
  <2>1. SUFFICES ASSUME NEW a \in App PROVE Less(killTime[a]) = None <=> killTime[a] = None
    BY DEF Tick
  <2>2. killTime[a] \in 0 .. StartTimeout \cup {None}
    BY DEF TypeOK, Timer
  <2>3. QED
    BY <2>2, SupervisorAssumption DEF Less
<1>2. UNCHANGED <<pc, state, proc>>
  BY DEF Tick, kernel
<1>3. ProcessesTracked' /\ Watched'
  BY <1>1, <1>2 DEF Accounted, ProcessesTracked, Watched, In, Claims
<1>4. QED
  BY <1>1, <1>2, <1>3 DEF Accounted, NoPanic
-----------------------------------------------------------------------------

\* kill() has a target, and hits a process that is the application's.
LEMMA KillAccounted ==
  ASSUME TypeOK, Orderly, Accounted, NEW a \in App, KillOne(a)
  PROVE  Accounted'
<1>1. killTime[a] # None
  BY NoneIsNoPid, SupervisorAssumption DEF KillOne, First, Orderly, SnapshotsHold, Due
<1>2. state[a].st \in {"Starting", "Stopping"}
  BY <1>1 DEF Accounted
<1>3. \E p \in Pid \cup {0} : /\ KillTarget(state[a]) = p
                            /\ \A q \in Pid : Claims(state[a], q) <=> q = p
  <2>1. \/ \E p \in Pid : state[a] = Starting(p)
        \/ \E p \in Pid \cup {0} : state[a] = Stopping(p, None)
    BY <1>2 DEF Accounted, Idle, Complete, Running, Variant
  <2>2. ASSUME NEW p \in Pid, state[a] = Starting(p)
        PROVE  KillTarget(state[a]) = p /\ \A q \in Pid : Claims(state[a], q) <=> q = p
    BY <2>2, PlainClaims DEF KillTarget, Starting, Variant, PidOpt
  <2>3. ASSUME NEW p \in Pid \cup {0}, state[a] = Stopping(p, None)
        PROVE  KillTarget(state[a]) = p /\ \A q \in Pid : Claims(state[a], q) <=> q = p
    BY <2>3, PlainClaims DEF KillTarget, Stopping, Variant, PidOpt
  <2>4. QED
    BY <2>1, <2>2, <2>3
<1>4. PICK target \in Pid \cup {0} : /\ KillTarget(state[a]) = target
                                 /\ \A q \in Pid : Claims(state[a], q) <=> q = target
  BY <1>3
<1>5. /\ SigKill(target) /\ pc' \in {"kills", "killed"}
      /\ killTime' = [killTime EXCEPT ![a] = None]
      /\ UNCHANGED state
  BY <1>4, NoneIsNoPid DEF KillOne
<1>6. \A p \in Pid : IF p \in Victims(target)
                      THEN proc[p].life = "alive" /\ proc'[p] = Dead(proc[p], FALSE)
                      ELSE proc'[p] = proc[p]
  BY <1>5 DEF SigKill, Victims, In
<1>7. \A p \in Pid : /\ proc'[p].life = "alive" => proc[p].life = "alive" /\ p \notin Victims(target)
                     /\ proc[p].life # "free" => proc'[p].app = proc[p].app
                     /\ proc'[p].life = "free" <=> proc[p].life = "free"
  <2>1. SUFFICES ASSUME NEW p \in Pid, proc[p].life = "alive", proc'[p] = Dead(proc[p], FALSE)
                 PROVE  proc'[p].life = "zombie" /\ proc'[p].app = proc[p].app
    BY <1>6
  <2>2. proc[p] \in [life : {"alive", "zombie"}, app : App, role : {"start", "main", "stop"}, ok : BOOLEAN]
    BY <2>1 DEF TypeOK, Process, Free
  <2>3. QED
    BY <2>1, <2>2 DEF Dead
<1>8. ProcessesTracked'
  <2>1. \A b \in App, p \in Pid : Claims(state[b], p)' <=> Claims(state[b], p)
    BY <1>5 DEF Claims
  <2>2. QED
    BY <1>7, <2>1 DEF Accounted, ProcessesTracked
<1>9. Watched'
  <2>1. SUFFICES ASSUME NEW b \in App, NEW p \in Pid, proc'[p].life = "alive", Claims(state[b], p),
                        state[b].st \in {"Starting", "Stopping"}
                 PROVE  killTime'[b] # None
    BY <1>5 DEF Watched, In, Claims
  <2>2. proc[p].life = "alive" /\ p \notin Victims(target)
    BY <1>7, <2>1
  <2>3. killTime[b] # None
    BY <2>1, <2>2 DEF Accounted, Watched, In
  <2>4. b # a
    BY <1>4, <2>1, <2>2, NoneIsNoPid DEF Victims, In
  <2>5. QED
    BY <1>5, <2>3, <2>4 DEF TypeOK
<1>10. \A b \in App : killTime'[b] # None => state'[b].st \in {"Starting", "Stopping"}
  BY <1>5 DEF Accounted, TypeOK
<1>11. QED
  BY <1>5, <1>8, <1>9, <1>10 DEF Accounted, NoPanic

\* A stop request that reaches a one-shot application changes nothing.
LEMMA OneShotStopAccounted ==
  ASSUME TypeOK, Accounted, NEW a \in App, StopOneShot(a)
  PROVE  Accounted'
<1>1. state' = state /\ killTime' = killTime
  BY DEF StopOneShot, StopsTo, AfterStop, StopAsksTimer, TypeOK
<1>2. QED
  BY <1>1, StillAccounted DEF StopOneShot, StopsTo

\* stop() finds a process to signal, or the mark of a dead one.
LEMMA SimpleStopAccounted ==
  ASSUME TypeOK, Orderly, Accounted, NEW a \in App, StopSimple(a)
  PROVE  Accounted'
<1>1. ModeOf[a] = "Simple" /\ ~IsStopped(state[a]) /\ pc = "stops"
  BY DEF StopSimple, First, Orderly, SnapshotsHold
<1>2. PICK p \in Pid \cup {0} : state[a] \in {Running(p), Stopping(p, None)}
  BY <1>1 DEF Accounted, IsStopped, Idle, Complete, Variant
<1>3. state[a].app = p /\ p # None
  BY <1>2, NoneIsNoPid DEF Running, Stopping, Variant
<1>4. StopsTo(a, None) /\ UNCHANGED proc
  BY <1>3 DEF StopSimple
<1>5. AfterStop(state[a], ModeOf[a], None) = Stopping(p, None)
  BY <1>1, <1>3 DEF AfterStop
<1>6. StopAsksTimer(state[a], ModeOf[a], None)
  BY <1>1, <1>5 DEF StopAsksTimer, Stopping, Variant
<1>7. /\ state' = [state EXCEPT ![a] = Stopping(p, None)]
      /\ killTime' = [killTime EXCEPT ![a] = StopTimeout]
      /\ pc' = pc
  BY <1>4, <1>5, <1>6 DEF StopsTo
<1>8. state'[a] = Stopping(p, None) /\ killTime'[a] = StopTimeout /\ StopTimeout # None
  BY <1>7, SupervisorAssumption DEF TypeOK
<1>9. \A b \in App : b # a => state'[b] = state[b] /\ killTime'[b] = killTime[b]
  BY <1>7 DEF TypeOK
<1>10. \A b \in App, q \in Pid : Claims(state'[b], q) <=> Claims(state[b], q)
  <2>1. \A q \in Pid : Claims(state'[a], q) <=> Claims(state[a], q)
    BY <1>2, <1>8, PlainClaims DEF PidOpt
  <2>2. QED
    BY <1>9, <2>1
<1>11. ProcessesTracked'
  BY <1>4, <1>10 DEF Accounted, ProcessesTracked, Claims
<1>12. Watched'
  <2>1. SUFFICES ASSUME NEW b \in App, NEW q \in Pid, proc[q].life = "alive", Claims(state'[b], q),
                        state'[b].st \in {"Starting", "Stopping"}
                 PROVE  killTime'[b] # None
    BY <1>4 DEF Watched, In, Claims
  <2>2. CASE b = a
    BY <1>8, <2>2
  <2>3. CASE b # a
    BY <1>9, <1>10, <2>1, <2>3 DEF Accounted, Watched, In
  <2>4. QED
    BY <2>2, <2>3
<1>13. \A b \in App :
         \/ state'[b] \in {Idle, Complete}
         \/ ModeOf[b] = "OneShot" /\ \E q \in Pid : state'[b] = Starting(q)
         \/ ModeOf[b] = "Simple"  /\ \E q \in Pid \cup {0} : state'[b] \in {Running(q), Stopping(q, None)}
  BY <1>1, <1>8, <1>9 DEF Accounted
<1>14. \A b \in App : killTime'[b] # None => state'[b].st \in {"Starting", "Stopping"}
  BY <1>8, <1>9 DEF Accounted, Stopping, Variant
<1>15. QED
  BY <1>1, <1>7, <1>11, <1>12, <1>13, <1>14 DEF Accounted, NoPanic
\* A start that fails leaves no process; one that succeeds leaves one, of an
\* application that had none.
LEMMA StartAccounted ==
  ASSUME NoForking, TypeOK, Orderly, Accounted, NEW a \in App, NEW child \in Pid \cup {None},
         StartOne(a, child)
  PROVE  Accounted'
<1>1. pc = "starts" /\ pc' = pc /\ MayStart(a)
  BY DEF StartOne, First, Orderly, SnapshotsHold
<1>2. CASE child = None
  BY <1>1, <1>2, NoneIsNoPid, StillAccounted DEF StartOne, Spawn, In
<1>3. CASE child # None
  <2> DEFINE t == AfterStart(ModeOf[a], child)
  <2>1. child \in Pid /\ proc[child].life = "free"
    BY <1>3 DEF StartOne, Spawn, In
  <2>2. /\ state' = [state EXCEPT ![a] = t]
        /\ proc' = [proc EXCEPT ![child] = Live(a, StartRole(a))]
        /\ killTime' = IF StartAsksTimer(ModeOf[a])
                         THEN [killTime EXCEPT ![a] = StartTimeout] ELSE killTime
    BY <1>3 DEF StartOne, Spawn
  <2>3. state[a] = Idle /\ killTime[a] = None
    <3>1. state[a].st = "Idle"
      BY <1>1 DEF MayStart, IsIdle
    <3>2. state[a] = Idle
      BY <3>1 DEF TypeOK, AppState, Idle, Complete, Starting, Running, Stopping, Variant
    <3>3. QED
      BY <3>1, <3>2 DEF Accounted
  <2>4. \/ ModeOf[a] = "Simple" /\ t = Running(child) /\ killTime' = killTime
        \/ ModeOf[a] = "OneShot" /\ t = Starting(child) /\ killTime'[a] = StartTimeout
           /\ killTime' = [killTime EXCEPT ![a] = StartTimeout]
    BY <2>2, PlainModes DEF AfterStart, StartAsksTimer, TypeOK
  <2>5. state'[a] = t /\ StartTimeout # None
    BY <2>2, SupervisorAssumption DEF TypeOK
  <2> HIDE DEF t
  <2>6. \A b \in App : b # a => state'[b] = state[b] /\ killTime'[b] = killTime[b]
    BY <2>2 DEF TypeOK
  <2>7. /\ proc'[child].life = "alive" /\ proc'[child].app = a
        /\ \A p \in Pid : p # child => proc'[p] = proc[p]
    BY <2>1, <2>2 DEF TypeOK, Live
  <2>8. \A p \in Pid : Claims(t, p) <=> p = child
    BY <2>1, <2>4, PlainClaims DEF PidOpt
  <2>9. ProcessesTracked'
    <3>1. SUFFICES ASSUME NEW b \in App, NEW p \in Pid
                   PROVE  Claims(state'[b], p) <=> proc'[p].life # "free" /\ proc'[p].app = b
      BY DEF ProcessesTracked, Claims
    <3>2. Claims(state[b], p) <=> proc[p].life # "free" /\ proc[p].app = b
      BY DEF Accounted, ProcessesTracked
    <3>3. CASE b = a
      <4>1. ~Claims(state[b], p)
        BY <2>3, <3>3, PlainClaims DEF PidOpt
      <4>2. QED
        BY <2>5, <2>7, <2>8, <3>2, <3>3, <4>1
    <3>4. CASE b # a
      BY <2>1, <2>6, <2>7, <3>2, <3>4
    <3>5. QED
      BY <3>3, <3>4
  <2>10. Watched'
    <3>1. SUFFICES ASSUME NEW b \in App, NEW p \in Pid, proc'[p].life = "alive", Claims(state'[b], p),
                          state'[b].st \in {"Starting", "Stopping"}
                   PROVE  killTime'[b] # None
      BY DEF Watched, In, Claims
    <3>2. CASE b = a
      BY <2>4, <2>5, <3>1, <3>2 DEF Running, Variant
    <3>3. CASE b # a
      <4>1. p # child
        <5>1. proc'[p].app = b
          BY <2>9, <3>1 DEF ProcessesTracked, Claims
        <5>2. QED
          BY <2>7, <3>3, <5>1
      <4>2. QED
        BY <2>6, <2>7, <3>1, <3>3, <4>1 DEF Accounted, Watched, In
    <3>4. QED
      BY <3>2, <3>3
  <2>11. \A b \in App :
           \/ state'[b] \in {Idle, Complete}
           \/ ModeOf[b] = "OneShot" /\ \E q \in Pid : state'[b] = Starting(q)
           \/ ModeOf[b] = "Simple"  /\ \E q \in Pid \cup {0} : state'[b] \in {Running(q), Stopping(q, None)}
    BY <2>1, <2>4, <2>5, <2>6 DEF Accounted
  <2>12. \A b \in App : killTime'[b] # None => state'[b].st \in {"Starting", "Stopping"}
    BY <2>3, <2>4, <2>5, <2>6 DEF Accounted, Starting, Variant
  <2>13. QED
    BY <1>1, <2>9, <2>10, <2>11, <2>12 DEF Accounted, NoPanic
<1>4. QED
  BY <1>2, <1>3

\* The child that is reaped is that of the application that claims it.
LEMMA ReapAccounted ==
  ASSUME TypeOK, Accounted, NEW p \in Pid, Reap(p)
  PROVE  Accounted'
<1>1. proc[p].life = "zombie"
  BY DEF Reap, In
<1>2. proc[p].app \in App /\ Claims(state[proc[p].app], p)
  <2>1. proc[p].app \in App
    BY <1>1 DEF TypeOK, Process, Free
  <2>2. QED
    BY <1>1, <2>1 DEF Accounted, ProcessesTracked
<1>3. PICK a \in App : /\ Claimant(a, p)
                      /\ \/ ModeOf[a] = "Simple" /\ state[a].st = "Starting"
                         \/ ClaimedBy(a, p) /\ pc' = "loop"
  BY <1>2 DEF Reap
<1>4. Claims(state[a], p) /\ proc[p].app = a
  BY <1>3 DEF Claimant, Accounted, ProcessesTracked
<1> DEFINE s == AfterClaim(state[a], ModeOf[a], p, proc[p].ok, pidfile[a])
<1>5. \/ ModeOf[a] = "OneShot" /\ state[a] = Starting(p)
      \/ ModeOf[a] = "Simple" /\ state[a] \in {Running(p), Stopping(p, None)}
  <2>1. state[a] \notin {Idle, Complete}
    BY <1>4, NoneIsNoPid DEF Claims, Idle, Complete, Variant
  <2>2. QED
    BY <1>4, <2>1, PlainClaims DEF Accounted, PidOpt
<1>6. ClaimedBy(a, p) /\ pc' = "loop"
  BY <1>3, <1>5 DEF Running, Stopping, Variant
<1>7. \/ s \in {Idle, Complete}
      \/ ModeOf[a] = "Simple" /\ s = Running(0)
  BY <1>5, NoneIsNoPid DEF AfterClaim, Starting, Running, Stopping, Variant
<1>8. ~IsRunaway(s)
  BY <1>7 DEF IsRunaway, Idle, Complete, Running, Variant
<1>9. /\ state' = [state EXCEPT ![a] = s]
      /\ killTime' = [killTime EXCEPT ![a] = None]
      /\ proc' = [proc EXCEPT ![p] = Free]
  BY <1>6, <1>8 DEF ClaimedBy, Reap
<1> HIDE DEF s
<1>10. /\ state'[a] = s /\ killTime'[a] = None
       /\ \A b \in App : b # a => state'[b] = state[b] /\ killTime'[b] = killTime[b]
       /\ proc'[p].life = "free"
       /\ \A q \in Pid : q # p => proc'[q] = proc[q]
  BY <1>9, FreeIsFree DEF TypeOK
<1>11. \A q \in Pid : ~Claims(s, q)
  BY <1>7, PlainClaims, NoneIsNoPid DEF PidOpt
<1>12. \A q \in Pid : Claims(state[a], q) <=> q = p
  BY <1>5, PlainClaims DEF PidOpt
<1>13. ProcessesTracked'
  <2>1. SUFFICES ASSUME NEW b \in App, NEW q \in Pid
                 PROVE  Claims(state'[b], q) <=> proc'[q].life # "free" /\ proc'[q].app = b
    BY DEF ProcessesTracked, Claims
  <2>2. Claims(state[b], q) <=> proc[q].life # "free" /\ proc[q].app = b
    BY DEF Accounted, ProcessesTracked
  <2>3. CASE b = a
    BY <1>10, <1>11, <1>12, <2>2, <2>3
  <2>4. CASE b # a
    BY <1>4, <1>10, <2>2, <2>4
  <2>5. QED
    BY <2>3, <2>4
<1>14. Watched'
  <2>1. SUFFICES ASSUME NEW b \in App, NEW q \in Pid, proc'[q].life = "alive", Claims(state'[b], q),
                        state'[b].st \in {"Starting", "Stopping"}
                 PROVE  killTime'[b] # None
    BY DEF Watched, In, Claims
  <2>2. b # a
    BY <1>10, <1>11, <2>1
  <2>3. q # p
    BY <1>10, <2>1
  <2>4. QED
    BY <1>10, <2>1, <2>2, <2>3 DEF Accounted, Watched, In
<1>15. \A b \in App :
         \/ state'[b] \in {Idle, Complete}
         \/ ModeOf[b] = "OneShot" /\ \E q \in Pid : state'[b] = Starting(q)
         \/ ModeOf[b] = "Simple"  /\ \E q \in Pid \cup {0} : state'[b] \in {Running(q), Stopping(q, None)}
  BY <1>7, <1>10 DEF Accounted
<1>16. QED
  BY <1>6, <1>10, <1>13, <1>14, <1>15 DEF Accounted, NoPanic

-----------------------------------------------------------------------------

LEMMA AccountedStep == NoForking /\ TypeOK /\ TypeOK' /\ Orderly /\ Accounted /\ [Next]_vars => Accounted'
<1> SUFFICES ASSUME NoForking, TypeOK, TypeOK', Orderly, Accounted, [Next]_vars PROVE Accounted'
  OBVIOUS
<1>1. CASE LeaveLoop \/ BeginKills \/ BeginStops \/ BeginStarts \/ EnterSelect
  BY <1>1, StillAccounted DEF LeaveLoop, BeginKills, BeginStops, BeginStarts, EnterSelect, apps, kernel
<1>2. ASSUME NEW a \in App, KillOne(a) PROVE Accounted'
  BY <1>2, KillAccounted
<1>3. ASSUME NEW a \in App, StopOneShot(a) PROVE Accounted'
  BY <1>3, OneShotStopAccounted
<1>4. ASSUME NEW a \in App, StopSimple(a) PROVE Accounted'
  BY <1>4, SimpleStopAccounted
<1>5. ASSUME NEW a \in App, NEW child \in Pid \cup {None}, StopForking(a, child) PROVE Accounted'
  BY <1>5 DEF StopForking, NoForking
<1>6. ASSUME NEW a \in App, NEW child \in Pid \cup {None}, StartOne(a, child) PROVE Accounted'
  BY <1>6, StartAccounted
<1>7. CASE SelectTimer \/ SelectFail \/ SelectTerm \/ SelectChld \/ NoChild
  BY <1>7, StillAccounted DEF SelectTimer, SelectFail, SelectTerm, SelectChld, NoChild, apps, kernel
<1>8. ASSUME NEW p \in Pid, Reap(p) PROVE Accounted'
  BY <1>8, ReapAccounted
<1>9. CASE Terminate
  BY <1>9, StillAccounted DEF Terminate, main, apps, kernel, Up, Ended
<1>10. CASE Tick
  BY <1>10, TickAccounted
<1>11. ASSUME NEW s \in Signal, ForwardSignal(s) PROVE Accounted'
  BY <1>11, StillAccounted DEF ForwardSignal, main, apps, kernel, Up, Ended
<1>12. ASSUME NEW g \in Group, HealthFail(g) PROVE Accounted'
  BY <1>12, StillAccounted DEF HealthFail, main, apps, kernel, Up, Ended
<1>13. ASSUME NEW p \in Pid, NEW ok \in BOOLEAN, Exit(p, ok) PROVE Accounted'
  <2>1. /\ UNCHANGED <<pc, state, killTime>>
        /\ proc[p].life = "alive" /\ proc' = [proc EXCEPT ![p] = Dead(proc[p], ok)]
    BY <1>13 DEF Exit, MayExit, In, main, apps
  <2>2. proc' \in [Pid -> Process]
    BY DEF TypeOK
  <2>3. \A q \in Pid : proc'[q] = proc[q] \/ (q = p /\ proc'[q] = Dead(proc[q], ok))
    BY <2>1 DEF TypeOK
  <2>4. QED
    BY <2>1, <2>2, <2>3, DyingAccounted
<1>14. ASSUME NEW p \in Pid, NEW daemon \in Pid, Daemonize(p, daemon) PROVE Accounted'
  <2>1. proc[p].app \in App
    BY <1>14 DEF Daemonize, MayExit, In, TypeOK, Process, Free
  <2>2. QED
    BY <1>14, <2>1 DEF Daemonize, NoForking
<1>15. CASE UNCHANGED vars
  BY <1>15, StillAccounted DEF vars, apps, kernel, Accounted, NoPanic
<1>16. QED
  BY <1>1, <1>2, <1>3, <1>4, <1>5, <1>6, <1>7, <1>8, <1>9, <1>10, <1>11, <1>12, <1>13, <1>14, <1>15
  DEF Next, Pass, Event, Outside, Terminated

\* The inductive invariant of process accounting.
THEOREM PlainIsAccounted == ASSUME NoForking PROVE Spec => []Accounted
<1>1. Init => Accounted
  <2> SUFFICES ASSUME Init PROVE Accounted
    OBVIOUS
  <2>1. \A a \in App : state[a] = Idle /\ killTime[a] = None
    BY DEF Init
  <2>2. \A p \in Pid : proc[p].life = "free"
    BY FreeIsFree DEF Init
  <2>3. ProcessesTracked
    BY <2>1, <2>2, PlainClaims DEF ProcessesTracked, PidOpt
  <2>4. Watched
    BY <2>2 DEF Watched, In
  <2>5. QED
    BY <2>1, <2>3, <2>4 DEF Accounted, NoPanic, Init
<1>2. TypeOK /\ TypeOK' /\ Orderly /\ Accounted /\ [Next]_vars => Accounted'
  BY AccountedStep
<1>3. QED
  BY <1>1, <1>2, TypeCorrect, LoopIsOrderly, PTL DEF Spec

\* claim_child() (application.rs:165-234) with handle_signal() loses no process
\* and mistakes none for another's, if no application is forking.
THEOREM PlainProcessesTracked == ASSUME NoForking PROVE Spec => []ProcessesTracked
<1>1. Accounted => ProcessesTracked
  BY DEF Accounted
<1>2. QED
  BY <1>1, PlainIsAccounted, PTL

\* A process that is awaited is under a kill timer, if no application is forking.
THEOREM PlainWatched == ASSUME NoForking PROVE Spec => []Watched
<1>1. Accounted => Watched
  BY DEF Accounted
<1>2. QED
  BY <1>1, PlainIsAccounted, PTL

\* unwrap() and unreachable!() (application.rs:109, 160, 194) are not reached,
\* if no application is forking.
THEOREM PlainNoPanic == ASSUME NoForking PROVE Spec => []NoPanic
<1>1. Accounted => NoPanic
  BY DEF Accounted
<1>2. QED
  BY <1>1, PlainIsAccounted, PTL

-----------------------------------------------------------------------------
(* All modes, until the first mishap.  Commands may fail, or fail to be    *)
(* spawned, applications be stopped and restarted at any time.             *)

\* Which pids a state names.
LEMMA StatePids ==
  ASSUME TypeOK, NEW a \in App
  PROVE  /\ state[a].st \in {"Idle", "Starting", "Running", "Stopping", "Complete"}
         /\ state[a].st \in {"Idle", "Complete"} => state[a].app = None /\ state[a].exec = None
         /\ state[a].st = "Starting" => state[a].app = None /\ state[a].exec \in Pid
         /\ state[a].st = "Running" => state[a].exec = None
BY DEF TypeOK, AppState, Idle, Complete, Starting, Running, Stopping, Variant

\* Of an application nothing has changed, nor have its processes, but for a timer
\* that it had.
Same(a) ==
  /\ state'[a] = state[a] /\ pidfile'[a] = pidfile[a]
  /\ killTime[a] = None => killTime'[a] = None
  /\ \A p \in Pid : proc[p].life # "free" /\ proc[p].app = a => proc'[p] = proc[p]

LEMMA SameHeld ==
  ASSUME TypeOK, NEW a \in App, HeldBy(a), Same(a)
  PROVE  HeldBy(a)'
<1>1. \A p \in Pid : \A role : Started(a, p, role) => proc'[p] = proc[p] /\ Started(a, p, role)'
  BY DEF Same, Started
<1>2. \A p \in In("alive") : proc[p].app = a => p \in In("alive")'
  BY DEF Same, In
<1>3. state[a].app  # None => state[a].app \in Pid /\ Started(a, state[a].app, "main")'
  BY <1>1 DEF HeldBy, Same, Started
<1>4. state[a].exec # None => /\ state[a].exec \in Pid
                              /\ proc'[state[a].exec] = proc[state[a].exec]
                              /\ Started(a, state[a].exec, IF state[a].st = "Starting" THEN "start" ELSE "stop")'
  BY <1>1 DEF HeldBy, Same, Started
<1>5. state[a].st = "Running" => state'[a].app \in In("alive")'
  BY <1>2, NoneIsNoPid DEF HeldBy, Started, In, Same
<1>6. ASSUME ModeOf[a] = "Forking", state[a].st = "Starting",
             proc'[state[a].exec].life = "zombie", proc'[state[a].exec].ok
      PROVE  pidfile'[a] \in In("alive")' /\ Started(a, pidfile[a], "main")'
  <2>1. pidfile[a] \in In("alive") /\ Started(a, pidfile[a], "main")
    BY <1>4, <1>6, StatePids, NoneIsNoPid DEF HeldBy
  <2>2. QED
    BY <1>1, <1>2, <2>1 DEF In, Started, Same
<1>7. QED
  BY <1>3, <1>4, <1>5, <1>6 DEF HeldBy, Same, Started

LEMMA AllSame == ASSUME TypeOK, Held, \A a \in App : Same(a) PROVE Held'
BY SameHeld DEF Held

LEMMA DeadIs ==
  ASSUME TypeOK, NEW p \in Pid, proc[p].life = "alive", NEW ok \in BOOLEAN
  PROVE  LET q == Dead(proc[p], ok) IN
         q.life = "zombie" /\ q.app = proc[p].app /\ q.role = proc[p].role /\ q.ok = ok
<1>1. proc[p] \in [life : {"alive", "zombie"}, app : App, role : {"start", "main", "stop"}, ok : BOOLEAN]
  BY DEF TypeOK, Process, Free
<1>2. QED
  BY <1>1 DEF Dead

LEMMA LiveIs ==
  ASSUME NEW a, NEW role
  PROVE  /\ Live(a, role).life = "alive" /\ Live(a, role).app = a /\ Live(a, role).role = role
         /\ Free.life = "free"
BY DEF Live, Free

\* A process of an application dies: one that is to be waited for, or one that
\* nobody knows of.
LEMMA DyingHeld ==
  ASSUME TypeOK, NEW a \in App, HeldBy(a),
         NEW t \in Pid, proc[t].life = "alive", proc[t].app = a, NEW ok \in BOOLEAN,
         proc'[t] = Dead(proc[t], ok), \A p \in Pid \ {t} : proc'[p] = proc[p],
         state'[a] = state[a], pidfile'[a] = pidfile[a], killTime[a] = None => killTime'[a] = None,
         proc[t].role = "main" => state[a].st = "Stopping",
         ok /\ proc[t].role = "start" => ModeOf[a] # "Forking"
  PROVE  HeldBy(a)'
<1>1. \A p \in Pid : \A role : Started(a, p, role) => Started(a, p, role)'
  BY DeadIs DEF Started
<1>2. state[a].app  # None => state[a].app \in Pid /\ Started(a, state[a].app, "main")'
  BY <1>1 DEF HeldBy, Started
<1>3. state[a].exec # None =>
        /\ state[a].exec \in Pid
        /\ Started(a, state[a].exec, IF state[a].st = "Starting" THEN "start" ELSE "stop")'
  BY <1>1 DEF HeldBy, Started
<1>4. ASSUME state[a].st = "Running" PROVE state'[a].app \in In("alive")'
  <2>1. state[a].app \in In("alive") /\ state[a].app \in Pid /\ proc[state[a].app].role = "main"
    BY <1>4, NoneIsNoPid DEF HeldBy, Started, In
  <2>2. state[a].app # t
    BY <1>4, <2>1
  <2>3. QED
    BY <2>1, <2>2 DEF In
<1>5. ASSUME ModeOf[a] = "Forking", state[a].st = "Starting",
             proc'[state[a].exec].life = "zombie", proc'[state[a].exec].ok
      PROVE  pidfile'[a] \in In("alive")' /\ Started(a, pidfile[a], "main")'
  <2>1. state[a].exec \in Pid /\ proc[state[a].exec].role = "start"
    BY <1>5, StatePids, NoneIsNoPid DEF HeldBy, Started
  <2>2. state[a].exec # t
    BY <1>5, <2>1, DeadIs
  <2>3. pidfile[a] \in In("alive") /\ Started(a, pidfile[a], "main")
    BY <1>5, <2>1, <2>2 DEF HeldBy
  <2>4. pidfile[a] # t
    BY <1>5, <2>3 DEF Started
  <2>5. QED
    BY <2>3, <2>4 DEF In, Started
<1>6. QED
  BY <1>2, <1>3, <1>4, <1>5 DEF HeldBy, Started
-----------------------------------------------------------------------------

\* kill() hits a process of the application itself, and one that it waits for.
LEMMA KillHeld ==
  ASSUME TypeOK, Orderly, Held, NEW a \in App, KillOne(a)
  PROVE  Held'
<1>1. CASE KillTarget(state[a]) = None /\ Panic
  BY <1>1, AllSame DEF Panic, apps, kernel, Same
<1>2. CASE KillTarget(state[a]) # None
  <2> DEFINE t == KillTarget(state[a])
             s == state[a]
  <2>1. killTime[a] # None
    BY NoneIsNoPid, SupervisorAssumption DEF KillOne, First, Orderly, SnapshotsHold, Due
  <2>2. s.st \in {"Starting", "Stopping"}
    BY <1>2, <2>1, StatePids DEF Held, HeldBy, KillTarget
  <2>3. /\ t \in Pid /\ proc[t].life # "free" /\ proc[t].app = a
        /\ proc[t].role = "main" => s.st = "Stopping"
    <3>1. t = s.exec \/ (s.st = "Stopping" /\ t = s.app)
      BY <2>2 DEF KillTarget
    <3>2. QED
      BY <1>2, <2>2, <3>1 DEF Held, HeldBy, Started
  <2>4. /\ SigKill(t) /\ UNCHANGED <<state, pidfile>>
        /\ killTime' = [killTime EXCEPT ![a] = None]
    BY <1>2 DEF KillOne
  <2> HIDE DEF t, s
  <2>5. /\ \A p \in Pid \ {t} : proc'[p] = proc[p]
        /\ proc'[t] = IF proc[t].life = "alive" THEN Dead(proc[t], FALSE) ELSE proc[t]
    BY <2>3, <2>4, NoneIsNoPid DEF SigKill, Victims, In
  <2>6. \A b \in App : killTime[b] = None => killTime'[b] = None
    BY <2>4 DEF TypeOK
  <2>7. \A b \in App \ {a} : Same(b)
    BY <2>3, <2>4, <2>5, <2>6 DEF Same
  <2>8. HeldBy(a)'
    <3>1. CASE proc[t].life = "alive"
      BY <2>3, <2>4, <2>5, <2>6, <3>1, DyingHeld DEF Held, s
    <3>2. CASE proc[t].life # "alive"
      BY <2>3, <2>4, <2>5, <2>6, <3>2, SameHeld DEF Held, Same
    <3>3. QED
      BY <3>1, <3>2
  <2>9. QED
    BY <2>7, <2>8, SameHeld DEF Held
<1>3. QED
  BY <1>1, <1>2 DEF KillOne

\* What a failed or successful spawn leaves of the processes.
LEMMA SpawnIs ==
  ASSUME TypeOK, NEW a \in App, NEW child \in Pid \cup {None}, NEW role, Spawn(child, a, role)
  PROVE  /\ \A p \in Pid : proc[p].life # "free" => proc'[p] = proc[p]
         /\ child # None => child \in Pid /\ proc'[child] = Live(a, role)
BY NoneIsNoPid DEF Spawn, In, TypeOK

\* stop() keeps what it knows of the application's process, and takes on the stop
\* command that it spawned.
LEMMA StopHeld ==
  ASSUME TypeOK, Held, NEW a \in App, NEW child \in Pid \cup {None},
         ~IsStopped(state[a]), StopsTo(a, child), ModeOf[a] = "Simple" => state[a].app # None,
         \A p \in Pid : proc[p].life # "free" => proc'[p] = proc[p],
         child # None => child \in Pid /\ proc'[child] = Live(a, "stop")
  PROVE  Held'
<1> DEFINE t == AfterStop(state[a], ModeOf[a], child)
<1>1. /\ state' = [state EXCEPT ![a] = t]
      /\ killTime' = IF StopAsksTimer(state[a], ModeOf[a], child)
                       THEN [killTime EXCEPT ![a] = StopTimeout] ELSE killTime
      /\ UNCHANGED pidfile
  BY DEF StopsTo
<1>2. /\ state'[a] = t
      /\ \A b \in App \ {a} : state'[b] = state[b] /\ killTime'[b] = killTime[b]
  BY <1>1 DEF TypeOK
<1>3. \A b \in App \ {a} : Same(b)
  BY <1>1, <1>2 DEF Same
<1>4. \/ ModeOf[a] = "OneShot" /\ t = state[a] /\ killTime' = killTime
      \/ ModeOf[a] = "Forking" /\ t = Idle /\ killTime' = killTime
      \/ t = Stopping(state[a].app, child)
  <2>1. \/ ModeOf[a] = "OneShot" /\ t = state[a]
        \/ ModeOf[a] = "Forking" /\ t = Idle
        \/ t = Stopping(state[a].app, child)
    BY DEF AfterStop
  <2>2. ~StopAsksTimer(state[a], ModeOf[a], child) => killTime' = killTime
    BY <1>1
  <2>3. ModeOf[a] = "OneShot" => ~StopAsksTimer(state[a], ModeOf[a], child)
    BY DEF StopAsksTimer
  <2>4. t = Idle => ~StopAsksTimer(state[a], ModeOf[a], child)
    BY DEF StopAsksTimer, Idle, Variant
  <2>5. QED
    BY <2>1, <2>2, <2>3, <2>4
<1> HIDE DEF t
<1>5. HeldBy(a)'
  <2>1. CASE ModeOf[a] = "OneShot" /\ t = state[a] /\ killTime' = killTime
    BY <1>1, <1>2, <2>1, SameHeld DEF Same, Held
  <2>2. CASE ModeOf[a] = "Forking" /\ t = Idle /\ killTime' = killTime
    BY <1>2, <2>2 DEF HeldBy, Idle, Variant
  <2>3. CASE t = Stopping(state[a].app, child)
    <3>1. t.st = "Stopping" /\ t.app = state[a].app /\ t.exec = child
      BY <2>3 DEF Stopping, Variant
    <3>2. \A q : q = state[a].app /\ q # None => q \in Pid /\ Started(a, q, "main")'
      BY DEF Held, HeldBy, Started
    <3>3. child # None => child \in Pid /\ Started(a, child, "stop")'
      BY LiveIs DEF Started
    <3>4. QED
      BY <1>2, <3>1, <3>2, <3>3 DEF HeldBy, Started
  <2>4. QED
    BY <1>4, <2>1, <2>2, <2>3
<1>6. QED
  BY <1>3, <1>5, SameHeld DEF Held

\* start() makes an application of what was Idle and under no timer, unless it is
\* a forking one, which gets a new timer.
LEMMA StartHeld ==
  ASSUME TypeOK, Orderly, Held, NEW a \in App, NEW child \in Pid \cup {None}, StartOne(a, child)
  PROVE  Held'
<1>1. state[a].st = "Idle" /\ UNCHANGED pidfile
  BY DEF StartOne, First, Orderly, SnapshotsHold, MayStart, IsIdle
<1>2. /\ \A p \in Pid : proc[p].life # "free" => proc'[p] = proc[p]
      /\ child # None => child \in Pid /\ proc'[child] = Live(a, StartRole(a))
  BY SpawnIs DEF StartOne
<1>3. \A b \in App \ {a} : state'[b] = state[b] /\ killTime'[b] = killTime[b]
  BY DEF StartOne, TypeOK
<1>4. \A b \in App \ {a} : Same(b)
  BY <1>1, <1>2, <1>3 DEF Same
<1>5. HeldBy(a)'
  <2>1. CASE child = None
    <3>1. UNCHANGED <<state, killTime>>
      BY <2>1 DEF StartOne
    <3>2. QED
      BY <1>1, <1>2, <3>1, SameHeld DEF Same, Held
  <2>2. CASE child # None
    <3>1. /\ state'[a] = AfterStart(ModeOf[a], child)
          /\ killTime' = IF StartAsksTimer(ModeOf[a])
                           THEN [killTime EXCEPT ![a] = StartTimeout] ELSE killTime
      BY <2>2 DEF StartOne, TypeOK
    <3>2. child \in Pid /\ proc'[child].life = "alive" /\ Started(a, child, StartRole(a))'
      BY <1>2, <2>2, LiveIs DEF Started
    <3>3. CASE ModeOf[a] = "Simple"
      <4>1. state'[a] = Running(child) /\ StartRole(a) = "main" /\ killTime' = killTime
        BY <3>1, <3>3 DEF AfterStart, StartRole, StartAsksTimer
      <4>2. killTime[a] = None
        BY <1>1, <3>3 DEF Held, HeldBy
      <4>3. state'[a].st = "Running" /\ state'[a].app = child /\ state'[a].exec = None
        BY <4>1 DEF Running, Variant
      <4>4. QED
        BY <3>2, <4>1, <4>2, <4>3 DEF HeldBy, In, Started
    <3>4. CASE ModeOf[a] # "Simple"
      <4>1. state'[a] = Starting(child) /\ StartRole(a) = "start"
        BY <3>1, <3>4 DEF AfterStart, StartRole
      <4>2. state'[a].st = "Starting" /\ state'[a].app = None /\ state'[a].exec = child
        BY <4>1 DEF Starting, Variant
      <4>3. QED
        BY <3>2, <3>4, <4>1, <4>2 DEF HeldBy, Started
    <3>5. QED
      BY <3>3, <3>4
  <2>3. QED
    BY <2>1, <2>2
<1>6. QED
  BY <1>4, <1>5, SameHeld DEF Held

\* The application that claims a child is the one that it was started for.
LEMMA ReapHeld ==
  ASSUME TypeOK, Held, NEW p \in Pid, Reap(p)
  PROVE  Held'
<1>1. /\ proc[p].life = "zombie" /\ proc' = [proc EXCEPT ![p] = Free]
      /\ UNCHANGED pidfile
  BY DEF Reap, In
<1>2. \A q \in Pid \ {p} : proc'[q] = proc[q]
  BY <1>1 DEF TypeOK
<1>3. \A a \in App : Claims(state[a], p) => proc[p].app = a
  BY NoneIsNoPid DEF Held, HeldBy, Started, Claims
\* Who does not claim it does not need it.
<1>4. ASSUME NEW a \in App, ~Claims(state[a], p), state'[a] = state[a],
             killTime[a] = None => killTime'[a] = None
      PROVE  HeldBy(a)'
  <2>1. \A q \in Pid : \A role : q # p /\ Started(a, q, role) => Started(a, q, role)'
    BY <1>2 DEF Started
  <2>2. state[a].app # p /\ state[a].exec # p
    BY <1>4 DEF Claims
  <2>3. state[a].app  # None => state[a].app \in Pid /\ Started(a, state[a].app, "main")'
    BY <1>4, <2>1, <2>2 DEF Held, HeldBy, Started
  <2>4. state[a].exec # None =>
          /\ state[a].exec \in Pid /\ proc'[state[a].exec] = proc[state[a].exec]
          /\ Started(a, state[a].exec, IF state[a].st = "Starting" THEN "start" ELSE "stop")'
    BY <1>2, <1>4, <2>1, <2>2 DEF Held, HeldBy, Started
  <2>5. \A q \in In("alive") : q \in In("alive")' /\ q # p
    BY <1>1, <1>2 DEF In
  <2>6. state[a].st = "Running" => state[a].app \in In("alive")'
    BY <2>5 DEF Held, HeldBy
  <2>7. ASSUME ModeOf[a] = "Forking", state[a].st = "Starting",
               proc'[state[a].exec].life = "zombie", proc'[state[a].exec].ok
        PROVE  pidfile'[a] \in In("alive")' /\ Started(a, pidfile[a], "main")'
    <3>1. pidfile[a] \in In("alive") /\ Started(a, pidfile[a], "main")
      BY <2>4, <2>7, StatePids, NoneIsNoPid DEF Held, HeldBy
    <3>2. QED
      BY <1>1, <2>1, <2>5, <3>1 DEF In
  <2>8. state[a].st = "Starting" => ModeOf[a] # "Simple"
    BY DEF Held, HeldBy
  <2>9. killTime'[a] # None => \/ state[a].st \in {"Starting", "Stopping"}
                               \/ state[a].st = "Idle" /\ ModeOf[a] = "Forking"
    BY <1>4 DEF Held, HeldBy
  <2>10. QED
    BY <1>4, <2>3, <2>4, <2>6, <2>7, <2>8, <2>9 DEF HeldBy, Started, In
<1>5. CASE \A a \in App : ~Claims(state[a], p)
  <2>1. UNCHANGED apps
    BY <1>5 DEF Reap, Claimant
  <2>2. QED
    BY <1>4, <1>5, <2>1 DEF apps, Held
<1>6. ASSUME NEW a \in App, Claimant(a, p), ClaimedBy(a, p)
      PROVE  Held'
  <2>s. PICK s : s = state[a]
    OBVIOUS
  <2>t. PICK t : t = AfterClaim(s, ModeOf[a], p, proc[p].ok, pidfile[a])
    OBVIOUS
  <2> USE <2>s
  <2>1. /\ state' = [state EXCEPT ![a] = t]
        /\ killTime' = [killTime EXCEPT ![a] = IF IsRunaway(t) THEN StopTimeout ELSE None]
    BY <1>6, <2>t DEF ClaimedBy
  <2>2. /\ state'[a] = t
        /\ ~IsRunaway(t) => killTime'[a] = None
        /\ \A b \in App \ {a} : state'[b] = state[b] /\ killTime'[b] = killTime[b]
    BY <2>1 DEF TypeOK
  <2>3. Claims(s, p) /\ proc[p].app = a
    BY <1>3, <1>6 DEF Claimant
  <2>4. \A b \in App \ {a} : HeldBy(b)'
    BY <1>3, <1>4, <2>2, <2>3
  <2>5. \A q \in Pid : \A role : q # p /\ Started(a, q, role) => Started(a, q, role)'
    BY <1>2 DEF Started
  <2>6. s.st \in {"Starting", "Running", "Stopping"}
    BY <2>3, StatePids, NoneIsNoPid DEF Claims
  <2>7. \A q \in Pid : proc[q].life = "alive" => q # p /\ proc'[q].life = "alive"
    BY <1>1, <1>2
  <2>8. ASSUME t \in {Idle, Complete} PROVE HeldBy(a)'
    BY <2>2, <2>8 DEF HeldBy, Idle, Complete, Variant, IsRunaway
  <2>9. ASSUME s.st = "Starting" /\ t \notin {Idle, Complete} PROVE HeldBy(a)'
    <3>1. s.exec = p
      BY <2>3, <2>9, StatePids, NoneIsNoPid DEF Claims
    <3>2. proc[p].ok /\ ModeOf[a] # "OneShot" /\ t = Running(pidfile[a])
      BY <2>9, <2>t DEF AfterClaim
    <3>3. ModeOf[a] = "Forking"
      BY <2>9, <3>2, SupervisorAssumption DEF Held, HeldBy, Mode
    <3>4. pidfile[a] \in In("alive") /\ Started(a, pidfile[a], "main")
      BY <1>1, <2>9, <3>1, <3>2, <3>3 DEF Held, HeldBy
    <3>5. pidfile[a] \in Pid /\ pidfile[a] \in In("alive")' /\ Started(a, pidfile[a], "main")'
      BY <1>1, <2>5, <2>7, <3>4 DEF In
    <3>6. t.st = "Running" /\ t.app = pidfile[a] /\ t.exec = None
      BY <3>2 DEF Running, Variant
    <3>7. QED
      BY <1>1, <2>2, <3>5, <3>6 DEF HeldBy, IsRunaway, Started, In
  <2>10. ASSUME s.st = "Running" PROVE HeldBy(a)'
    <3>1. s.app = p /\ proc[p].life = "alive"
      BY <2>3, <2>10, StatePids, NoneIsNoPid DEF Held, HeldBy, In, Claims
    <3>2. QED
      BY <1>1, <3>1
  <2>11. ASSUME s.st = "Stopping" /\ t \notin {Idle, Complete} PROVE HeldBy(a)'
    <3>1. s.app \in Pid /\ s.exec \in Pid /\ Started(a, s.app, "main") /\ Started(a, s.exec, "stop")
      BY <2>11, <2>t DEF AfterClaim, Held, HeldBy
    <3>2. s.app # s.exec
      BY <3>1 DEF Started
    <3>3. \/ p = s.app /\ t = Stopping(None, s.exec)
          \/ p = s.exec /\ t = Stopping(s.app, None)
      BY <2>3, <2>11, <2>t, <3>1, <3>2 DEF AfterClaim, Claims
    <3>4. CASE p = s.app /\ t = Stopping(None, s.exec)
      <4>1. t.st = "Stopping" /\ t.app = None /\ t.exec = s.exec
        BY <3>4 DEF Stopping, Variant
      <4>2. Started(a, s.exec, "stop")'
        BY <2>5, <3>1, <3>2, <3>4
      <4>3. QED
        BY <2>2, <3>1, <4>1, <4>2 DEF HeldBy, Started
    <3>5. CASE p = s.exec /\ t = Stopping(s.app, None)
      <4>1. t.st = "Stopping" /\ t.app = s.app /\ t.exec = None
        BY <3>5 DEF Stopping, Variant
      <4>2. Started(a, s.app, "main")'
        BY <2>5, <3>1, <3>2, <3>5
      <4>3. QED
        BY <2>2, <3>1, <4>1, <4>2 DEF HeldBy, Started
    <3>6. QED
      BY <3>3, <3>4, <3>5
  <2>12. HeldBy(a)'
    BY <2>6, <2>8, <2>9, <2>10, <2>11
  <2>13. QED
    BY <2>4, <2>12 DEF Held
<1>7. ASSUME NEW a \in App, Claimant(a, p), ModeOf[a] = "Simple", state[a].st = "Starting"
      PROVE  FALSE
  BY <1>7 DEF Held, HeldBy
<1>8. QED
  BY <1>5, <1>6, <1>7 DEF Reap

\* A process that ends by itself is not one that its application counts on.
LEMMA ExitHeld ==
  ASSUME TypeOK, Held, NEW p \in Pid, NEW ok \in BOOLEAN, Exit(p, ok), ~mishap'
  PROVE  Held'
<1>1. /\ proc[p].life = "alive" /\ proc' = [proc EXCEPT ![p] = Dead(proc[p], ok)]
      /\ UNCHANGED <<state, killTime, pidfile>>
      /\ proc[p].role = "main" => state[proc[p].app].st = "Stopping"
      /\ ok /\ proc[p].role = "start" => ModeOf[proc[p].app] # "Forking"
  BY DEF Exit, MayExit, Crashes, In, main, apps
<1>2. proc[p].app \in App
  BY <1>1 DEF TypeOK, Process, Free
<1>3. proc'[p] = Dead(proc[p], ok) /\ \A q \in Pid \ {p} : proc'[q] = proc[q]
  BY <1>1 DEF TypeOK
<1>4. HeldBy(proc[p].app) /\ \A a \in App \ {proc[p].app} : Same(a)
  BY <1>1, <1>2, <1>3 DEF Held, Same
<1>5. \A a \in App : a = proc[p].app => HeldBy(a)'
  BY <1>1, <1>3, <1>4, DyingHeld
<1>6. QED
  BY <1>4, <1>5, SameHeld DEF Held

\* When a start command ends well, the pidfile names the daemon that it leaves.
LEMMA DaemonizeHeld ==
  ASSUME TypeOK, Held, NEW p \in Pid, NEW daemon \in Pid, Daemonize(p, daemon), ~mishap'
  PROVE  Held'
<1>1. /\ proc[p].life = "alive" /\ proc[p].role = "start" /\ proc[daemon].life = "free"
      /\ proc' = [proc EXCEPT ![p] = Dead(proc[p], TRUE), ![daemon] = Live(proc[p].app, "main")]
      /\ pidfile' = [pidfile EXCEPT ![proc[p].app] = daemon]
      /\ UNCHANGED <<state, killTime>>
  BY DEF Daemonize, MayExit, In, main, apps
<1>2. PICK a \in App : a = proc[p].app
  BY <1>1 DEF TypeOK, Process, Free
<1>3. /\ proc'[p] = Dead(proc[p], TRUE) /\ proc'[daemon] = Live(a, "main")
      /\ \A q \in Pid \ {p, daemon} : proc'[q] = proc[q]
      /\ pidfile'[a] = daemon /\ \A b \in App \ {a} : pidfile'[b] = pidfile[b]
  BY <1>1, <1>2 DEF TypeOK
<1>4. \A b \in App \ {a} : Same(b)
  BY <1>1, <1>2, <1>3 DEF Same
<1>5. \A q \in Pid : \A role : Started(a, q, role) => Started(a, q, role)'
  <2>1. proc'[p].life = "zombie" /\ proc'[p].app = proc[p].app /\ proc'[p].role = proc[p].role
    <3>1. TRUE \in BOOLEAN
      OBVIOUS
    <3>2. QED
      BY <1>1, <1>3, <3>1, DeadIs
  <2>2. \A q \in Pid : \A role : Started(a, q, role) => q # daemon
    BY <1>1 DEF Started
  <2>3. QED
    BY <1>3, <2>1, <2>2 DEF Started
<1>6. daemon \in In("alive")' /\ Started(a, daemon, "main")'
  BY <1>3, LiveIs DEF In, Started
<1>7. state[a].st = "Running" => state[a].app \in In("alive")'
  <2>1. \A q \in In("alive") : proc[q].role = "main" => q \in In("alive")'
    BY <1>1, <1>3 DEF In
  <2>2. QED
    BY <2>1, NoneIsNoPid DEF Held, HeldBy, Started, In
<1>8. HeldBy(a)'
  <2> state' = state
    BY <1>1
  <2>1. state[a].app  # None => state[a].app \in Pid /\ Started(a, state[a].app, "main")'
    BY <1>5 DEF Held, HeldBy, Started
  <2>2. state[a].exec # None =>
          /\ state[a].exec \in Pid
          /\ Started(a, state[a].exec, IF state[a].st = "Starting" THEN "start" ELSE "stop")'
    BY <1>5 DEF Held, HeldBy, Started
  <2>3. pidfile'[a] \in In("alive")' /\ Started(a, pidfile[a], "main")'
    BY <1>3, <1>6 DEF Started
  <2>4. /\ state[a].st = "Starting" => ModeOf[a] # "Simple"
        /\ killTime[a] # None => \/ state[a].st \in {"Starting", "Stopping"}
                                 \/ state[a].st = "Idle" /\ ModeOf[a] = "Forking"
    BY DEF Held, HeldBy
  <2>5. QED
    BY <1>1, <1>7, <2>1, <2>2, <2>3, <2>4 DEF HeldBy, Started, In
<1>9. QED
  BY <1>4, <1>8, SameHeld DEF Held

LEMMA TickHeld ==
  ASSUME TypeOK, Held, Tick
  PROVE  Held'
BY AllSame, DueStaysDue DEF Tick, kernel, Same

LEMMA UnchangedHeld ==
  ASSUME TypeOK, Held, UNCHANGED <<state, killTime, proc, pidfile>>
  PROVE  Held'
BY AllSame DEF Same

LEMMA HeldStep == TypeOK /\ Orderly /\ Held /\ [Next]_vars /\ ~mishap' => Held'
<1> SUFFICES ASSUME TypeOK, Orderly, Held, [Next]_vars, ~mishap' PROVE Held'
  OBVIOUS
<1>1. CASE LeaveLoop \/ BeginKills \/ BeginStops \/ BeginStarts \/ EnterSelect
  BY <1>1, UnchangedHeld DEF LeaveLoop, BeginKills, BeginStops, BeginStarts, EnterSelect, apps, kernel
<1>2. ASSUME NEW a \in App, KillOne(a) PROVE Held'
  BY <1>2, KillHeld
<1>3. ASSUME NEW a \in App, pc = "stops", First(a) PROVE ~IsStopped(state[a])
  BY <1>3 DEF First, Orderly, SnapshotsHold
<1>4. ASSUME NEW a \in App, StopOneShot(a) PROVE Held'
  <2>1. ~IsStopped(state[a]) /\ StopsTo(a, None) /\ ModeOf[a] = "OneShot" /\ proc' = proc
    BY <1>3, <1>4 DEF StopOneShot
  <2>2. QED
    BY <2>1, StopHeld
<1>5. ASSUME NEW a \in App, StopSimple(a) PROVE Held'
  <2>1. CASE Panic
    BY <2>1, UnchangedHeld DEF Panic, apps, kernel
  <2>2. CASE state[a].app # None /\ StopsTo(a, None) /\ UNCHANGED proc
    <3>1. ~IsStopped(state[a])
      BY <1>3, <1>5 DEF StopSimple
    <3>2. QED
      BY <2>2, <3>1, StopHeld
  <2>3. QED
    BY <1>5, <2>1, <2>2 DEF StopSimple
<1>6. ASSUME NEW a \in App, NEW child \in Pid \cup {None}, StopForking(a, child) PROVE Held'
  <2>1. ~IsStopped(state[a]) /\ StopsTo(a, child) /\ ModeOf[a] = "Forking" /\ Spawn(child, a, "stop")
    BY <1>3, <1>6 DEF StopForking
  <2>2. /\ \A p \in Pid : proc[p].life # "free" => proc'[p] = proc[p]
        /\ child # None => child \in Pid /\ proc'[child] = Live(a, "stop")
    BY <2>1, SpawnIs
  <2>3. QED
    BY <2>1, <2>2, StopHeld
<1>7. ASSUME NEW a \in App, NEW child \in Pid \cup {None}, StartOne(a, child) PROVE Held'
  BY <1>7, StartHeld
<1>8. CASE SelectTimer \/ SelectFail \/ SelectTerm \/ SelectChld \/ NoChild
  BY <1>8, UnchangedHeld DEF SelectTimer, SelectFail, SelectTerm, SelectChld, NoChild, apps, kernel
<1>9. ASSUME NEW p \in Pid, Reap(p) PROVE Held'
  BY <1>9, ReapHeld
<1>10. CASE Terminate
  BY <1>10, UnchangedHeld DEF Terminate, main, apps, kernel
<1>11. CASE Tick
  BY <1>11, TickHeld
<1>12. ASSUME NEW s \in Signal, ForwardSignal(s) PROVE Held'
  BY <1>12, UnchangedHeld DEF ForwardSignal, main, apps, kernel
<1>13. ASSUME NEW g \in Group, HealthFail(g) PROVE Held'
  BY <1>13, UnchangedHeld DEF HealthFail, main, apps, kernel
<1>14. ASSUME NEW p \in Pid, NEW ok \in BOOLEAN, Exit(p, ok) PROVE Held'
  BY <1>14, ExitHeld
<1>15. ASSUME NEW p \in Pid, NEW daemon \in Pid, Daemonize(p, daemon) PROVE Held'
  BY <1>15, DaemonizeHeld
<1>16. CASE UNCHANGED vars
  BY <1>16, UnchangedHeld DEF vars, apps, kernel
<1>17. QED
  BY <1>1, <1>2, <1>4, <1>5, <1>6, <1>7, <1>8, <1>9, <1>10, <1>11, <1>12, <1>13, <1>14, <1>15, <1>16
  DEF Next, Pass, Event, Outside, Terminated

LEMMA MishapsStay == [Next]_vars /\ mishap => mishap'
<1> SUFFICES ASSUME [Next]_vars, mishap PROVE mishap'
  OBVIOUS
<1>1. CASE LeaveLoop \/ BeginKills \/ BeginStops \/ BeginStarts \/ EnterSelect
  BY <1>1 DEF LeaveLoop, BeginKills, BeginStops, BeginStarts, EnterSelect, bounds
<1>2. ASSUME NEW a \in App, KillOne(a) PROVE mishap'
  BY <1>2 DEF KillOne, Panic, bounds
<1>3. ASSUME NEW a \in App, StopOneShot(a) PROVE mishap'
  BY <1>3 DEF StopOneShot, StopsTo, bounds
<1>4. ASSUME NEW a \in App, StopSimple(a) PROVE mishap'
  BY <1>4 DEF StopSimple, StopsTo, Panic, bounds
<1>5. ASSUME NEW a \in App, NEW child \in Pid \cup {None}, StopForking(a, child) PROVE mishap'
  BY <1>5 DEF StopForking, StopsTo, bounds
<1>6. ASSUME NEW a \in App, NEW child \in Pid \cup {None}, StartOne(a, child) PROVE mishap'
  BY <1>6 DEF StartOne, bounds
<1>7. CASE SelectTimer \/ SelectFail \/ SelectTerm \/ SelectChld \/ NoChild
  BY <1>7 DEF SelectTimer, SelectFail, SelectTerm, SelectChld, NoChild, bounds
<1>8. ASSUME NEW p \in Pid, Reap(p) PROVE mishap'
  BY <1>8 DEF Reap, bounds
<1>9. CASE Terminate \/ Tick
  BY <1>9 DEF Terminate, Tick, bounds
<1>10. ASSUME NEW s \in Signal, ForwardSignal(s) PROVE mishap'
  BY <1>10 DEF ForwardSignal, bounds
<1>11. ASSUME NEW g \in Group, HealthFail(g) PROVE mishap'
  BY <1>11 DEF HealthFail
<1>12. ASSUME NEW p \in Pid, NEW ok \in BOOLEAN, Exit(p, ok) PROVE mishap'
  BY <1>12 DEF Exit
<1>13. ASSUME NEW p \in Pid, NEW daemon \in Pid, Daemonize(p, daemon) PROVE mishap'
  BY <1>13 DEF Daemonize
<1>14. CASE UNCHANGED vars
  BY <1>14 DEF vars, bounds
<1>15. QED
  BY <1>1, <1>2, <1>3, <1>4, <1>5, <1>6, <1>7, <1>8, <1>9, <1>10, <1>11, <1>12, <1>13, <1>14
  DEF Next, Pass, Event, Outside, Terminated

\* The inductive invariant of what is held on to, in all modes.
THEOREM HeldIsKept == Spec => []HeldUntilMishap
<1>1. Init => HeldUntilMishap
  <2>1. SUFFICES ASSUME Init, NEW a \in App PROVE HeldBy(a)
    BY DEF HeldUntilMishap, Held
  <2>2. state[a] = Idle /\ killTime[a] = None
    BY <2>1 DEF Init
  <2>3. QED
    BY <2>2 DEF HeldBy, Idle, Variant
<1>2. TypeOK /\ Orderly /\ HeldUntilMishap /\ [Next]_vars => HeldUntilMishap'
  BY HeldStep, MishapsStay DEF HeldUntilMishap
<1>3. QED
  BY <1>1, <1>2, TypeCorrect, LoopIsOrderly, PTL DEF Spec

\* The pids that claim_child(), stop() and kill() (application.rs:104-212) work
\* with are those of unreaped processes of the application, its daemon read from
\* a pidfile included, until a process dies unasked or its pidfile is late or, as
\* application.rs:299 allows, not configured.
THEOREM HeldPidsStayOwn == Spec => []HeldPidsAreOwn
<1>1. HeldUntilMishap => HeldPidsAreOwn
  <2>1. SUFFICES ASSUME Held, NEW a \in App, NEW p \in {state[a].app, state[a].exec} \ {None}
                 PROVE  p \in Pid /\ proc[p].life # "free" /\ proc[p].app = a
    BY DEF HeldPidsAreOwn, HeldUntilMishap
  <2>2. QED
    BY <2>1 DEF Held, HeldBy, Started
<1>2. QED
  BY <1>1, HeldIsKept, PTL

\* No kill timer or signal (init.rs:222-234, application.rs:145-163) hits the process
\* of an application that is Running, until the same time.  Of a forking application
\* without a configured pidfile nothing is claimed once its daemon is up.
THEOREM RunningStaysAlive == Spec => []RunningIsAlive
<1>1. HeldUntilMishap => RunningIsAlive
  BY DEF HeldUntilMishap, Held, HeldBy, RunningIsAlive
<1>2. QED
  BY <1>1, HeldIsKept, PTL
=============================================================================
