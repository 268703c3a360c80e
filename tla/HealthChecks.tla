---------------------------- MODULE HealthChecks ----------------------------
(***************************************************************************)
(* health.rs.  Each check has a thread of its own, started by recv_checks, *)
(* that sleeps until the check is due, makes it, and sends a message to    *)
(* the main loop if it fails.  To be able to give up, it does not make the *)
(* check itself: do_check starts one more thread, the probe, which sends   *)
(* its answer on a channel made for this one round, and waits for it no    *)
(* longer than the timeout.  A probe that is given up stays until it is    *)
(* done, and its answer goes nowhere.                                      *)
(*                                                                         *)
(* Time is counted in seconds.  A thread may be as late as the scheduler   *)
(* pleases; what the kernel promises is that nothing a probe asks of it    *)
(* takes longer than Patience (a connection attempt is given up then).     *)
(***************************************************************************)
EXTENDS Integers, Sequences, Functions, SequencesExt

CONSTANTS
  Check,       \* the checks of all groups, one for each line of a configuration
  KindOf,      \* "df", "proc" or "tcp"
  Interval,    \* of each check, in seconds
  Timeout,     \* of each check, in seconds
  Patience,    \* how long a probe may take, in seconds
  Required,    \* the space that each df check asks for, in MB
  BlockSize,   \* of the file systems, in bytes
  Space,       \* the numbers of available blocks that they may have
  Limits,      \* how many threads the kernel may grant to probes
  MaxLate,     \* bound: how many seconds overdue a check is known to be
  MaxAlarms    \* bound: messages of one check that the main loop has not taken yet

ASSUME HealthChecksAssumption ==
  /\ IsFiniteSet(Check)
  /\ KindOf \in [Check -> {"df", "proc", "tcp"}]
  /\ Interval \in [Check -> Nat]
  /\ Timeout \in [Check -> Nat]
  /\ Patience \in [Check -> Nat]
  /\ Required \in [Check -> Nat]
  /\ BlockSize \in Nat
  /\ Space \subseteq Nat
  /\ Limits \subseteq Nat /\ MaxLate \in Nat /\ MaxAlarms \in Nat

VARIABLES
  main,    \* whether the main loop "runs" or has "panicked"
  limit,   \* the number of threads that it does grant
  alive,   \* the checks whose thread has not panicked
  due,     \* seconds until each check is due, negative when it is overdue
  probe,   \* the round of each check that is being made
  lost,    \* the ages of the probes that were given up, oldest first
  alarms,  \* the channel to the main loop: the checks that have failed
  world,   \* what the probes look at
  seen     \* history: the conditions met since the round of each check began

vars == <<main, limit, alive, due, probe, lost, alarms, world, seen>>

\* A probe looks, has found what is the case, and has sent that as its answer.
Probe == [st : {"none", "looks", "found", "answered"}, age : Nat, ok : BOOLEAN]

NoProbe       == [st |-> "none",     age |-> 0, ok |-> FALSE]
NewProbe      == [st |-> "looks",    age |-> 0, ok |-> FALSE]
Answered(ok)  == [st |-> "answered", age |-> 0, ok |-> ok]

Busy(p) == p.st \in {"looks", "found"}

\* What there is for a check to find: so many blocks available, such processes of
\* the name, such a fate of a connection attempt.
Sight(blocks, procs, peer) == [blocks |-> blocks, procs |-> procs, peer |-> peer]

World(c) ==
  CASE KindOf[c] = "df"   -> {Sight(blocks, {}, "none") : blocks \in Space}
    [] KindOf[c] = "proc" -> {Sight(0, procs, "none") : procs \in {{}, {"zombie"}, {"alive"}}}
    [] KindOf[c] = "tcp"  -> {Sight(0, {}, peer) : peer \in {"accepts", "refuses", "silent"}}

Worlds == {w \in [Check -> UNION {World(c) : c \in Check}] : \A c \in Check : w[c] \in World(c)}

TypeOK ==
  /\ main \in {"runs", "panicked"}
  /\ limit \in Limits
  /\ alive \in SUBSET Check
  /\ due \in [Check -> Int]
  /\ \A c \in Check : due[c] \in -MaxLate .. Interval[c]
  /\ probe \in [Check -> Probe]
  /\ lost \in [Check -> Seq({p \in Probe : Busy(p)})]
  /\ alarms \in Seq(Check)
  /\ world \in Worlds
  /\ seen \in [Check -> SUBSET {"well", "ill", "silent"}]

-----------------------------------------------------------------------------
(* The checks themselves.                                                  *)

\* In whole units of 1024 * 1024 blocks, times the size of a block.
Free(c) == BlockSize * ((world[c].blocks \div 1024) \div 1024)

DfCheck(c)   == Free(c) > Required[c]
ProcCheck(c) == "alive" \in world[c].procs
TcpCheck(c)  == world[c].peer = "accepts"

Well(c) ==
  CASE KindOf[c] = "df"   -> DfCheck(c)
    [] KindOf[c] = "proc" -> ProcCheck(c)
    [] KindOf[c] = "tcp"  -> TcpCheck(c)

Silent(c) == KindOf[c] = "tcp" /\ world[c].peer = "silent"

Condition(c) == IF Silent(c) THEN "silent" ELSE IF Well(c) THEN "well" ELSE "ill"

-----------------------------------------------------------------------------
(* The thread of a check.                                                  *)

\* The first round comes at random in the first interval; gen_range(0, 0) panics.
FirstDue ==
  {d \in [Check -> UNION {0 .. Interval[c] : c \in Check}] :
     \A c \in Check : d[c] = 0 \/ d[c] < Interval[c]}

Init ==
  /\ main = "runs"
  /\ limit \in Limits
  /\ alive = {c \in Check : Interval[c] > 0}
  /\ due \in FirstDue
  /\ probe = [c \in Check |-> NoProbe]
  /\ lost = [c \in Check |-> <<>>]
  /\ alarms = <<>>
  /\ world \in Worlds
  /\ seen = [c \in Check |-> {}]

\* The threads of all probes that are still there.
Threads == SumFunction([c \in Check |-> Len(lost[c]) + (IF Busy(probe[c]) THEN 1 ELSE 0)])

\* Faulty variant: the thread does not sleep.
AnyTime(c) == TRUE

Time(c) == due[c] <= 0

\* The time has come, or is over: the next round is due one interval after this
\* one was, however late it is.  thread::spawn panics when it is refused a thread.
Begin(c) ==
  /\ c \in alive /\ probe[c].st = "none" /\ Time(c)
  /\ due' = [due EXCEPT ![c] = @ + Interval[c]]
  /\ IF Threads < limit
       THEN /\ probe' = [probe EXCEPT ![c] = NewProbe]
            /\ seen' = [seen EXCEPT ![c] = {Condition(c)}]
            /\ UNCHANGED alive
       ELSE alive' = alive \ {c} /\ UNCHANGED <<probe, seen>>
  /\ UNCHANGED <<main, limit, lost, alarms, world>>

\* Faulty variant: the thread ends with the first failure.
RaiseAndEnd(c) == alarms' = Append(alarms, c) /\ alive' = alive \ {c}

Raise(c) ==
  /\ Len(SelectSeq(alarms, LAMBDA a : a = c)) < MaxAlarms
  /\ alarms' = Append(alarms, c)
  /\ UNCHANGED alive

\* recv_timeout() has an answer.
Accept(c) ==
  /\ probe[c].st = "answered"
  /\ probe' = [probe EXCEPT ![c] = NoProbe]
  /\ seen' = [seen EXCEPT ![c] = {}]
  /\ IF probe[c].ok THEN UNCHANGED <<alive, alarms>> ELSE Raise(c)
  /\ UNCHANGED <<main, limit, due, lost, world>>

\* Faulty variant: try_recv() in place of recv_timeout().
OverdueAtOnce(c) == Busy(probe[c])

Overdue(c) == Busy(probe[c]) /\ probe[c].age >= Timeout[c]

\* Faulty variant: a timeout is nothing to report.
GiveUpQuietly(c) ==
  /\ Overdue(c)
  /\ probe' = [probe EXCEPT ![c] = NoProbe]
  /\ lost' = [lost EXCEPT ![c] = Append(@, probe[c])]
  /\ seen' = [seen EXCEPT ![c] = {}]
  /\ UNCHANGED <<main, limit, alive, due, alarms, world>>

\* It has none, and the time is over: the receiver is dropped.
GiveUp(c) ==
  /\ Overdue(c)
  /\ probe' = [probe EXCEPT ![c] = NoProbe]
  /\ lost' = [lost EXCEPT ![c] = Append(@, probe[c])]
  /\ Raise(c)
  /\ seen' = [seen EXCEPT ![c] = {}]
  /\ UNCHANGED <<main, limit, due, world>>

-----------------------------------------------------------------------------
(* The probes.                                                             *)

\* A check finds what is the case, unless it is left without any answer; then it
\* fails when the kernel has lost patience.
MayLook(c, p) == p.st = "looks" /\ (Silent(c) => p.age = Patience[c])
Found(c, p)   == [p EXCEPT !.st = "found", !.ok = Well(c)]

Look(c) ==
  /\ MayLook(c, probe[c])
  /\ probe' = [probe EXCEPT ![c] = Found(c, @)]
  /\ UNCHANGED <<main, limit, alive, due, lost, alarms, world, seen>>

Answer(c) ==
  /\ probe[c].st = "found"
  /\ probe' = [probe EXCEPT ![c] = Answered(@.ok)]
  /\ UNCHANGED <<main, limit, alive, due, lost, alarms, world, seen>>

\* A probe that was given up goes on.
LookLate(c, i) ==
  /\ i \in DOMAIN lost[c] /\ MayLook(c, lost[c][i])
  /\ lost' = [lost EXCEPT ![c][i] = Found(c, @)]
  /\ UNCHANGED <<main, limit, alive, due, probe, alarms, world, seen>>

\* Faulty variant: all rounds of a check share a channel.
AnswerOnShared(c, i) ==
  /\ i \in DOMAIN lost[c] /\ lost[c][i].st = "found"
  /\ IF Busy(probe[c])
       THEN /\ lost' = [lost EXCEPT ![c] = Append(RemoveAt(@, i), probe[c])]
            /\ probe' = [probe EXCEPT ![c] = Answered(lost[c][i].ok)]
       ELSE lost' = [lost EXCEPT ![c] = RemoveAt(@, i)] /\ UNCHANGED probe
  /\ UNCHANGED <<main, limit, alive, due, alarms, world, seen>>

\* In the end it is told that nobody wants its answer any more.
AnswerLate(c, i) ==
  /\ i \in DOMAIN lost[c] /\ lost[c][i].st = "found"
  /\ lost' = [lost EXCEPT ![c] = RemoveAt(@, i)]
  /\ UNCHANGED <<main, limit, alive, due, probe, alarms, world, seen>>

-----------------------------------------------------------------------------
(* The world outside.                                                      *)

\* What a check is about becomes something else.
Change(c) ==
  /\ c \in alive
  /\ \E new \in World(c) : new # world[c] /\ world' = [world EXCEPT ![c] = new]
  /\ seen' = [seen EXCEPT ![c] = IF probe[c].st = "none" THEN {} ELSE @ \cup {Condition(c)'}]
  /\ UNCHANGED <<main, limit, alive, due, probe, lost, alarms>>

\* The main loop takes a message.
Hear ==
  /\ alarms # <<>>
  /\ alarms' = Tail(alarms)
  /\ UNCHANGED <<main, limit, alive, due, probe, lost, world, seen>>

\* The channel is closed once the threads that send on it have all panicked, or if
\* there was none: select then returns None, which run() holds to be impossible.
HearNothing ==
  /\ main = "runs" /\ alarms = <<>> /\ alive = {}
  /\ main' = "panicked"
  /\ lost' = [c \in Check |-> <<>>]
  /\ UNCHANGED <<limit, alive, due, probe, alarms, world, seen>>

Sooner(t) == IF t > -MaxLate THEN t - 1 ELSE t

Older(p) == IF Busy(p) THEN [p EXCEPT !.age = @ + 1] ELSE p

Tick ==
  /\ \A c \in Check : \A p \in {probe[c]} \cup ToSet(lost[c]) : Busy(p) => p.age < Patience[c]
  /\ due' = [c \in Check |-> Sooner(due[c])]
  /\ probe' = [c \in Check |-> Older(probe[c])]
  /\ lost' = [c \in Check |-> [i \in DOMAIN lost[c] |-> Older(lost[c][i])]]
  /\ UNCHANGED <<main, limit, alive, alarms, world, seen>>

Round(c) == Begin(c) \/ Accept(c) \/ GiveUp(c)
Probes(c) == Look(c) \/ Answer(c) \/ \E i \in DOMAIN lost[c] : LookLate(c, i) \/ AnswerLate(c, i)

Next == Hear \/ HearNothing \/ Tick \/ \E c \in Check : Round(c) \/ Probes(c) \/ Change(c)

Spec == Init /\ [][Next]_vars

\* Threads are scheduled, time passes, the kernel keeps its promise and the main
\* loop comes back to its channels.  Nothing need ever be well.
FairSpec ==
  /\ Spec
  /\ WF_vars(Hear) /\ WF_vars(Tick)
  /\ \A c \in Check : WF_vars(Round(c)) /\ WF_vars(Probes(c))

-----------------------------------------------------------------------------
(* Safety.                                                                 *)

\* A failure is reported only of something that was not well at some moment of
\* the very round that is reported, or whose answer has been awaited for all of
\* the timeout: never on the word of an earlier probe.
FailureIsReal ==
  [][\A c \in Check :
       alarms' = Append(alarms, c) => seen[c] \ {"well"} # {} \/ probe[c].age >= Timeout[c]]_vars

\* Services that hang do not pile up threads: the probes of a check that were
\* given up are as many as timeouts fit into the longest time that a probe takes.
FewThreads == \A c \in Check : Timeout[c] * Len(lost[c]) <= Patience[c]

\* So, if the kernel grants each check that many threads and one more, no check
\* is lost, except one without an interval, which was never there; and if there is
\* any, the main loop goes on.
Enough ==
  /\ \A c \in Check : Timeout[c] > 0
  /\ SumFunction([c \in {x \in Check : Interval[x] > 0} |-> 1 + Patience[c] \div Timeout[c]]) <= limit

Unbroken ==
  Enough => /\ \A c \in Check : c \in alive <=> Interval[c] > 0
            /\ (\E c \in Check : Interval[c] > 0) => main = "runs"

\* Whatever happens to the checks, the main loop does: run() says in unreachable!()
\* that select always has an event for it.
SelectHasAnEvent == main = "runs"

\* A df check asks for megabytes: with so many of them, and more, it does not fail.
\* (In units of 1024 bytes.)
EnoughIsWell ==
  \A c \in Check :
    KindOf[c] = "df" /\ world[c].blocks * (BlockSize \div 1024) > Required[c] * 1024 => Well(c)

-----------------------------------------------------------------------------
(* Liveness, under FairSpec.                                               *)

\* Each check is made again and again, whatever hangs, its own probes included.
ChecksGoOn ==
  Enough => \A c \in Check : Interval[c] > 0 => []<>Busy(probe[c])

\* What is not well, and does not become well, is reported again and again.
IllIsReported ==
  Enough => \A c \in Check :
    Interval[c] > 0 /\ <>[](Condition(c) # "well") => []<>(\E i \in DOMAIN alarms : alarms[i] = c)

-----------------------------------------------------------------------------
(* What all this implements.                                               *)

W == INSTANCE Watchdog WITH
       condition <- [c \in Check |-> Condition(c)],
       open <- {c \in Check : probe[c].st # "none"}

\* The threads and channels keep the promises of Watchdog.
Vigilance == W!Spec
=============================================================================
