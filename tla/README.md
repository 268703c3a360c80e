# A verification of riffol

riffol is an init system for containers: it starts the applications of a
configuration in the order of their requirements, adopts and reaps their
processes, watches their health and takes them down again. This directory holds
TLA+ models of it, runs of the model checker TLC, and proofs checked by TLAPS.
Paths below are relative to the repository (`src/src/init.rs` is riffol's `init.rs`).

## 1. The system

| Component | Source | State it keeps | Operations |
|---|---|---|---|
| Main loop | `init.rs` | per application `needs_stop`, `kill_time`, `start_time`, `depends`, `rdepends`; the local `shutdown` | `run`, `do_kills`, `do_stops`, `do_starts`, `get_next_timeout`, `handle_signal`, `handle_healthcheck_fail`, `schedule_stop` |
| Dependency setup | `init.rs`, `setup_dependencies` | `deps`, `others` while it runs; leaves `depends`, `rdepends` | one closure for each application, then the inversion |
| Application | `application.rs` | `AppState`: `Idle`, `Starting{exec_pid}`, `Running{app_pid}`, `Stopping{app_pid, exec_pid}`, `Complete` | `start`, `stop`, `kill`, `claim_child`, the predicates `is_*`, `start_process`, `read_pidfile` |
| Signals | `signal.rs` | a thread, a channel | `recv_signals` (TERM, INT, CHLD), `signal` = kill(2); makes riffol a subreaper |
| Health checks | `health.rs` | one thread per check with the time of its next round, one more (the *probe*) per round | `recv_checks` sends (group, message) for each failing round; `do_check` of each kind |
| Stream redirection | `stream.rs` | a thread with an mio poll, a slab of connections (a `BufReader` on a pipe and a destination), the local `closed` | `add_stream`, `read_line`, `write_line` to a file or syslog, `drop` |
| Configuration | `config.rs` | none that lasts | `get_config` makes applications, health checks and limits of a parsed file, or refuses it |
| Resource limits | `limit.rs` | none | setrlimit in the child |
| Entry points | `main.rs`, `lib.rs` | none | configuration, threads, `Init::run`, exit code |
| Distribution packages | `distro.rs` | none | not compiled: `lib.rs` does not name it |

The main thread owns all state of the first three. What reaches it are messages
on three channels, between which `crossbeam_channel::Select` chooses: signals,
health check failures, and one timer for the earliest deadline. Applications are
processes: the kernel tells of their end by SIGCHLD, which the signal thread
forwards, and the main thread then calls `wait(2)` once.

What applications write to their standard outputs goes another way: `start()` hands
the read ends of their pipes to the stream handler's thread by a channel, and that
thread copies lines to their destinations. It tells the main thread nothing, and is
joined when `run` ends.

Health checks run beside all that. Each has a thread that sleeps until its next round and a
further thread for each round, because a check can hang; what reaches the main thread is the
failure alone. The threads share nothing else, and start once the configuration has been read.

What is hard about it:

- *Interleaving.* Children die, daemons fork and signals arrive between any two
  system calls of the main thread.
- *Stale snapshots.* `do_kills`, `do_stops` and `do_starts` collect indices,
  then treat them one by one.
- *Stale identities.* Pids are kept in `AppState`, read from pidfiles, marked dead
  with `Some(0)`, and signalled later.
- *Lost wake-ups.* SIGCHLD is not counted, some changes of state raise no event,
  and `wait(2)` blocks.
- *Partial failure.* A spawn fails; one of two processes of a daemon dies.
- *Timers.* One kill timer per application serves start commands, stop commands
  and runaway processes in turn.
- *Late answers.* A round of a health check is given up while its probe goes on, and the next one begins.
- *Closed channels.* A thread that panics says nothing; the last sender that goes closes its channel.
- *Unordered maps.* What a file holds is gone through in the order of `HashMap`s.
- *Edge-triggered readiness.* A pipe that the stream handler leaves unread is reported again
  only when something else happens to it.

`PROJECT.json` lists the hazards with their lines and the properties about each.

What makes each component correct:

- main loop: starts and stops follow the dependencies, requests and collected
  indices are good when they are used, shutdown is final and comes to an end,
  what was asked for is done sooner or later;
- setup: `depends` is the transitive closure of `requires`, `rdepends` its inverse;
- application: it holds on to exactly its own unreaped processes, what it waits
  for is under a timer, none of its panics is reached;
- signals: children that die are reaped;
- health checks: a failure is reported once for each round that fails, and only if it did; a
  service that hangs stops neither its own checks nor the others, and does not use up the threads;
- streams: lines go to their destination whole, in order, once and all of them, and riffol's
  end waits for what applications that are over have written and for nothing else;
- configuration: what the file mentions is run, with the limits and the environment that it gives,
  or the file is refused, whatever the order of its maps.

## 2. The modules

| Module | What it is |
|---|---|
| `Application` | `application.rs` as operators: the states, what each method makes of one, whom it signals |
| `Dependencies` | what `depends` and `rdepends` mean: every application that each closed set around `a` must hold |
| `DependencySetup` | `setup_dependencies` round by round, over every configuration |
| `Supervisor` | the main loop, with the kernel, the signal thread and the health check channel around it |
| `Lifecycle` | the abstract specification that `Supervisor` implements (`Promise`) |
| `Streams` | stream redirection: the handler thread, its channel and the pipes |
| `Relay` | the abstract specification that `Streams` implements (`Relayed`) |
| `HealthChecks` | `health.rs`: the threads of the checks and their probes, time, and the channel to the main loop |
| `Watchdog` | the abstract specification that `HealthChecks` implements (`Vigilance`) |
| `Configuration` | the limits and environment of an entry, as operators; `setlimit` |
| `Startup` | `get_config` entry by entry, then the setup: everything before the main loop |
| `MCSupervisor`, `MCStreams`, `MCHealthChecks`, `MCStartup` | the instances for TLC |
| `DependencySetup_proofs`, `Startup_proofs`, `Supervisor_proofs`, `Accounting_proofs`, `Streams_proofs`, `StreamsRelay_proofs`, `HealthChecks_proofs` | the proofs |
| `FoldLemmas` | what the proofs need of finite sums, folds and the greatest of some numbers |

`Supervisor` extends `Application` and `Dependencies`; `DependencySetup` is what
justifies its definition of `depends`: the setup runs once, before anything else
does, so the two never interleave. `Startup` extends `DependencySetup` and `Configuration`
and puts the reading of the file before the setup. `HealthChecks` meets `Supervisor` in the channel:
`Raise` there is `HealthFail` here, and `Hear` is `SelectFail`. `Supervisor` lets a failure come at any time,
which is more than `HealthChecks` ever does, so what holds of it holds with these checks; it takes for
granted that the channel stays open (`HearNothing` of `HealthChecks` is what happens when it does not). `Streams` stands for itself: the handler reads nothing
of the supervisor's state, and what the supervisor does to it is `Spawn`, `AddStream`
and `DropHandler`.

### Supervisor and the code

The main thread is a program counter, `pc`. One turn of the `while` of `run` is

    loop -> kills -> stops -> starts -> select [-> wait] -> loop

`BeginKills`, `BeginStops` and `BeginStarts` evaluate the filters of `do_kills`,
`do_stops`, `do_starts` and put the indices into `todo`; `KillOne`, `StopOneShot`,
`StopSimple`, `StopForking` and `StartOne` treat the least index in `todo`, each with
all its calls (spawn, kill) and the assignments after them. The granularity is one
index per step, so that processes and signals interleave with each treatment. Each
treatment makes at most one system call that others can see. During shutdown
`do_starts` is not called; the model then goes through `starts` with nothing to do.
`SelectTimer`, `SelectFail`, `SelectTerm` and `SelectChld` are the arms of the
`match`, `handle_signal` included; a SIGCHLD leads to `wait`, where `Reap(p)` is
`wait(2)` returning the zombie `p`, followed by `claim_child` on each application
in index order and by the branches on what became of it. `NoChild` is ECHILD.

Around it: `ForwardSignal` (signal thread), `Terminate` (SIGTERM or SIGINT from
outside), `HealthFail` (a message of `health.rs`), `Tick` (time), `Exit` and
`Daemonize` (the processes). `needsStop`, `killTime`, `startTime`, `state` and
`shutdown` are the fields of that name. Each of the variants of `AppState` is a
record of the same shape; a field that a variant lacks holds `None`.

Time is what is left of each timer: `Tick` takes one off every timer at once, and
0 is "due". The delays are 30 s, 5 s and 1 s in the code and 3, 2, 1 in the runs;
the proofs need only that they are in this order.

Pid 0 is not abstracted away: `claim_child` marks a dead application with
`Some(0)`, and kill(2) takes 0 for the whole process group of the caller. `SigTerm`
and `SigKill` do so too: the group is riffol and its children except daemons, which
have left it by `setsid`. A SIGKILL that process 1 sends itself has no effect,
which `RunsAsInit` says.

What is assumed of the world outside (external to this code):

- a simple application or a daemon ends only in a crash (fault `crash`) or while it
  is being stopped; it may ignore SIGTERM for as long as it likes;
- a start command that fails leaves no daemon behind;
- a daemon writes its pidfile before its start command is done, or (fault
  `pidfile`) has not yet, when the file still holds what it held before. A forking application for which
  no pidfile is configured (`application.rs:299`) is covered as one whose pidfile never is written: `read_pidfile` gives
  `None`, and what is claimed until the first `mishap` is not claimed of it;
- of a signal that is raised again before it is taken, one is delivered;
- children of other origin than riffol's commands are left out.

Whether a process has crashed or a daemon came up without its pidfile (late, or not configured) is kept in the history variable `mishap`, which no guard reads.

### Streams and the code

The handler thread is a program counter too. One turn of its `while` is

    recv -> poll -> events [-> read -> hup -> events] -> recv

`RecvNothing`, `RecvAdd` and `RecvClose` are the outcomes of `try_recv`; `Poll` makes the
batch of events, and `TakeEvent` is the head of the `for`. `ReadLine`, `ReadTail` and
`StopReading` are the turns of the inner `loop`: `read_line` returns a line, or a last line
without newline, or ends it (an error, WouldBlock, or an empty line at the end of file), and
a line is passed to `WriteLine` in the same step. `HangUp` is the second half of the body.
Everything that other threads and processes can see or do happens between these steps: they write,
close their ends, start, and the handler is dropped.

- *Readiness.* `edge` is what epoll keeps for edge-triggered registrations: a pipe enters it when
  something is written, when its last writer goes, or when it is registered and already
  ready, and leaves it when a poll looks at it. What poll reports is the state of the
  pipe at that moment (`Ready`).
- *Buffering.* `pipe` is what the kernel holds, `buf` what the `BufReader` has taken. A read takes
  all that the pipe has, which is what a `BufReader` of 8 KB does as long as less is waiting;
  with more it takes it in several goes, with nothing between that another actor could tell.
- *Lines* are numbers, written at once or in two parts. `finished` is a history variable: the pipes
  that were closed when `run` ended.
- *Destinations.* A file that exists refuses the line (`create_new`), and `Rotate` moves one away.
  A syslog server is there or not; its address and the format of messages are left out.
- `Capacity` is the size of the event buffer, 128 in the code.

Assumed of the world outside: a pipe has one reader, and writes of the sizes in question are not
interleaved within a part. What can go wrong is named in `FaultKinds`.

### HealthChecks and the code

`Begin`, `Accept` and `GiveUp` are a turn of the `loop` of `recv_checks`: the end of `sleep` and the call of
`do_check` up to `recv_timeout`; its return with an answer; its return without one. Sending the failure
belongs to the latter two. A probe (`probe[c]`) looks (`Look`), then sends (`Answer`): between the two the
world may change, and the round be given up. Probes that were given up are in `lost[c]`, oldest first, and
go on (`LookLate`) until they are told that nobody listens (`AnswerLate`).

- *Time* is in seconds. `due[c]` is `next` as seen from now: negative when the check is overdue, which it may become
  at will, since `Tick` waits for no thread. What `Tick` does wait for is the kernel: no probe
  gets older than `Patience`, the longest time that what it asks for can take (a TCP connection attempt without any
  answer; 0 for the other two kinds).
- *Threads.* `limit` is how many probes may have one; when they are all taken `thread::spawn` panics and the check's thread is gone from `alive`.
- *The world* is what each kind of check looks at: blocks available, processes of the name that are alive or zombies,
  a peer that accepts, refuses or is silent. `Well` is `do_check` of each kind, on this world.
- `seen` is a history variable: the conditions there were since the round began.
- `HearNothing` is the arm `None` of the main loop's `match`.

### Configuration, Startup and the code

`ReadInit`, `ReadGroup` and `ReadApplication` are the three nested loops of `get_config`; what is not yet gone through is
`inits` (a set: a `HashMap` has no order), `groups` and `ids`. `Refuse` is each `return Err` and `?`. `ReadChecks`
is the fold over the health checks at the end, after which `riffol` calls `Init::run`, whose `setup_dependencies` is `Setup`.
`apps` has of `application::Application` what the properties are about. `Environments` is the set of environments that the
orders of `pass` can lead to; the other operators of `Configuration` are the functions of `config.rs` that they are named after. An entry is
a record of what the code tells apart: a line of an `env_file` is a name and a value, a stream is a file, a local
syslog, or a remote one with addresses that can or cannot be read, and a health check can be read or not. Numbers are
those of the file modulo `Word` (2^64), where `max_mem` is multiplied.

Named `Faulty variant` in the modules are definitions with a plausible mistake: each property is
violated when one of them takes the place of its original, which shows that the
property depends on that part of the code.

## 3. What is checked

| Run (cfg) | Instance | Properties | Distinct states |
|---|---|---|---|
| `wordpress` | a service (apache in the foreground) requires a job that requires a daemon, after `examples/wordpress`; faults `crash`, `spawn`, `pidfile` | `TypeOK`, `DependencyOrder`, `StopsAreServiceable`, `SnapshotsHold`, `Orderly`, `HeldPidsAreOwn`, `RunningIsAlive`, `HeldUntilMishap`, `ShutdownIsFinal`, `Promise` | 2.6 million |
| `plain` | a service requires a service that requires a job; `crash`, `spawn`; riffol is process 1; two SIGTERMs, two failures | `ProcessesTracked`, `Watched`, `NoPanic`, `Accounted` | 240 thousand |
| `plain_liveness` | the instance of `plain`, no faults, two failures, fair | `TerminationServed`, `StopsAreServed`, `StartsAreServed` | 31 thousand |
| `startup` | files with two inits and up to three mentions, every way in which three applications can require each other; entries with each sort of limits and environments; files with something wrong | `TypeOK`, `LoopInvariant`, `SetupIsRight`, `RefusedIffBroken`, `LoadedAsWritten`, `LimitsAreLeast`, `EnvIsLayered`, `StartupEnds` | 75 thousand |
| `health` | a process, a connection whose peer may hang, a check that is never made; 1 or 3 threads; fair | `TypeOK`, `FewThreads`, `Unbroken`, `FailureIsReal`, `Vigilance`, `ChecksGoOn`, `IllIsReported` | 254 thousand |
| `streams` | two pipes to syslog, 3 lines each, no faults, fair | `Attentive`, `Relayed`, `DropReturns`, `LinesAreRead` | 69 thousand |
| `stream_faults` | one pipe to a file, one to syslog, one event at a time, every fault | `TypeOK`, `InOrder` | 3.8 million |

What they show, in order: applications are up only on top of what they require,
through every interleaving, and the main loop keeps the promises of `Lifecycle`;
requests and collected indices never go stale; where nothing forks no process is
lost, mistaken or awaited without a timer, and nothing panics; where something does processes may be
forgotten, but until one dies unasked or comes up without its pidfile none is mistaken, and what is Running is alive; in a chain termination, health
check failures and restarts are served; a file is refused exactly if something in it is wrong, and else leads to
the applications, limits, environments and dependency lists that it states,
repeated, unknown and circular ids included; an alarm is never the word of an earlier probe, hanging probes stay few, and
what is ill is reported for as long as it is; no readiness event is
lost, and lines arrive in order and once whatever fails, all of them if nothing does, even while riffol
ends; the end of riffol never waits for an application to close its outputs.

**Bounds.** `MaxTerm` and `MaxFail` bound what comes from outside, `MaxSigs` the
signals in the channel (the real one is not bounded; while it is full the
signal stays pending, where a second one would merge with it, so that it delays
only), `Pid` the processes. Three pids let the kernel hand out a
reaped pid again and let a stop command, a daemon and a start command live at the
same time; when none is left, spawning fails, as fork(2) does. Three applications in a chain
have a middle one with a dependant and a dependency of its own, direct and
transitive dependencies. `wordpress` has one daemon; two of them are beyond the bounds of the run, and what several could do
to each other (take over pids, be claimed or signalled for one another) is left to the proofs, which are about any number. Two signals in the channel let a SIGTERM overtake or
follow a SIGCHLD. Pids are interchangeable in every safety run (`Symmetry`); the
liveness runs do without symmetry. For `Streams`, two pipes are one that is being read and one that
becomes ready meanwhile, and two lines (three in `streams`) are what is in the buffer and what comes after it
was filled. `Capacity` is 2, so that it never gets in the way, or 1, so that it does with
two pipes as 128 would with 129. In `health` the connection is checked
each second, is given up after 2 and may hang for 2, so that a probe that was given up and the
next round overlap, its answer included; `MaxLate` and `MaxAlarms` keep lateness and the channel
finite. Of the two numbers of threads one is too small for all checks, so that threads panic, and one is
`Enough`. In `startup` `Word` is 16 and `Mega` is 4, so that two of
the limits on memory fit and one wraps.

**Deadlock.** Checked in `startup`, `plain_liveness`, `health` and the runs of `Streams`, where the end of a thread
or program is a state of its own. It is not in the safety runs, whose
system may really come to rest: once the bounds on events are used up, riffol waits
in `select`, or in `wait(2)` for a child that lives for ever.

**Fairness** (`FairSpec`). The main thread's own steps, `wait(2)` with a zombie
present, the signal thread and time are weakly fair: each is a thread that the
kernel schedules, or a clock. The arms for signals and failures are strongly fair:
crossbeam-channel (0.2.6 in `Cargo.lock`) chooses at random among the channels
that are ready, so that none of them is passed over for ever, even when an overdue timer
makes `select` return at once every time. `SelectTimer` has weak fairness only: when
it is enabled nothing but a turn of the loop disables it. No fairness is assumed of any
process: one-shot commands may run, and services ignore SIGTERM, for ever. What
makes progress certain are the kill timers. `StartsAreServed`
and `TerminationServed` are thus about the code and not about good manners of the
processes.
They are also about the shape of the instance. In a chain a dependant is down before what it depends on is asked to stop,
so that no two of riffol's children end together, and without crashes each death has a SIGCHLD of its own. Independent services,
which riffol stops at once, would meet finding 2, and `TerminationServed` and `StopsAreServed` would fail. In `Streams` it is weak fairness of the handler's steps together (`FairSpec`): a thread
that is scheduled, whose poll gives up after 50 ms. No application need write, or close anything.
In `HealthChecks` it is weak fairness of each check's thread (`Round`), of its probes, of time
and of the main loop's taking messages; nothing need ever become well, or answer. In `Startup`, of the one
thread there is.

### Findings

Five runs end in a counterexample, each for one sentence that the repository says of
itself; `PROJECT.json` quotes them.

1. `stale_kill_timer`: `kill()` reaches its `unreachable!()`. A stop of a daemon whose
   start command is still running, when the stop command cannot be spawned, leaves the
   application idle and its 30 s timer armed. In the trace the start that follows in the same turn cannot be spawned
   either; one that could would arm the timer anew.
2. `lost_child`: two children that die together leave one SIGCHLD; one is not reaped.
3. `sleeping_start`: `do_starts` looks once at what may start. A simple application is up
   at once and raises no event, so that what requires it waits for an unrelated one.
4. `half_line`: the part of a line that is there when the rest would block is dropped, and
   the rest is passed on as a line. `LinesAreWhole` judges only lines that were written with their newline, so that a last
   line which its writer leaves unfinished (`ReadTail`) is not taken for one.
5. `unchecked`: `run()` reaches the `unreachable!()` of its `match`. The channel of failures is closed when no thread checks
   anything: none is configured, or all have panicked, as a check with interval 0 does at once.
   riffol then ends without stopping its applications.

The models show more, which instances of the passing runs leave out:

- The death of a stopping daemon takes the kill timer of the stop command with it. If that
  hangs, so does the stop. (`Watched`, in the instance of `lost_child`.)
- After a crash the mark `Some(0)` is taken for "the main process is still active" (`init.rs:129`). Five
  seconds later `kill()` sends SIGKILL to pid 0, riffol's own process group, and the application
  stays in `Stopping`. (`RunawayIsActive` with the faults `crash` and a failure of a daemon.)
- Free space is divided by 1024 * 1024 before it is multiplied by the size of a block: 1 GB in blocks of 4096 bytes
  counts as 0 MB. (`EnoughIsWell` with one check of 100 MB and `Space = {262144}`.)
- A check without an interval is never made; one that is refused a thread is not made again. (`Unbroken` without `Enough`.)
- `write_line` opens files with `create_new(true)`; only the first line reaches a
  file, and none if the file was there before. (`Relayed` with `SinkOf <- ToBoth` and a file.)
- A line that is not UTF-8 ends the inner loop, and what follows in the pipe stays there
  until more is written. (`Attentive` with the fault `bad`.)
- Descriptors of pipes that hang up are never closed (`into_raw_fd`); at `Close` what does not fit
  into one poll of 128 events is lost; the last line loses its last character if it has
  no newline, and that slice panics in the middle of a character.

This is why `ProcessesTracked`, `Watched` and `NoPanic` are stated for instances
without forking applications, why `HeldPidsAreOwn` and `RunningIsAlive` are up to the first `mishap`
(a crash leaves the mark 0, or a pidfile that names a pid of the past; so does a pidfile that is late, and one that is not configured leaves no pid), why liveness is checked without crashes and failing
spawns, and why `StartsAreServed` leaves out what depends on simple applications. With forking there is one
more way to lose a process: `stop()` of a daemon that is `Starting` forgets its
start command, and what that brings up later belongs to nobody. With a failing `exec`
there is one more way to hang: Rust's `spawn` reaps the child that failed, but its SIGCHLD
sends the main thread into `wait(2)`, where it stays until another child dies.

## 4. What is proved

For every number of applications and pids, all modes, requirements, health check
groups, timers in the order of the code, bounds and faults. The assumptions are those
named in the modules (`NAppsAssumption`, `PidAssumption`, `SupervisorAssumption`,
`StreamsAssumption`, `HealthChecksAssumption`, `ConfigurationAssumption`, `StartupAssumption`);
TLC evaluates them for the instances.

- `DependencySetup_proofs`: `TypeCorrect`; `LoopCorrect`, that `LoopInvariant` is inductive;
  `SetupCorrect`. The argument: `deps` never
  leaves what every closed set around `idx` must hold (`GrowthIsNeeded`), and when a
  round moves nothing it is closed itself (`NoPassIsClosed`), so it is the least
  such set (`ClosedIsEnough`). No induction over data is needed, because `Needs`
  defines the closure from above.
- `Startup_proofs`: `StartupTypeCorrect`, `StartupLoopCorrect` and `StartupSetupCorrect` carry these over to `Startup`, whatever
  has been read: until the setup begins its variables are as `Init` wants them (`Fresh`), and from
  then on each step is one of its own. `RefusalCorrect` is `RefusedIffBroken`, by an invariant
  (`Faithful`) that what is left to read is part of the file, and that what has been read was sound; so
  when nothing is left, everything was.
  `LoadedAsWrittenCorrect` needs to know at every step how much of the file has been mentioned so far:
  all of the inits that were gone through, and of the one that is being gone through the places up to the
  present one (`Upto`). `Counted` says that each application is loaded as often as that mentions it; taking a
  group or an init adds nothing to it, reading an application adds the one place that was read.
  `LimitsCorrect` and `EnvCorrect` rest on `Written` (`WrittenCorrect`): what is loaded is what the operators of
  `Configuration` make of an entry that made sense. What these give for lists of any length is proved step by
  step: a fold from the left is a sequence of intermediate results (`FoldLeftByStep`), of which an invariant holds
  from the first to the last (`LimitIsLeast`, `FileProperties`, `PassedProperties`); `Layers` puts the three
  layers of an environment above each other.
- `HealthChecks_proofs`: `TypeCorrect`; `AgesCorrect`, then `FewThreadsCorrect`; `HonestCorrect`, then
  `FailureIsRealCorrect` and `VigilanceCorrect`; `UnbrokenCorrect`. `FewThreads` is not inductive: that few probes
  hang follows from their ages. `Ages` says that each probe is at least a timeout older than
  the one after it, the youngest at least a timeout older than the one that is awaited, and none older
  than `Patience`; so the oldest has seen as many timeouts as there are probes. `Honest` says what a round that
  is being made has met: the present condition, and what its probe has found.
  From it comes that an alarm is real, and the refinement of `Watchdog`: a round passes only if all was well at some moment. `Unbroken` counts threads over all checks:
  the probes that hang are no more than `Patience \div Timeout` each (`FewThreads`), and a check that is about to begin a
  round has none that it waits for, so the sum stays below what `Enough` grants (`SumLess`). For there to be a sum, the
  checks are finitely many, which is an assumption.
- `FoldLemmas`: sums over finite sets, `Max` of a set of numbers, and folds, for all sets and lengths. Induction
  is done on sets: what is to be shown of each number or subset is the set of those of which it holds (`NatSetInduction`, `SubsetInduction`).
- `Supervisor_proofs`: `TypeCorrect`; `LoopIsOrderly`, `OrderIsKept`, `RequestsFindSomething`,
  `IndicesStayGood`; `PromiseIsKept`, `ShutdownStands`.
  `Orderly` is the inductive invariant. `DependencyOrder` is not inductive alone:
  that the index which `do_stops` treats next has no dependant up rests on
  `SnapshotsHold`, whose part about starts rests on no requirement having been stopped or
  asked to stop since, hence on `todo \subseteq Startable`; and a request
  that is still there when `do_stops` is over must be for an application that is `Running`
  (not one that is `Starting`, which could fall back to `Idle` with a request on
  it), because every dependant that keeps it waiting is up only on top of one that is up.
- `PromiseIsKept` is the refinement: each action maps to one of `Lifecycle` or to a
  stutter, under `TypeOK` and `Orderly`. `ShutdownStands` is read off it: no action of `Lifecycle`
  takes anything from down to up while it is closing.
- `Accounting_proofs`: under `NoForking` (no application is forking), `PlainIsAccounted` and
  from it `PlainProcessesTracked`, `PlainWatched`, `PlainNoPanic`. `Accounted` adds the
  shapes that states of such applications have, each about at most one process, and
  that a kill timer is armed only while one is awaited. Without the shapes neither of
  the three can be shown to last: a claim could be about one process of two.
  In all modes, without any hypothesis, `HeldIsKept` and from it `HeldPidsStayOwn` and `RunningStaysAlive`: they speak of
  the time before a process dies unasked or comes up without a pidfile of its own (late, or not configured), and go one way only: what is held on to is the
  application's, while it may have processes that nobody holds. `Held` adds three things. The processes
  of an application have roles, so that the two of a stopping daemon are never one, and reaping one leaves
  the other pid good. A kill timer is there only while something is awaited, or after a stop that
  failed, so that none hits what has got to `Running`. And when a start command is over
  the pidfile names a living daemon, though it may be one that a forgotten start command left. Most of the proof is that an
  action about one application leaves everything that the others need as it was (`SameHeld`).
- `Streams_proofs`: `TypeCorrect`, and `EdgesAreKept`: `Attentive` for any number of pipes,
  lines, destinations and any capacity, under the one assumption that no line is broken
  (`"bad" \notin Faults`), with every other fault. `Attentive` needs three things beside it:
  that no buffer holds anything except that of the pipe which is being read (`Drained`, or else a
  pipe could have data that poll does not report), for which the inner loop has
  to leave pipes empty (`NothingLeft`, by `Clean`); and that a pipe is added once and known from
  then on (`Sorted`), so that registering does not meet an old event.
  `InOrderCorrect` is `InOrder`, with every fault and without assumptions. `InOrder` speaks of what
  has arrived; to last it needs what is still to come (`Numbered`): the numbers of the lines that have arrived are
  below those in the buffer and the pipe, these ascend and are at most that of the line begun last, and two pieces share a number
  only as the halves of one line.
- `StreamsRelay_proofs`: `RelayedCorrect`, the refinement of `Relay`, under `Calm`: no faults, no files (only the first line
  ever reaches one), and no more pipes than a poll returns events (128 in the code). The poll after Close is the last one, and that it brings all that is owed
  is `LastCall`. It rests on `Attentive`; on `Closing`: Close is the last message there will be, and a handler that has it knows every pipe; and on
  `Settled`: a hang-up is final, so a pipe that was removed has nothing left. Write maps to `Send`, the reading of a line to `Deliver`, the end of
  the last turn to `End`; polls, events and messages to stutters.

Only model-checked: everything about liveness (it needs fairness and ENABLED, which the
prover does not treat), `StartupEnds` included. Every invariant and every action property that a passing run checks is
proved, each under the hypotheses named above. That every process of an application is known and under a timer is neither
proved nor true with forking applications.

## 5. What is not modelled

- Of `stream.rs`: syslog addresses, facilities and formatting; descriptors; destinations that block.
  In `Supervisor` the calls of `add_stream` are left out: they send to
  another thread and change nothing that the main loop reads.
- Of `health.rs`: names of processes, addresses, paths; the text of messages. Whether a check is about an application
  that is starting or stopping: the checks know nothing of that, and neither does their model.
- Of `config.rs`: the parser (nereon, external), the syntax of a health check, the names of syslog facilities. Of a child: its
  directory. Commands are taken to have a first word (`args[0]`, `application.rs:285`).
- One composition of everything: `Supervisor` with `HealthChecks` and `Streams` inside would be out of TLC's
  reach, and they meet only where section 2 says. A restart after a failure is thus
  not fed back into what the checks find.
- `distro.rs`: dead code.
- Logging.

## 6. Plan

Done, in this order of importance: `Application` and `Supervisor`; `Dependencies` and
`DependencySetup`; `Lifecycle` and the refinement; the proofs of order, promise and, for
plain applications, accounting, and in all modes what is held on to; `Streams`, `Relay`, the proofs about readiness and order, and the refinement; `HealthChecks`, `Watchdog` and the
proofs about them; `Configuration`, `Startup` and its proofs.

What could follow:

1. `Supervisor`: which process a signal hits once a daemon has crashed or its pidfile is stale; when a forking
   application has no process that riffol has forgotten (commands can be spawned, no stop while
   starting); stop requests left without an event to wake `select`.
2. Proofs of the same.
