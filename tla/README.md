# CerynthOS in TLA+

CerynthOS schedules Linux tasks with a sched_ext scheduler, `cerynth-scx`, half
of which runs in the kernel as BPF callbacks and half in a user-space loop,
supervises it with a daemon, `cerynthd`, and watches it with telemetry and
an adaptation policy. This directory holds TLA+ models of these, the TLC configurations that
check them on small instances, and TLAPS proofs of their invariants for every
value of the constants.

| File | Contents |
|---|---|
| `RustlandDispatch.tla` | the scheduler's data path: BPF callbacks, ring buffers, user-space loop |
| `RustlandDispatchProofs.tla` | its inductive invariant, five more theorems about records and slots |
| `RustlandPlacesProofs.tla` | on top of it the invariant of places and wake-ups, three more theorems |
| `MCRustlandDispatch.tla`, `RustlandDispatch_*.cfg` | small instances for TLC |
| `ControlPlane.tla` | the daemon, the scheduler processes it starts, the two state files |
| `ControlPlaneProofs.tla` | its inductive invariant, the refinement of `SchedulerContract`, seven more theorems |
| `MCControlPlane.tla`, `ControlPlane_*.cfg` | small instances for TLC |
| `StatusPublisher.tla` | a scheduler process from inside: its reporter, the socket between them, the status file, signals and restarts |
| `StatusPublisherProofs.tla` | its inductive invariant, the refinement of `SchedulerContract`, three more theorems |
| `MCStatusPublisher.tla`, `StatusPublisher_*.cfg` | small instances for TLC |
| `SchedulerContract.tla` | what the daemon may conclude from a running record, abstractly: both `ControlPlane` and `StatusPublisher` implement it |
| `RequestEffects.tla` | what one request may do to the profile, shared by `RequestService` and `ControlPlane` |
| `AdaptivePolicy.tla` | the adaptation policy: rules, dwell, cooldown, live loop |
| `AdaptivePolicyProofs.tla` | its inductive invariant and four more theorems |
| `MCAdaptivePolicy.tla`, `AdaptivePolicy_policy.cfg` | a small instance for TLC |
| `RequestService.tla` | what the control socket promises its clients, abstractly |
| `RequestConnection.tla` | clients, connections and the daemon's tasks that keep the promise |
| `RequestConnectionProofs.tla` | its inductive invariant, the refinement, two more theorems |
| `MCRequestConnection.tla`, `RequestConnection_service.cfg` | a small instance for TLC |
| `Telemetry.tla` | the differences between two looks at `/proc` |
| `TelemetryProofs.tla` | its inductive invariant and four more theorems |
| `MCTelemetry.tla`, `Telemetry_intervals.cfg` | a small instance for TLC |
| `PROJECT.json` | components, runs, mutants, map to source lines, findings, hazards, theorems |

Run a configuration with `tlc -config <cfg> <MC module>`, the proofs with
`tlapm <module>.tla`.

## The system

| Component | State it keeps | Operations | Talks to |
|---|---|---|---|
| BPF data path (`main.bpf.c`, `dispatch.h`, `intf.h`) | per-task `enq_cnt` and times, `usersched_needed`, `nr_scheduled`, `nr_queued`, the dispatch queues | `select_cpu`, `enqueue`, `dispatch` (drain, dispatch_task), heart-beat timer, accounting callbacks | ring `queued` to user space, user ring `dispatched` back, the sched_ext core |
| User-space loop (`cerynth-scx/src/main.rs`, `bpf.rs`) | the batch just dequeued | `dequeue_task`, `order_tasks`, `dispatch_task`, `notify_complete` | the two rings; runs only when the BPF side schedules it |
| Idle CPU selection (`pick_idle_cpu`, `rs_select_cpu`) | kernel idle masks | choice of a close idle CPU | called by `select_cpu` and `enqueue` |
| Batch ordering (`policy.rs`, `profile.rs`) | none | sort by virtual time, rescue of starved tasks | called between dequeue and dispatch |
| Scheduler process (`main.rs`, `bpf.rs`, `initialization.rs`) | shutdown flag, attachment | init, attach, run, restart after CPU hotplug, stopped record | signals from cerynthd, sched_ext |
| Status reporter (`reporter.rs`, `status.rs`) | a child process and a datagram queue | publish, write `scheduler.json` through a temporary file | read by cerynthd |
| Scheduler supervision (`backends/scx.rs`) | child handle, pid, profile, adaptation switch | status, start (health gate), stop (SIGTERM, SIGKILL), restart, set_profile, pause, resume | processes, `scheduler.json`, `/sys/kernel/sched_ext/state` |
| Request handling (`server/*.rs`, `handlers.rs`, `main.rs`) | the backend mutex, the socket | accept, parse, handle, save, answer; boot; shutdown | cerynthctl, supervision, runtime state |
| Runtime state (`cerynth-config`) | `state.json` | load with defaults, save | request handling |
| IPC protocol (`cerynth-ipc`) | none | envelope, version test, encoding | cerynthctl and cerynthd |
| cerynthctl | none | one request per process | the socket |
| Adaptation policy (`cerynth-policy`) | accepted and pending profile, dwell count, cooldown | evaluate, stabilise, live loop | telemetry; shadow mode, applies nothing |
| Telemetry (`cerynth-telemetry`) | previous counters, first-seen times | collect | `/proc` |
| Tools, benchmarks, scripts, packaging, VM, kernel config | | | outside the running system |

### What is hard

- *Data path.* Callbacks run on every CPU at once. Between the moment a record
  of a task enters the `queued` ring and the moment `dispatch_task` handles the
  answer, the task can be dequeued, change affinity and be enqueued again; the
  counter `enq_cnt` and the core's own sequence number must filter what is out
  of date, and each moves at a different moment of an enqueue. The drain is
  exclusive and skipped silently when another CPU is in it. Inserts are
  buffered in a bounded batch. The scheduler that all tasks wait for is itself
  a task, scheduled only when a racy test says that there is work.
- *Control plane.* `stop` and `start` poll a process that may exit, hang or
  fail at any point, while the mutex keeps every other request waiting. The
  daemon may die between any two steps and leave a scheduler behind that keeps
  sched_ext enabled and the heartbeat file fresh. Settings are saved after the
  backend has changed, by truncating and rewriting a file.
- *Scheduler process.* Its status is written by a child that may hang, be
  killed in the middle of a write, or outlive its parent; all writers share one
  temporary file; the signal handler keeps the flag of the first of several
  incarnations of the scheduler; the order in which fields are dropped decides
  whether the kernel gets the CPUs back before or after a wait.
- *Adaptation policy.* Counters of consecutive candidates and of evaluations
  since the last change interact; rounds fail, the file the policy starts from
  is rewritten in place by the daemon, the process restarts.
- *Control socket.* Every connection is a task of its own, all of them wait for
  one mutex, a request is read with a single `read` whatever its line is cut
  into, clients have no timeout and may be interrupted after their request has
  been sent, and the daemon may end at each of these moments.
- *Telemetry.* A sample is put together from files read one after the other
  while the system moves; each replaces its previous value at once, so that a
  failure half way leaves values of different ages behind. Process numbers come
  back, and iowait counts backwards.

## `RustlandDispatch`: the data path

**State.** `st[t]` says where the core keeps a task: asleep, in one of three
kinds of enqueue, given to the BPF side (`queued`), in a dispatch queue
(`dsq`), running, gone. `qseq` is the core's enqueue sequence number, `enq_cnt`
the counter in `task_ctx`. `queued` and `dispatched` are the two rings with
their capacities, `batch` what `dispatch_tasks` holds, `needed` and
`nr_scheduled` the two variables the pending test reads. Each CPU has a program
counter through `ops.dispatch`, its running task, the core's dispatch buffer,
and the kicks it asked for.

**Actions.** `rustland_select_cpu` is `SelectDirect` and `SelectEnqueue`; an
enqueue is two steps, the core's (`EnqueueBegin`, called from the actions that
cause one) and the callback's (`Enqueue`), because `dispatch_task` on another
CPU may run in between. A change of affinity is what the core makes of it: a task
that sleeps or runs gets the new mask (`ChangeMask`); one that waits is taken out
and enqueued again with the new mask on the CPU it was on (`Requeue`); one that
may not stay there is then moved, with an enqueue of its own (`MoveWaiting`,
`MoveRunning`). Between the two enqueues the task is on a CPU outside its mask
(`Misplaced`), and this is where `rustland_enqueue` may ignore it: for a task
with one allowed CPU `pick_idle_cpu` returns the CPU it is on without a look at
the mask (`main.bpf.c:423-428`), the test at 829 fails, and the task stays with
the BPF side without a record and with its old counter (`IgnoreEnqueue`) until
it is moved, as the comment at 822-828 expects. The user-space loop is `DequeueTask`, `DequeueDone`,
`DispatchTask`, `NotifyComplete`, each guarded by `OnCPU`: the thread moves
only while it is on a CPU. `ops.dispatch` is `DispatchEntry`, then for each
record of the drain `LookupTask`, `TestAffinity`, `InsertVtime` and
`CheckGeneration` (the points between which other CPUs can act), `DrainEmpty` and
`ReleaseRing` (a drain that finds the ring empty keeps it busy for a moment),
`TestPending`, the flush of the
buffer by the core (`FinishDispatch`) and the choice of what runs
(`RunScheduler`, `RunTask`, `KeepPrev`, `DispatchAgain`, `GoIdle`).
`TimerFires` is `usersched_timer_fn`.

**The kernel.** The sched_ext core is not in the repository; its part is
modelled from what the callbacks rely on: buffered inserts carry the sequence
number read at insert time and are dropped at flush unless the task is still
given to the BPF side under that number; a flush waits for an enqueue in
progress; a task that is put back keeps its CPU's run queue locked until it has
been enqueued, so that CPU neither picks nor wakes another task meanwhile
(`Locked`); `scx_bpf_dsq_move_to_local` takes the first task the CPU may run;
`ops.dispatch` is called again while the last call buffered something;
`SCX_OPS_ENQ_LAST`; a kick reaches idle CPUs only; a task with one allowed CPU
is woken without `select_cpu`.

**Abstracted.** All virtual times are equal, so queues are FIFO: order is a
matter of fairness between tasks, not of the properties here. `batch` is sent in
any order, which covers every profile of `policy.rs`. `pick_idle_cpu` returns
any CPU the task may use, or the one a pinned task is on, idle or not by the time
it is used. A sleeping task that is put on a CPU outside its mask by
`ChangeMask` is woken on an allowed one unless its wake-up was queued to its
CPU. `queue_task_to_userspace` returns without any insert when the task has no
context (720-722): `init_task` creates it before the first enqueue, so this is
left out. Statistics,
congestion counters and debug output are left out. The record keeps pid, cpu
and generation; `RL_CPU_ANY` is never sent by `main.rs` (`DispatchedTask::new`
copies the record's cpu), so that branch of `dispatch_task` is left out. A pid
is not reused. `MaxEnq` bounds the enqueues of one task.

**Properties.**

- `FreshClaims`: no insert the core will honour comes from an outdated record,
  unless the insert itself overlapped the start of the new enqueue. That window
  is real: the sequence number is published before `ops.enqueue` increments
  `enq_cnt`, so in it both filters agree with the old record. The exception is
  in the property (the history field `overlap`) instead of the model hiding it.
  An enqueue that is ignored leaves the counter alone; the records before it stay
  current, and the property says nothing of them.
- `SlotsRespected`, `DrainUntilFull`: the return value of
  `handle_dispatched_task` stops the drain when the slots are used up, not
  later (the core would abort the scheduler) and not before.
- `NoTaskForgotten`: a task given to user space has a record of its current
  enqueue somewhere on the way, or an insert that counts, with two exceptions,
  both the code's: a reservation in the `dispatched` ring failed (`main.rs:118`
  counts it and drops the task); or the task is one that `ops.enqueue` may have
  ignored, pinned and on a CPU outside its mask (`MayBeIgnored`). The second one
  ends with `MoveWaiting`, which is possible for as long as the task is misplaced
  and fair, so that another enqueue does follow.
  Two filters that may throw a record away (the generation and the sequence
  number) agree on every current one; this is what the proof shows.
- `AffinityRespected`: the affinity test and the insert are two steps
  (`main.bpf.c:544`, `550`), and the task may get another mask between them or
  after the insert. No insert the core will honour puts it on the queue of a CPU
  it may not use, with two exceptions. One is that of `FreshClaims`: an insert
  made after the core began a new enqueue and before the callback counted it is
  honoured although the test saw the old mask. The other is a task that the core
  has still to move: an old record counts as long as an ignored enqueue has not
  moved the counter, and `dispatch_task` falls back to the CPU the task is on,
  which is not in its mask either; the move takes the task out of that queue.
- `NoStrandedWork`: no CPU sleeps beside a task in its own queue. Whoever
  inserts kicks, but the kick comes later than the insert, is dropped unless
  the CPU is idle, and the CPU may be about to go idle; the property says that
  one of the three always holds: the CPU is kicked, will be, or has not slept yet.
- `SchedulerRunsAgain`, `OutgoingDrains`, `QueuedRuns`: liveness, below.

## `ControlPlane`: the daemon and its schedulers

**State.** `op` is where the daemon stands in the request it handles (the
backend mutex is free only in `idle`), `req` and `result` the request and its
outcome so far, `child`, `prof`, `adapt` the fields of `ScxBackend`, `file` the
content of `state.json`, `proc` the scheduler processes, `hb` the process that
the record in `scheduler.json` names, if it says running and healthy and is
fresh (a stale one is as good as none to every reader). Two history variables
record what the last answer left (`acked`) and how the last save went (`saved`:
whole, failed, or cut by the death of the daemon).

**Actions.** One per handler, cut at each point where the world can move:
`Stop`, `Collect` (the poll, and the wait after SIGKILL), `StopDeadline`;
`Start`, `Spawn`, `Gate` (reap, `kill(0)`, sched_ext state), `Heartbeat` (the
other half of the health test), `GateDeadline`; `SaveTruncates`, `SaveWrites`,
`Reply`. Either half of the save may fail as in `RuntimeState::save`: the
directory cannot be made or the file not opened (nothing changes), or the write
fails after the truncation (the file is unreadable); the client is told the
outcome of its request all the same. `Reap` is part of every handler that calls `reap_child`, `Finish`
sends each outcome, success or error, to the save, as `handle_connection` does.
`Boot` loads the file and optionally auto-starts; `Die` is a crash, SIGTERM or
Ctrl-C at any step and orphans the child. Processes install their handler,
attach when nobody else is attached, publish, leave, fail, restart after a
hotplug event, exit with a stopped record, or are killed without one.

**Abstracted.** `get_profile`, `Ping` and `Shutdown` do what `Status` does as
far as the state goes (the save calls `status` after each of them). Errors of
`kill`, `try_wait` and `wait` other than `ESRCH` (`scx.rs:302-312`, `330-335`,
`338-354`) are left out: the child is the daemon's own and not reaped, so the
system calls have no reason to fail. A read error of an intact `state.json` at
boot is left out too. SIGKILL ends a process at some later point
(`KillDelivered`), and `stop` waits for it. A pid is not
reused while a heartbeat of its former owner is fresh or its reporter is still
there; the reporter may publish once more after its process is gone, and a
process may end without its stopped record (`hb'` in `Exit` is either).
`HeartbeatExpires` also stands for a status file that was spoilt by two writers
and parses no more. Whether a scheduler
reacts to SIGTERM is left open: `LeaveLoop` may happen at any time or never.
Under systemd the scheduler dies with the daemon's control group; orphans exist
when the daemon is started by hand, which the code supports (`listener.rs:21`).

**Properties.**

- `AckedStartWasAttached`: the health gate of `start` reads two files that any
  scheduler on the machine may have written; a start is acknowledged only if
  the very process it spawned has attached. (That it is attached still is not
  promised: the state and the heartbeat are read one after the other.)
- `NoUntrackedChild`, `NothingLeftBehind`: no process of the running daemon is
  lost, in particular not on the paths through a failed start and an ignored
  SIGTERM.
- `ProfileInForce`: the running scheduler has the profile that `status`
  reports, also when `set_profile` fails half way.
- `SettingsSurvive`: a new daemon has the settings the last answered request
  left, wherever the old one died, unless the last save failed or the daemon died
  inside it. Earlier failures do not count: the next request, whatever it asks,
  saves what they left unsaved.
- `OutcomeAsPromised`: whatever steps a request has gone through when its
  outcome is sent to the save, profile and answer are one of the pairs that
  `RequestEffects` allows for the profile it found. `RequestConnection` takes
  the whole handler for one such step and `RequestService` promises it to
  clients; here the handler is cut at every wait, with processes that hang, die
  or attach in between.
- `ImplementsContract`: the refinement of `SchedulerContract`, below.
- `RequestAnswered`: liveness, below.

## `StatusPublisher`: the scheduler process and its status file

**State.** Per process: `phase` is where `main()` is, `handler` says whose
shutdown flag the signal handler sets (nobody's yet, the current
`BpfScheduler`'s, or that of an earlier one), `heard` that it has been set,
`exit` the kernel's exit info, `beat` the heartbeat of the last snapshot. The
`Reporter` is `queue` (the datagram socket), `reporter` (the child), `sig` (a
deadly signal is pending) and `latest` (the snapshot it publishes). Each of the
two possible writers of a process has a next file operation in `step` and an
open file in `fd`; `tmpFile` and `statusFile` are the contents behind the two
paths. `overlap` is history: a scheduler was launched while another one, or its
reporter, was still there.

**Actions.** `SchedulerStatus::write` is one action per system call,
`CreateTmp` (which truncates), `WriteRecord` (which may by then reach a file
that has been renamed or replaced), `RenameTmp`; `FileFails` is the early
return of each, for whatever error. `Scheduler::init` is `StartReporter`, `Attach`
or `InitFails`; the first `write_stats` and the run loop are `WriteStats` and
`LeaveLoop` (a loop that is left before the first snapshot looks like one whose
first snapshot the socket dropped); `Drop for Reporter` is the kill in
`KillReporter` and the wait in `AfterDrop`, so that the signal and the end of
the child are two events; `WriteStopped` is the end of `main()`. The child is
`Arm` (the parent-death signal), `TestParent`, `Drain` (all frames, the last
one counts), `Publish`, `ReporterFails`, `ReporterEnds`. A reporter inside a
system call finishes it before it dies.

**Abstracted.** A record is its kind, pid and heartbeat; profile and health
play no part in who writes when. `scheduler-stats.json`, written after the
status by the same code to a path of its own, is left out. A record written
over another one of unknown length may be mixed with it. A record is shorter than
a page, so a `write_all` that fails has written nothing, and a `sync_all` that
fails leaves what a failing rename leaves. A pid is used once,
the clock of heartbeats stops at `MaxBeats`. The kernel's part (file
descriptors, signals, one attached scheduler at a time) is external.

**Properties.**

- `RecordsMoveForward`: a record of a process is never replaced by an older one
  of the same process; in particular "running" never follows "stopped". This is
  what the kill *and wait* in `Reporter::drop` are for, and it holds for any
  number of rival schedulers although they share the temporary file: the proof
  shows that a file that was renamed away under a writer cannot hurt its own
  process's record.
- `FileWhole`: readers see whole records as long as no scheduler was launched
  beside another one. Without that exception it fails (`status_shared`).
- `StopDetaches`: a signalled scheduler hands the CPUs back even if its
  reporter never comes back from the file system ("field order matters",
  `main.rs:56`).
- `NoOrphans`: no reporter outlives its scheduler, whenever the scheduler dies,
  also before the parent-death signal was asked for.
- `ImplementsContract`: the refinement of `SchedulerContract`.

## `SchedulerContract`: what the daemon may conclude from a record

`ControlPlane` and `StatusPublisher` describe the same processes, one from the
daemon's side with a single file and one step per record, the other from the
inside with reporters, sockets and temporary files. `SchedulerContract` is what
the two have in common: `untried`, the processes that have been launched and
have never attached; `holders`, who is attached, at most one at a time; and
`record`, whom a running record names. A record never names an untried process
(`Truthful`); it may outlive its process, name one that has detached, or be
replaced by an older one of another process. This is exactly what the start gate
rests on: `AckedStartWasAttached` needs that a fresh record with the new child's
pid was written after that child attached. In `StatusPublisher` this is a matter
of order inside `Scheduler::init` and `run`: the reporter is created before the
attachment, but has nothing to publish until the run loop sends to it. A
reporter that sends a first record when it is created breaks the property
(`StartReporterEager`), and so does, in `ControlPlane`, a process that publishes
before it has attached (`PublishEarly`).

Both models are shown to stay within the contract. The converse, that
everything `StatusPublisher` can do to the record can happen in `ControlPlane`,
is not stated formally; `ControlPlane` is written so that it does
(`Publish` of a reporter left behind, `Exit` without a record,
`HeartbeatExpires` for a spoilt file).

## `AdaptivePolicy`: the adaptation policy

**State.** `accepted`, `pending`, `count` and `cooldown` are the fields of
`RulesBasedPolicy`; `decision` is the output of the round that is not written
yet, `published` the profile in `policy.json`; `daemon` and `torn` say what the
daemon has in `state.json` and whether its rewrite is unfinished. History
variables record the row of samples behind
a change (`run`), the evaluations since the last one (`since`), and the
profiles a recommendation may be explained by (`earned`).

**Actions.** `Evaluate` is one round of the live loop: read the current
profile, apply the rules (`Candidate`), stabilise (`Agree`, `HoldForCooldown`,
`HoldForDwell`, `Accept`), write. `EvaluateInvalid` is the early return for a
sample that is not finite, `CollectFails` a round without a sample;
`WritePolicy` may fail and leave `policy.json` alone, `Restart` loses the state
in memory.
`SaveTruncates` and `SaveWrites` are the daemon's rewriting of `state.json`.

**Abstracted.** Samples are taken at both sides of each threshold of the rules,
in per mille instead of floating point. Confidence and explanations are left
out: they do not influence the profile.

**Properties.** `SupportedChange`: a change follows `min_dwell_samples` valid
samples in a row that asked for it. `SpacedChanges`: two changes are a full
cooldown and a full dwell apart. `PublishedIsEarned`: `policy.json` never keeps
a recommendation that nothing supported, through failures and restarts.
`SteadyWorkloadFollowed` (liveness): a workload that keeps asking for a profile
gets it, in whatever state the counters were.

## `RequestService` and `RequestConnection`: the control socket

**The promise.** `RequestService` is the abstract service: one durable profile
(`value`), and for each client a `request`, the `effect` it has had and the
`outcome` the client knows. A request takes effect at most once, at one instant
(`TakeEffect`), between `Call` and `Forget`; the answer is the one computed at
that instant. A client that fails learns nothing: its request may have taken
effect, may do so later, or never will. `set-profile` may answer with an error
and have changed the profile all the same, because the code stores the profile
before it starts the scheduler (`scx.rs:218`). After a failed write of
`state.json` the promise is void (`faulty`): the code only warns.

**State.** On the daemon's side `up`, the backend mutex (`holder`), the profile
in the backend (`memory`) and in `state.json` (`disk`), and for each connection
where its `task` stands and its `answer`. On the other side `client`, the
segments it has still to write (`unsent`), those on the way (`inbox`) and the
answer on its way back (`received`). `degraded` (a save failed or was cut off)
and `cut` (the daemon was not there all the time) are history.

**Actions.** `send_request` is `Connect`, `WriteRequest`, `ReadAnswer`;
`Interrupt` may end the process at any point. `start_server` is `Boot`,
`Accept`, `AcceptFails` (the `?` after `accept` ends the daemon).
`handle_connection` is `ReadRequest` (one `read`, the parse, the version test,
each of which may close the connection), `Lock`, `HandleRequest`, `SaveState`
(which releases the mutex), `WriteResponse`. `Die` ends the daemon at any point,
also inside `fs::write`. The configuration chooses the backend at `Boot`; a file
that is missing or broken means the mock.

**Refinement.** `value <- Load` (the profile a daemon that starts now would
have), `faulty <- degraded`, `effect` is the answer unless it is not saved yet,
`outcome` the client's state. So a request takes effect when its save ends, and
`ImplementsService` says that nobody is ever told anything a crash can undo.

**Abstracted.** `start` and `stop` stand for all requests that leave the profile
alone, with success or error; the inside of the handler is `ControlPlane`. The
adaptation switch is saved with the profile and left to `ControlPlane`.
Correlation ids are echoed and read by nobody; the size of the read buffer is
never reached by a request of the protocol. `Config`'s `default_profile` and
`adaptation_enabled` are read by nobody. One daemon at a time, as systemd runs
it: a second one would take the socket path over (`listener.rs:28`). The
listener's shutdown handling ends the accept loop at some point or not at all,
which `Die` includes.

**Properties.**

- `ImplementsService`: the refinement. It breaks when the mutex is released
  between handler and save, or when what is loaded is not what was saved.
- `FailuresExplained`: `cerynthctl` fails only when the daemon was not there all
  the time, the version is not supported, or the line did not arrive in one
  piece; never because of what other clients do.
- `Answered`: a client that has sent its request stops waiting, although
  `cerynthctl` has no timeout (`timeout.rs` is used by nobody), with clients
  beside it that connect and never write.

## `Telemetry`: differences between samples

**State.** The system: a clock, the processor times of one CPU, the context
switches, the processes and their ticks. The source: the previous value of each
(`prevAt`, `prevCpu`, `prevCtxt`, `prevProc`), `firstSeen`, and inside a
collection its `phase`, its time `start`, the `snapshot` so far and what
`top_processes` has `seen`. History: `begun` and `mark`, the system when this
collection and when the last successful one began; `lag`, the last list of
`top_processes` failed; `known`, since when a process has been in every list.

**Actions.** The system moves in `Run`, `Rest`, `Recount` (iowait may decrease),
`Switch`, `Fork` (perhaps with the number of a dead process) and `Exit`, between
any two reads. `collect` is `Begin`, `ReadStat`, `ReadMemory`, one `ReadProcess`
for each `/proc/<pid>/stat` that can be read, `TopProcesses`, `Finish`;
`ReadFails` is the early return of the first two files. A list of `/proc` that
fails is no error in the code: `top_processes` returns early, and `Finish` goes
on with an empty list, or with one that lacks the entries it could not read.

**Abstracted.** A rate is kept as the difference that is divided. Rates and shares
are divided by the time since the last successful collection, the CPU usage by
the difference of all processor times (`lib.rs:95-101`); `user` stands
for every processor time that is neither idle nor iowait. Values that are copied
(load, memory, profile, scheduler state) are left out, and the order by which
the five largest processes are chosen. The process creation counter goes the way
of the context switches.

**Properties.**

- `RatesInInterval`: the time that a rate divides by reaches back at least as
  far as what is counted, whichever collections failed in between. The counters
  are replaced early and the time at the end, so a failure makes a rate too low,
  never too high. The property bounds the older end only: what happens after the
  clock was read and before the counter was is counted one sample early, in the
  code as in the model.
- `SharesInInterval`: the same for each process's share, dead and reused numbers
  and unreadable entries included. The exception is in the property: after a list
  that failed as a whole the next share covers two intervals (`lag`).
- `YoungWhenCounted`: a process that every list has shown for the threshold is
  never counted as short-lived, whoever had its number before, and not by a list
  that fails or misses it either. A process that a list has missed counts as new
  from then on, in the code (`lib.rs:340-356`) and in the property. Two things
  the code does are not denied: a young process that a list misses is counted
  although it lives, and one with a reused number may go uncounted.

## Runs

| Run | Instance | Checks |
|---|---|---|
| `dispatch_races` | 1 task, 2 CPUs, affinity `{c1}` or `{c1,c2}`, 2 enqueues and the moves, 1 slot; 1.2 million states | `TypeOK`, `FreshClaims`, `NoTaskForgotten`, `AffinityRespected`, `NoStrandedWork`, `SlotsRespected`, `DrainUntilFull` |
| `dispatch_contention` | 2 tasks pinned to one of 2 CPUs, 1 enqueue each, none exits, 1 slot, a queued ring of 1, fairness; 170 thousand states | `SlotsRespected`, `QueuedRuns`, `OutgoingDrains`, `SchedulerRunsAgain` |
| `held_batch` | the same with 2 slots and a dispatched ring of 3 | finding, below |
| `control_supervision` | 2 pids, 2 profiles, fairness; 350 thousand states | all properties of `ControlPlane` |
| `control_torn` | as `control_supervision` | finding, below |
| `status_lifecycle` | 1 scheduler, a socket of 2, heartbeats 0 to 2, fairness; 31 thousand states | `TypeOK`, `RecordsMoveForward`, `StopDetaches`, `NoOrphans` |
| `status_concurrent` | 2 schedulers, a socket of 1, one heartbeat; 1.8 million states | `FileWhole`, `ImplementsContract` |
| `status_shared` | 2 schedulers, 2 heartbeats | finding, below |
| `sigterm_lost` | 1 scheduler, 2 heartbeats, fairness | finding, below |
| `policy_stability` | the shipped dwell of 3 and cooldown of 5, fairness | all properties of `AdaptivePolicy` |
| `request_service` | 2 clients, 2 profiles; a `ping` in two segments, a `set-profile`, a `start`, a `stop` of version 3; fairness | the refinement `ImplementsService`, `FailuresExplained`, `Answered`, `TypeOK` |
| `telemetry_intervals` | 1 process number, 4 ticks, a threshold of 2; 9.4 million states | `RatesInInterval`, `SharesInInterval`, `YoungWhenCounted`, `TypeOK` |

The inductive invariants are TLC's first, the prover's afterwards: `IInv` of each
module, and `PlaceInv` and `ContractInv`, are invariants of the same instances
and can be added to the `INVARIANTS` of the cfg. No run lists them: they repeat
the properties with the bookkeeping of the proof, and the proof is where they
belong.

**Why the bounds are enough.** Staleness needs one task with two enqueues (an
old and a new one) and two CPUs (one in the drain, one that runs the task or
the scheduler); a second affinity mask gives the two enqueues of a change of
affinity, and one CPU alone in a mask the ignored one. The second enqueue of a
move is not counted by `MaxEnq`: each needs a change of mask before it, which is.
Capacity needs more records than slots and than ring entries: in
`dispatch_contention` two tasks compete for one slot and for a queued ring of one
record that overflows into the shared queue; in `dispatch_races` an outdated and
a current record do, with cancelled inserts. `dispatch_contention` is a bounded
load: every task is enqueued once, and none exits (`MCLastingSpec`, since an exit
and a sleep look alike to what follows). It has no kernel thread: the branch that
keeps these in the kernel (`KeptInKernel`) is exercised by no passing run and
covered by the proofs only. In
the control plane two pids allow a left-over scheduler beside the new one; two
profiles tell a stale one from the current one. In the status publisher one
process has up to two writers and, with restarts, any number of reporters;
three heartbeats tell an older, the present and a newer snapshot apart; two
processes are enough for one to disturb another, and the order of heartbeats
plays no part in that. Two clients are enough for one to hold the mutex and one
to wait, and for the effect of one to come between the other's request and its
answer; a line in two segments is the shortest one that can be cut. In
`telemetry_intervals` four ticks (`MaxTime`) allow an interval with and one
without work and a process younger or older than the threshold, which is 2
instead of 5 seconds; iowait (`MaxWait`) and the context switches
(`MaxSwitches`) move once. One process number is enough, since the map entries of
two never meet; it is reused without bound. The proofs then remove the bounds for the safety
properties.

**Deadlock** is not checked in the runs of `StatusPublisher`: when every
process has ended there is nothing left to do.

**Fairness.** `RustlandDispatch`: callbacks run to completion (weak fairness of
`Enqueue` and of each CPU's dispatch steps), slices are finite
(`SliceEnds \/ Block`), and user space gets on a step whenever it is put on a
CPU again and again (strong fairness of `UserStep`: the thread may be preempted
between any two steps, but a slice is longer than a step). Nothing is assumed
of wake-ups. `FairSpec` says nothing of the timer either: `SchedulerRunsAgain`
and `QueuedRuns` state their own premise, that it goes on re-arming itself
(`TimerRuns`), and `OutgoingDrains` cannot rest on it. The premise of
`OutgoingDrains` is that no record arrives between the moment a drain finds the
ring empty and the moment it releases the ring: such a record is left to the next
`ops.dispatch` of any CPU, which may be the timer's. `ControlPlane`: the daemon's own code runs on, and the
two deadline loops come back to their test: `StopDeadline` is continuously
possible, `GateDeadline` only in every other step of its loop, hence strong
fairness. Of schedulers nothing is assumed but that SIGKILL ends them
(`KillDelivered`): they may hang. `StatusPublisher`:
the main process runs (`WF(MainStep)`); of the reporter nothing is assumed in
`StopDetaches`, because it may hang, while `NoOrphans` and `SigtermStops` say
themselves that it does not (`ReporterRuns`, which leaves out the error that
would end it anyway). `AdaptivePolicy`: the loop writes what it has decided, and
collecting a sample does not fail for ever (strong fairness of `Evaluate`: any
round may fail, not all of them). `RequestConnection`: the daemon's loop
and tasks run (weak fairness of `Accept` and `TaskStep`), tokio's mutex is a
queue, so a task that waits for it gets it although others come and go (strong
fairness of `Lock`), and a client reads what arrives (`ReadAnswer`). Nothing is
assumed of clients that have still to write. `Telemetry` has no liveness.

## Findings

- `held_batch`: `notify_complete(0)` is the only write of `nr_scheduled`, so a
  scheduler preempted with a batch in hand is "not pending", contrary to the
  comment at `main.bpf.c:298-316`. The timer brings it back.
- `control_torn`: `state.json` is rewritten in place at every request; a daemon
  that dies inside the write loses the settings, which `connection.rs:46-47`
  and `state.rs:9-10` say survive.
- `status_shared`: two schedulers share `scheduler.json.tmp`; a refused second
  scheduler that writes its stopped record, or a left-over reporter, makes the
  other publish an empty or mixed file, although the scheduler's
  `README.md:31-32` says readers never see a partial write.
- `sigterm_lost`: after a hotplug restart the signal handler sets a flag nobody
  reads (`bpf.rs:205`); `README.md:56-57` promises a clean shutdown. Under
  `cerynthd` the process is killed after five seconds, without a stopped record.

Four more disagreements are visible in the models without a run of their own:
`SCHED_DSQ` is consumed first (`main.bpf.c:880`) where the comment at 54-56
says last; the affinity test of `dispatch_task` (line 544) and the insert (550)
are not atomic, so a task can land on the queue of a CPU it may not use although
lines 540-542 exclude it, in the windows that `AffinityRespected` excepts; a policy whose first evaluation meets a half-written
`state.json` starts from Balanced (`cerynth-policy-live.rs:63`) where the
comment at `lib.rs:183-184` names the reported profile; and a young process that
the second list misses counts as short-lived although it lives, where the comment
at `cerynth-telemetry/src/lib.rs:323-324` says that only a process that
disappears does.

## Proofs

Proved for every value of the constants that satisfies the module's assumption
(`DispatchAssumption`, `ControlAssumption`, `PublisherAssumption`,
`PolicyAssumption`, `RequestAssumption`, `TelemetryAssumption`): see the list in `PROJECT.json`. Each module has one
inductive invariant `IInv`; `PlaceInv` and `ContractInv` are inductive relative
to it.

*Data path.* `FreshClaims` is not inductive: it needs that no record is ahead of
the counter it was copied from (`RecordInv`), that the same holds of buffered
inserts and that one which carries the sequence number of an enqueue still in
progress was made during it (`EntryInv`), and that the insert about to be
tested is the newest of its buffer and belongs to the record at the head of the
ring (`DrainInv`: only the CPU that holds the drain handles records). With
these, an insert that passes the test has the generation of the counter, and
any later enqueue invalidates its sequence number first. `SlotsRespected` is
part of the induction because a drain continues only with a free slot.
`DrainUntilFull` is an action property and follows from `IInv` step by step.
`NoTaskForgotten` follows from `HeldInv`, which asks for a record or an insert
of the current generation wherever it is, and `CurrentInv`, by which such an
insert also has the sequence number the core compares. Both except the tasks that
`ops.enqueue` may have ignored (`MayBeIgnored`): an ignored enqueue has a new
sequence number and the old counter, and only such a task is left in that state,
because every other branch of `rustland_enqueue` writes a record or inserts the
task, and the move that ends it is an enqueue on an allowed CPU. `EmptyInv` is needed
because the core's buffer is cleared when a CPU enters `ops.dispatch`: nothing
may be left in it from the last time.

*Places and wake-ups* (`RustlandPlacesProofs`). `PlaceInv` says that a task
waits in one queue at most and only while the core has it there (`WaitsOnce`),
and is the running task of one CPU at most (`RunsOnce`); `OnePlacePerTask`
puts the two together. `AffinityRespected` follows from `TargetInv`: the CPU chosen by the
affinity test, and that of each buffered insert, is allowed for as long as the
record is of the current enqueue and the task is on a CPU it may use (`Settled`).
The mask of a waiting task changes only together with an enqueue; that enqueue
either outdates the record or is ignored, and one that is ignored leaves the task
misplaced until the next. `NoStrandedWork` needs `KickInv`:
each insert that has passed its test has left its CPU in `kicks`, so that the
moment the flush makes it visible, a kick is still to come. A woken task is
never put on a queue without a kick, and the CPU that puts a task
back is locked and therefore not asleep.

*Control plane.* `NoUntrackedChild` and `ProfileInForce` need `ChildInv` (the
tracked child exists and is this daemon's; a spawn replaces none) and
`RequestInv`. `NothingLeftBehind` follows from `EndedInv` and
`NoUntrackedChild`. `AckedStartWasAttached` follows from `RecordInv`: a fresh
record of a live process was written by that process after it attached.
`SettingsSurvive` follows from `RecoveryInv`: outside the save the file holds
what the last answer left, if the last save was whole. `OutcomeAsPromised` follows from
`OutcomeInv`, which follows the profile and the answer through the steps of a handler;
the error of `set-profile` after the profile was stored is the case
that makes it more than bookkeeping.
`ContractKept` maps each step to a step of `SchedulerContract` or a stutter.

*Status publisher.* `WriterInv` says who may write: `main()` once its reporter
is reaped, the reporter while it publishes. `SnapshotInv` orders heartbeats
from the scheduler through the socket to the reporter. `RecordInv` ties both
files to what their process has published, and `OrderInv` says that the
temporary file is never behind the published one, for any number of writers;
`RecordsMoveForward` is one step from there. `AloneInv` is for one scheduler at
a time: its writer finds the temporary file empty when it writes and its own
record when it renames, from which `FileWhole` follows. `ContractKept` is the
refinement of `SchedulerContract`: `PhaseInv` and `ServedInv` say that nothing
is sent, waiting, drained or written in the name of a process before its first
attachment, wherever its reporter stands; a rename then publishes nobody who
is untried.

*Adaptation policy.* The induction relates the pending count to the row of
samples it counts and the cooldown to the evaluations since the last change.

*Control socket.* `ImplementsService` is proved as a refinement: the initial
states map to initial states and every step to a step of `RequestService` or a
stutter, under `IInv`. `LockInv` says that handler and save exclude each other,
`DurableInv` that outside them backend and file agree, and between the two that
the pair of answer and new profile is one the abstract service allows for the
profile in the file. `AnswerInv` follows the answer of each connection.
`RefusalInv` says who may find itself without a connection and an answer;
`FailuresExplained` is one step from there.

*Telemetry.* `PreviousInv` orders the previous values between the last
successful collection and the present, `SeenInv` the times of first sight
between the truth and the last sample.

Only model-checked: the liveness properties. Liveness under fairness and
`ENABLED` are beyond the prover, and so is induction over data. No module
declares a RECURSIVE operator.

## Not modelled

- *Idle CPU selection.* `pick_idle_cpu` and the topology code behind it choose
  the closest idle CPU, a heuristic without a stated contract; the data path lets
  the choice be any CPU the task may use, or the one a pinned task is on. `rs_select_cpu` is never called.
- *Accounting callbacks* (`runnable`, `running`, `stopping`, `set_weight`, ...)
  maintain the times in `task_ctx` that only the order of dispatch depends on; the
  data path is checked for every order.
- *The order within a batch* (`policy.rs`): a pure stable sort of at most
  `MAX_BATCH` tasks, none of which it drops or adds. `RustlandDispatch` sends a batch in any order,
  so nothing shown here depends on the profile, and nothing is shown about who
  comes first.
- *Initialization of the BPF side* (`initialization.rs`, memory locking, the
  allocator): one outcome in `StatusPublisher` (`InitFails`).
- *Reuse of a pid while a record of the dead task is on its way*: the generation
  then starts again from zero. It takes a wrap-around of the pid space within one
  round of the user-space loop.
- *Policy replay and report* work off line on recorded samples and format them.
- *Benchmarks, scripts, packaging, VM images, kernel configuration*: outside the
  running system.
