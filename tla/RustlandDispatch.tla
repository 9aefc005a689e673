-------------------------- MODULE RustlandDispatch --------------------------
(***************************************************************************)
(* The data path of cerynth-scx: the BPF callbacks of main.bpf.c running   *)
(* on every CPU, the two ring buffers, and the single-threaded user-space  *)
(* loop of main.rs / bpf.rs that orders tasks between them.                *)
(*                                                                         *)
(* A CPU runs ops.dispatch as a sequence of small steps (affinity test,    *)
(* buffered insert, generation check, flush, pick), because the kernel     *)
(* lets other CPUs dequeue and re-enqueue the task in between.  An enqueue *)
(* is two steps for the same reason: the core publishes a new sequence     *)
(* number before ops.enqueue bumps the BPF generation counter.  A change   *)
(* of affinity is up to two enqueues: the core puts the task back on the   *)
(* CPU it was on, then moves it if it may not stay there.                  *)
(***************************************************************************)
EXTENDS Naturals, FiniteSets, Sequences, SequencesExt

CONSTANTS
  Tasks,          \* pids other than the user-space scheduler
  KThreads,       \* the kernel threads among them
  Reclaimers,     \* kswapd, kcompactd and khugepaged
  CPUs,
  Masks,          \* affinity masks a task may have
  Sched,          \* the pid of the user-space scheduler (usersched_pid)
  Idle,           \* a CPU's idle task
  Nobody,         \* no CPU is draining the user ring
  Shared,         \* SHARED_DSQ
  QueuedCap,      \* records the queued ring holds (MAX_ENQUEUED_TASKS)
  DispatchedCap,  \* records the dispatched ring holds (MAX_ENQUEUED_TASKS)
  Slots,          \* ops.dispatch_max_batch (MAX_DISPATCH_SLOT)
  MaxBatch,       \* MAX_BATCH of main.rs
  MaxEnq          \* bound: enqueues of one task that the model explores

ASSUME DispatchAssumption ==
  /\ KThreads \subseteq Tasks
  /\ Reclaimers \subseteq Tasks
  /\ Masks \subseteq SUBSET CPUs
  /\ {} \notin Masks
  /\ Sched \notin Tasks
  /\ Idle \notin Tasks \union {Sched}
  /\ Shared \notin CPUs
  /\ Nobody \notin CPUs
  /\ QueuedCap \in Nat \ {0}
  /\ DispatchedCap \in Nat \ {0}
  /\ Slots \in Nat \ {0}
  /\ MaxBatch \in Nat \ {0}
  /\ MaxEnq \in Nat

VARIABLES
  st,              \* where the core keeps a task (see States)
  qseq,            \* the core's enqueue sequence number of a task
  enq_cnt,         \* task_ctx.enq_cnt
  tcpu,            \* scx_bpf_task_cpu
  allowed,         \* p->cpus_ptr
  queued,          \* BPF ring: records for user space
  dispatched,      \* user ring: records for the BPF side
  batch,           \* tasks dequeued but not yet dispatched by main.rs
  us,              \* where dispatch_tasks of main.rs stands
  nr_scheduled,    \* pending count user space reports
  dispatch_errors, \* a reservation in the dispatched ring failed
  needed,          \* usersched_needed
  drainer,         \* CPU inside bpf_user_ringbuf_drain
  pc, curr,        \* per CPU: step of ops.dispatch, and running task
  tgt,             \* per CPU: target chosen by the affinity test
  buf,             \* per CPU: the core's dispatch buffer
  pend, again,     \* per CPU: pending test result; buffer was not empty
  kicks, kicked,   \* per CPU: kicks not sent yet; reschedule requested
  dsq              \* per-CPU and shared dispatch queues

taskVars  == <<st, qseq, enq_cnt, tcpu, allowed>>
ringVars  == <<queued, dispatched>>
userVars  == <<batch, us, nr_scheduled, dispatch_errors>>
cpuVars   == <<pc, curr, tgt, buf, pend, again, kicks>>
vars == <<st, qseq, enq_cnt, tcpu, allowed, queued, dispatched, batch,
          us, nr_scheduled, dispatch_errors, needed, drainer, pc, curr, tgt,
          buf, pend, again, kicks, kicked, dsq>>

\* An enqueue in progress, by its cause: a wake-up whose CPU ops.select_cpu
\* chose, any other enqueue of a task that is not running (is_queued_wakeup), a
\* preemption.
Enqueueing == {"selected", "wakeup", "preempted"}
States == Enqueueing \union {"sleeping", "queued", "dsq", "running", "gone"}
Steps  == {"run", "drain", "test", "insert", "check", "empty", "pending", "flush"}
Queues == CPUs \union {Shared}

\* struct queued_task_ctx / dispatched_task_ctx, reduced to what dispatch reads.
Record == [pid : Tasks, cpu : CPUs, enq_cnt : Nat]

\* An entry of the core's dispatch buffer.  The last two fields are history:
\* the generation of the record that made it, and whether the insert read the
\* sequence number while an enqueue of the same task was in progress.
Entry == [pid : Tasks, cpu : CPUs, qseq : Nat, enq_cnt : Nat, overlap : BOOLEAN]

TaskTypes ==
  /\ st \in [Tasks -> States]
  /\ qseq \in [Tasks -> Nat]
  /\ enq_cnt \in [Tasks -> Nat]
  /\ tcpu \in [Tasks \union {Sched} -> CPUs]
  /\ allowed \in [Tasks -> Masks]

RingTypes ==
  /\ queued \in Seq(Record)
  /\ dispatched \in Seq(Record)

UserTypes ==
  /\ batch \in SUBSET Record
  /\ us \in {"dequeue", "send"}
  /\ nr_scheduled \in Nat
  /\ dispatch_errors \in BOOLEAN

CPUTypes ==
  /\ drainer \in CPUs \union {Nobody}
  /\ pc \in [CPUs -> Steps]
  /\ curr \in [CPUs -> Tasks \union {Sched, Idle}]
  /\ tgt \in [CPUs -> CPUs]
  /\ buf \in [CPUs -> Seq(Entry)]
  /\ kicks \in [CPUs -> SUBSET CPUs]

FlagTypes ==
  /\ needed \in BOOLEAN
  /\ pend \in [CPUs -> BOOLEAN]
  /\ again \in [CPUs -> BOOLEAN]
  /\ kicked \in [CPUs -> BOOLEAN]

QueueTypes == dsq \in [Queues -> Seq(Tasks)]

TypeOK ==
  TaskTypes /\ RingTypes /\ UserTypes /\ CPUTypes /\ FlagTypes /\ QueueTypes

(***************************************************************************)
(* Helpers.                                                                *)
(***************************************************************************)
\* The scheduler thread never blocks: off every CPU it waits in SCHED_DSQ.
Parked == \A c \in CPUs : curr[c] # Sched

\* Seeded fault: the flag raised by the timer is not tested.
HasPendingNoFlag == nr_scheduled > 0 \/ queued # <<>>

\* usersched_has_pending_tasks: the flag, the reported count, the queued ring.
HasPending == needed \/ nr_scheduled > 0 \/ queued # <<>>

\* SCX_KICK_IDLE acts on a CPU that runs its idle task or is in ops.dispatch.
CanKick(k) == curr[k] = Idle \/ pc[k] # "run"
Kick(ks)   == kicked' = [k \in CPUs |-> kicked[k] \/ (k \in ks /\ CanKick(k))]

Pinned(t) == Cardinality(allowed[t]) = 1

\* The task is on a CPU it may no longer use: the core will move it.
Misplaced(t) == tcpu[t] \notin allowed[t]

\* pick_idle_cpu: a CPU the task may use, except that the one of a pinned task is
\* taken to be the CPU it is on.  It was idle when it was picked, but the pick may
\* be out of date when it is used.
PickIdle(t) == IF Pinned(t) THEN {tcpu[t]} ELSE allowed[t]

\* The kernel threads that go to the queue of their CPU, past user space.
KeptInKernel(t) == t \in Reclaimers \/ (t \in KThreads /\ Pinned(t))

CanDirectDispatch(c) == dsq[Shared] = <<>> /\ dsq[c] = <<>>

\* Positions of queue d that CPU c may consume.
Runnable(d, c) == {i \in DOMAIN dsq[d] : c \in allowed[dsq[d][i]]}

\* The queues once task t, which is in at most one of them, has left.
Leave(t) ==
  [d \in Queues |->
     IF \E i \in DOMAIN dsq[d] : dsq[d][i] = t
     THEN RemoveAt(dsq[d], CHOOSE i \in DOMAIN dsq[d] : dsq[d][i] = t)
     ELSE dsq[d]]

Place(t, d) == dsq' = [dsq EXCEPT ![d] = Append(@, t)]

Init ==
  /\ st = [t \in Tasks |-> "sleeping"]
  /\ qseq = [t \in Tasks |-> 0]
  /\ enq_cnt = [t \in Tasks |-> 0]
  /\ allowed \in [Tasks -> Masks]
  /\ tcpu \in [Tasks \union {Sched} -> CPUs]
  /\ \A t \in Tasks : ~Misplaced(t)
  /\ queued = <<>> /\ dispatched = <<>>
  /\ batch = {} /\ us = "dequeue"
  /\ nr_scheduled = 0 /\ dispatch_errors = FALSE
  /\ needed = FALSE /\ drainer = Nobody
  /\ pc = [c \in CPUs |-> "run"]
  /\ curr = [c \in CPUs |-> IF c = tcpu[Sched] THEN Sched ELSE Idle]
  /\ tgt = [c \in CPUs |-> c]
  /\ buf = [c \in CPUs |-> <<>>]
  /\ pend = [c \in CPUs |-> FALSE]
  /\ again = [c \in CPUs |-> FALSE]
  /\ kicks = [c \in CPUs |-> {}]
  /\ kicked = [c \in CPUs |-> FALSE]
  /\ dsq = [d \in Queues |-> <<>>]

(***************************************************************************)
(* Wake-ups and enqueues.                                                  *)
(***************************************************************************)
\* do_enqueue_task of the core: a new sequence number is visible before
\* ops.enqueue runs.
EnqueueBegin(t, m) ==
  /\ qseq[t] < MaxEnq
  /\ st' = [st EXCEPT ![t] = m]
  /\ qseq' = [qseq EXCEPT ![t] = @ + 1]

\* rustland_select_cpu found an idle CPU whose queues are empty: the task is
\* inserted from select_cpu and ops.enqueue is skipped.
SelectDirect(t) ==
  /\ st[t] = "sleeping"
  /\ ~Pinned(t)
  /\ \E c \in PickIdle(t) :
       /\ CanDirectDispatch(c)
       /\ tcpu' = [tcpu EXCEPT ![t] = c]
       /\ Place(t, c)
       /\ Kick({c})
  /\ st' = [st EXCEPT ![t] = "dsq"]
  /\ UNCHANGED <<qseq, enq_cnt, allowed, ringVars, userVars, needed,
                 drainer, cpuVars>>

\* rustland_select_cpu claimed an idle CPU with queued work, or none: the
\* wake-up goes on to ops.enqueue with the CPU selected.  Without an idle CPU
\* that is the last one, if the task may still use it.
SelectEnqueue(t) ==
  /\ st[t] = "sleeping"
  /\ ~Pinned(t)
  /\ \E c \in allowed[t] :
       /\ c = tcpu[t] \/ Misplaced(t) \/ ~CanDirectDispatch(c)
       /\ tcpu' = [tcpu EXCEPT ![t] = c]
  /\ EnqueueBegin(t, "selected")
  /\ UNCHANGED <<enq_cnt, allowed, ringVars, userVars, needed, drainer,
                 cpuVars, kicked, dsq>>

\* ops.enqueue is not told of a selected CPU: the task is pinned, or its wake-up
\* was queued to its CPU (SCX_OPS_ALLOW_QUEUED_WAKEUP).  In that queue its mask
\* may change, and the enqueue comes on the CPU it had all the same.
RemoteWake(t) ==
  /\ st[t] = "sleeping"
  /\ \E c \in allowed[t] \union {tcpu[t]} : tcpu' = [tcpu EXCEPT ![t] = c]
  /\ EnqueueBegin(t, "wakeup")
  /\ UNCHANGED <<enq_cnt, allowed, ringVars, userVars, needed, drainer,
                 cpuVars, kicked, dsq>>

\* set_cpus_allowed of the core, for a task that is not waiting.
ChangeMask(t) ==
  /\ st[t] \in {"sleeping", "running"}
  /\ qseq[t] < MaxEnq
  /\ \E m \in Masks : allowed' = [allowed EXCEPT ![t] = m]
  /\ UNCHANGED <<st, qseq, enq_cnt, tcpu, ringVars, userVars, needed, drainer,
                 cpuVars, kicked, dsq>>

\* set_cpus_allowed for one that is: it is dequeued, which invalidates its
\* sequence number, and enqueued again with the new mask, on the same CPU.
Requeue(t) ==
  /\ st[t] \in {"queued", "dsq"}
  /\ \E m \in Masks : allowed' = [allowed EXCEPT ![t] = m]
  /\ dsq' = Leave(t)
  /\ EnqueueBegin(t, "wakeup")
  /\ UNCHANGED <<enq_cnt, tcpu, ringVars, userVars, needed, drainer, cpuVars,
                 kicked>>

\* The core moves task t to a CPU it may use, which enqueues it there.
Move(t) ==
  /\ Misplaced(t)
  /\ \E c \in allowed[t] : tcpu' = [tcpu EXCEPT ![t] = c]
  /\ st' = [st EXCEPT ![t] = "wakeup"]
  /\ qseq' = [qseq EXCEPT ![t] = @ + 1]
  /\ UNCHANGED <<enq_cnt, allowed>>

\* The second half of a change of affinity: move_queued_task.
MoveWaiting(t) ==
  /\ st[t] \in {"queued", "dsq"}
  /\ Move(t)
  /\ dsq' = Leave(t)
  /\ UNCHANGED <<ringVars, userVars, needed, drainer, cpuVars, kicked>>

\* queue_task_to_userspace: a full ring sends the task to SHARED_DSQ.
QueueToUserspace(t, c) ==
  IF Len(queued) < QueuedCap
  THEN /\ enq_cnt' = [enq_cnt EXCEPT ![t] = @ + 1]
       /\ queued' = Append(queued,
                           [pid |-> t, cpu |-> c, enq_cnt |-> enq_cnt[t] + 1])
       /\ st' = [st EXCEPT ![t] = "queued"]
       /\ UNCHANGED dsq
  ELSE /\ st' = [st EXCEPT ![t] = "dsq"]
       /\ Place(t, Shared)
       /\ UNCHANGED <<enq_cnt, queued>>

\* Insert from ops.enqueue: the core never hands the task to the BPF side.
DirectDispatch(t, c) ==
  /\ st' = [st EXCEPT ![t] = "dsq"]
  /\ Place(t, c)
  /\ UNCHANGED <<enq_cnt, queued>>

\* Seeded fault: the enqueue is ignored when its CPU is in the mask.
UsableInverted(t, c) == c \notin allowed[t]

\* The task may use the CPU picked for it.  When it may not, the enqueue is
\* ignored: the task stays with the BPF side, without a record, until the core
\* has moved it.
Usable(t, c) == c \in allowed[t]

IgnoreEnqueue(t) ==
  /\ st' = [st EXCEPT ![t] = "queued"]
  /\ UNCHANGED <<enq_cnt, queued, dsq>>

\* A wake-up is given a chance on an idle CPU.
EnqueueIdle(t, c) ==
  /\ IF ~CanDirectDispatch(c) THEN QueueToUserspace(t, c)
     ELSE IF Usable(t, c) THEN DirectDispatch(t, c) ELSE IgnoreEnqueue(t)
  /\ Kick({c})

\* rustland_enqueue.  For a "selected" wake-up the code does not kick, the core
\* does: it reschedules an idle CPU that a task wakes up on.
Enqueue(t) ==
  /\ st[t] \in Enqueueing
  /\ \/ /\ IF KeptInKernel(t) THEN DirectDispatch(t, tcpu[t])
                              ELSE QueueToUserspace(t, tcpu[t])
        /\ Kick(IF st[t] = "preempted" THEN {} ELSE {tcpu[t]})
     \/ /\ ~KeptInKernel(t) /\ st[t] = "wakeup"
        /\ \E c \in PickIdle(t) : EnqueueIdle(t, c)
  /\ UNCHANGED <<qseq, tcpu, allowed, dispatched, userVars, needed,
                 drainer, cpuVars>>

(***************************************************************************)
(* The user-space loop.  It only moves while the scheduler is on a CPU.    *)
(***************************************************************************)
OnCPU(c) == curr[c] = Sched /\ pc[c] = "run"

\* BpfScheduler::dequeue_task, called until the batch is full or the ring empty.
DequeueTask(c) ==
  /\ OnCPU(c) /\ us = "dequeue"
  /\ Cardinality(batch) < MaxBatch /\ queued # <<>>
  /\ batch' = batch \union {Head(queued)}
  /\ queued' = Tail(queued)
  /\ UNCHANGED <<taskVars, dispatched, us, nr_scheduled, dispatch_errors,
                 needed, drainer, cpuVars, kicked, dsq>>

DequeueDone(c) ==
  /\ OnCPU(c) /\ us = "dequeue"
  /\ Cardinality(batch) >= MaxBatch \/ queued = <<>>
  /\ us' = "send"
  /\ UNCHANGED <<taskVars, ringVars, batch, nr_scheduled, dispatch_errors,
                 needed, drainer, cpuVars, kicked, dsq>>

\* BpfScheduler::dispatch_task, in an order the profile chooses (any order
\* here).  On a failed reservation main.rs counts an error and drops the task.
DispatchTask(c) ==
  /\ OnCPU(c) /\ us = "send"
  /\ \E r \in batch :
       /\ batch' = batch \ {r}
       /\ IF Len(dispatched) < DispatchedCap
          THEN /\ dispatched' = Append(dispatched, r)
               /\ UNCHANGED dispatch_errors
          ELSE /\ dispatch_errors' = TRUE
               /\ UNCHANGED dispatched
  /\ UNCHANGED <<taskVars, queued, us, nr_scheduled, needed, drainer, cpuVars,
                 kicked, dsq>>

(***************************************************************************)
(* ops.dispatch on one CPU.                                                *)
(***************************************************************************)
\* The core holds the run-queue lock from the switch until the task it puts back
\* is enqueued: until then the CPU does not call ops.dispatch again.
Locked(c) == \E t \in Tasks : st[t] = "preempted" /\ tcpu[t] = c

\* Seeded fault: the ring is only drained when there is work for user space.
DispatchEntryIfPending(c) ==
  /\ ~Locked(c)
  /\ buf' = [buf EXCEPT ![c] = <<>>]
  /\ IF drainer = Nobody /\ HasPending
     THEN drainer' = c /\ pc' = [pc EXCEPT ![c] = "drain"]
     ELSE pc' = [pc EXCEPT ![c] = "pending"] /\ UNCHANGED drainer

\* The CPU enters ops.dispatch with prev = curr[c]; bpf_user_ringbuf_drain
\* returns -EBUSY when another CPU is draining, and the code ignores it.
DispatchEntry(c) ==
  /\ ~Locked(c)
  /\ buf' = [buf EXCEPT ![c] = <<>>]
  /\ IF drainer = Nobody
     THEN drainer' = c /\ pc' = [pc EXCEPT ![c] = "drain"]
     ELSE pc' = [pc EXCEPT ![c] = "pending"] /\ UNCHANGED drainer

\* NotifyComplete + yield: dispatch_tasks ends with notify_complete(0).
NotifyComplete(c) ==
  /\ OnCPU(c) /\ us = "send" /\ batch = {}
  /\ nr_scheduled' = 0
  /\ us' = "dequeue"
  /\ DispatchEntry(c)
  /\ UNCHANGED <<taskVars, ringVars, batch, dispatch_errors, needed, curr, tgt,
                 pend, again, kicks, kicked, dsq>>

\* The slice of the running task ends; it stays runnable.
SliceEnds(c) ==
  /\ pc[c] = "run" /\ curr[c] # Idle
  /\ curr[c] \in Tasks => qseq[curr[c]] < MaxEnq
  /\ DispatchEntry(c)
  /\ UNCHANGED <<taskVars, ringVars, userVars, needed, curr, tgt, pend, again,
                 kicks, kicked, dsq>>

\* The running task blocks or exits.
Block(c) ==
  /\ pc[c] = "run" /\ curr[c] \in Tasks
  /\ \E s \in {"sleeping", "gone"} : st' = [st EXCEPT ![curr[c]] = s]
  /\ curr' = [curr EXCEPT ![c] = Idle]
  /\ DispatchEntry(c)
  /\ UNCHANGED <<qseq, enq_cnt, tcpu, allowed, ringVars, userVars,
                 needed, tgt, pend, again, kicks, kicked, dsq>>

\* The stopper takes a task off a CPU that it may no longer run on.
MoveRunning(c) ==
  /\ pc[c] = "run" /\ curr[c] \in Tasks
  /\ Move(curr[c])
  /\ curr' = [curr EXCEPT ![c] = Idle]
  /\ DispatchEntry(c)
  /\ UNCHANGED <<ringVars, userVars, needed, tgt, pend, again, kicks, kicked, dsq>>

\* A kicked idle CPU looks for work.
IdleWakes(c) ==
  /\ pc[c] = "run" /\ curr[c] = Idle /\ kicked[c]
  /\ kicked' = [kicked EXCEPT ![c] = FALSE]
  /\ DispatchEntry(c)
  /\ UNCHANGED <<taskVars, ringVars, userVars, needed, curr, tgt, pend, again,
                 kicks, dsq>>

StopDraining(c) ==
  drainer' = Nobody /\ pc' = [pc EXCEPT ![c] = "pending"]

\* The drain finds the ring empty, and then lets other CPUs drain: a record sent
\* in between is left to the next ops.dispatch of some CPU.
DrainEmpty(c) ==
  /\ pc[c] = "drain" /\ dispatched = <<>>
  /\ pc' = [pc EXCEPT ![c] = "empty"]
  /\ UNCHANGED <<taskVars, ringVars, userVars, needed, drainer, curr, tgt, buf,
                 pend, again, kicks, kicked, dsq>>

ReleaseRing(c) ==
  /\ pc[c] = "empty"
  /\ StopDraining(c)
  /\ UNCHANGED <<taskVars, ringVars, userVars, needed, curr, tgt, buf, pend,
                 again, kicks, kicked, dsq>>

\* Seeded faults: one insert too many; the inverted test.
NoSlotLeftLate(b) == Len(b) > Slots
NoSlotLeftInverted(b) == Len(b) # Slots

\* handle_dispatched_task: stop only when no dispatch slot is left.
NoSlotLeft(b) == Len(b) = Slots

\* dispatch_task, first part: the task is looked up and its CPU read.  The record
\* of a task that is gone ends the callback here.
LookupTask(c) ==
  /\ pc[c] = "drain" /\ dispatched # <<>>
  /\ LET r == Head(dispatched) IN
       IF st[r.pid] = "gone"
       THEN /\ dispatched' = Tail(dispatched)
            /\ IF NoSlotLeft(buf[c]) THEN StopDraining(c) ELSE UNCHANGED <<pc, drainer>>
            /\ UNCHANGED tgt
       ELSE /\ tgt' = [tgt EXCEPT ![c] = tcpu[r.pid]]
            /\ pc' = [pc EXCEPT ![c] = "test"]
            /\ UNCHANGED <<dispatched, drainer>>
  /\ UNCHANGED <<taskVars, queued, userVars, needed, curr, buf, pend, again,
                 kicks, kicked, dsq>>

\* Seeded fault: the shared queue is named as the target of a task, as the
\* RL_CPU_ANY protocol of an earlier scheduler did.
TargetShared(r, prev) == IF r.cpu \in allowed[r.pid] THEN r.cpu ELSE Shared

\* The CPU a record asks for, or the one its task was found on.
Target(r, prev) == IF r.cpu \in allowed[r.pid] THEN r.cpu ELSE prev

\* dispatch_task, second part: the affinity test.
TestAffinity(c) ==
  /\ pc[c] = "test"
  /\ tgt' = [tgt EXCEPT ![c] = Target(Head(dispatched), @)]
  /\ pc' = [pc EXCEPT ![c] = "insert"]
  /\ UNCHANGED <<taskVars, ringVars, userVars, needed, drainer, curr, buf, pend,
                 again, kicks, kicked, dsq>>

\* dispatch_task, third part: scx_bpf_dsq_insert_vtime only buffers the
\* request, together with the sequence number the task has now.
InsertVtime(c) ==
  /\ pc[c] = "insert"
  /\ LET r == Head(dispatched) IN
       buf' = [buf EXCEPT ![c] =
                 Append(@, [pid |-> r.pid, cpu |-> tgt[c], qseq |-> qseq[r.pid],
                            enq_cnt |-> r.enq_cnt,
                            overlap |-> st[r.pid] \in Enqueueing])]
  /\ pc' = [pc EXCEPT ![c] = "check"]
  /\ UNCHANGED <<taskVars, ringVars, userVars, needed, drainer, curr, tgt, pend,
                 again, kicks, kicked, dsq>>

\* Seeded faults: no generation test; a test that also hits current records.
SupersededNever(r) == FALSE
SupersededAlways(r) == enq_cnt[r.pid] >= r.enq_cnt

\* The record is stale: the task was enqueued again after it was written.
Superseded(r) == enq_cnt[r.pid] > r.enq_cnt

\* Seeded fault: the CPU that dispatches is kicked, not the one that gets the
\* task.
WokenByThis(c) == {c}

\* The CPUs dispatch_task kicks for an insert: its target.
WokenBy(c) == {tgt[c]}

\* dispatch_task, last part: a superseded insert is cancelled, any other kicks
\* its target; then the callback tells the drain whether to stop.
CheckGeneration(c) ==
  /\ pc[c] = "check"
  /\ LET r == Head(dispatched)
         b == IF Superseded(r) THEN Front(buf[c]) ELSE buf[c]
     IN  /\ buf' = [buf EXCEPT ![c] = b]
         /\ kicks' = IF Superseded(r) THEN kicks
                     ELSE [kicks EXCEPT ![c] = @ \union WokenBy(c)]
         /\ IF NoSlotLeft(b)
            THEN StopDraining(c)
            ELSE pc' = [pc EXCEPT ![c] = "drain"] /\ UNCHANGED drainer
  /\ dispatched' = Tail(dispatched)
  /\ tgt' = [tgt EXCEPT ![c] = c]
  /\ UNCHANGED <<taskVars, queued, userVars, needed, curr, pend, again,
                 kicked, dsq>>

\* usersched_has_pending_tasks clears the flag whatever the answer is used for.
TestPending(c) ==
  /\ pc[c] = "pending"
  /\ pend' = [pend EXCEPT ![c] = HasPending]
  /\ needed' = FALSE
  /\ again' = [again EXCEPT ![c] = buf[c] # <<>>]
  /\ pc' = [pc EXCEPT ![c] = "flush"]
  /\ UNCHANGED <<taskVars, ringVars, userVars, drainer, curr, tgt, buf, kicks,
                 kicked, dsq>>

\* The core drops a buffered insert unless the task is still owned by the BPF
\* side under the sequence number read at insert time.
Claims(e) == st[e.pid] = "queued" /\ qseq[e.pid] = e.qseq

\* finish_dispatch of the core, for the oldest buffered insert; it waits for
\* an enqueue in progress.
FinishDispatch(c) ==
  /\ pc[c] = "flush" /\ buf[c] # <<>>
  /\ LET e == Head(buf[c]) IN
       /\ st[e.pid] \notin Enqueueing
       /\ IF Claims(e)
          THEN /\ st' = [st EXCEPT ![e.pid] = "dsq"]
               /\ Place(e.pid, e.cpu)
          ELSE UNCHANGED <<st, dsq>>
  /\ buf' = [buf EXCEPT ![c] = Tail(@)]
  /\ UNCHANGED <<qseq, enq_cnt, tcpu, allowed, ringVars, userVars, needed,
                 drainer, pc, curr, tgt, pend, again, kicks, kicked>>

(***************************************************************************)
(* The end of ops.dispatch: what the CPU runs next.                        *)
(***************************************************************************)
\* The CPU leaves ops.dispatch running n.  A different runnable prev is put
\* back: a task starts an enqueue, the scheduler returns to SCHED_DSQ.  The
\* kicks asked for during the callback are delivered now.
SwitchTo(c, n) ==
  LET put == n # curr[c] /\ curr[c] \in Tasks IN
  /\ curr' = [curr EXCEPT ![c] = n]
  /\ pc' = [pc EXCEPT ![c] = "run"]
  /\ st' = [t \in Tasks |-> IF t = n THEN "running"
                            ELSE IF put /\ t = curr[c] THEN "preempted"
                            ELSE st[t]]
  /\ qseq' = IF put THEN [qseq EXCEPT ![curr[c]] = @ + 1] ELSE qseq
  /\ tcpu' = IF n = Idle THEN tcpu ELSE [tcpu EXCEPT ![n] = c]
  /\ kicked' = [k \in CPUs |->
                  IF k = c THEN n = Idle /\ (kicked[c] \/ c \in kicks[c])
                  ELSE kicked[k] \/ (k \in kicks[c] /\ CanKick(k))]
  /\ kicks' = [kicks EXCEPT ![c] = {}]
  /\ pend' = [pend EXCEPT ![c] = FALSE]
  /\ again' = [again EXCEPT ![c] = FALSE]
  /\ UNCHANGED <<enq_cnt, allowed, ringVars, userVars, drainer, tgt, buf>>

\* The buffer is flushed: scx_bpf_dsq_move_to_local looks at the queues.
Picking(c) == pc[c] = "flush" /\ buf[c] = <<>>

\* SCHED_DSQ comes first when there is something for user space to do.
ServesScheduler(c) == pend[c] /\ Parked

RunScheduler(c) ==
  /\ Picking(c) /\ ServesScheduler(c)
  /\ SwitchTo(c, Sched)
  /\ UNCHANGED <<needed, dsq>>

\* Then the CPU's own queue, then the shared one; both in FIFO order (every
\* vtime is zero), skipping tasks this CPU may not run.
RunTask(c) ==
  /\ Picking(c) /\ ~ServesScheduler(c)
  /\ \E d \in {c, Shared} : \E i \in Runnable(d, c) :
       /\ d = Shared => Runnable(c, c) = {}
       /\ \A j \in Runnable(d, c) : i <= j
       /\ SwitchTo(c, dsq[d][i])
       /\ dsq' = [dsq EXCEPT ![d] = RemoveAt(@, i)]
  /\ UNCHANGED needed

NothingToRun(c) ==
  /\ ~ServesScheduler(c)
  /\ Runnable(c, c) = {} /\ Runnable(Shared, c) = {}

\* Nothing else wants the CPU: prev gets a new slice.  The scheduler gets one
\* only if usersched_has_pending_tasks, evaluated again, says so.
KeepPrev(c) ==
  /\ Picking(c) /\ NothingToRun(c)
  /\ \/ curr[c] \in Tasks /\ UNCHANGED needed
     \/ curr[c] = Sched /\ HasPending /\ needed' = FALSE
  /\ SwitchTo(c, curr[c])
  /\ UNCHANGED dsq

NoPrev(c) == curr[c] = Idle \/ (curr[c] = Sched /\ ~HasPending)

\* The core calls ops.dispatch again while the last call buffered something.
DispatchAgain(c) ==
  /\ Picking(c) /\ NothingToRun(c) /\ NoPrev(c) /\ again[c]
  /\ DispatchEntry(c)
  /\ UNCHANGED <<taskVars, ringVars, userVars, needed, curr, tgt, pend, again,
                 kicks, kicked, dsq>>

\* SCX_OPS_ENQ_LAST: an idle-bound CPU puts the scheduler back in SCHED_DSQ.
GoIdle(c) ==
  /\ Picking(c) /\ NothingToRun(c) /\ NoPrev(c) /\ ~again[c]
  /\ SwitchTo(c, Idle)
  /\ UNCHANGED <<needed, dsq>>

\* usersched_timer_fn: the scheduler has not started for a timer period.
TimerFires ==
  /\ Parked
  /\ needed' = TRUE
  /\ Kick({tcpu[Sched]})
  /\ UNCHANGED <<taskVars, ringVars, userVars, drainer, cpuVars, dsq>>

(***************************************************************************)
(* Specification.                                                          *)
(***************************************************************************)
UserStep(c) == DequeueTask(c) \/ DequeueDone(c) \/ DispatchTask(c) \/ NotifyComplete(c)

DispatchStep(c) ==
  \/ IdleWakes(c) \/ DrainEmpty(c) \/ ReleaseRing(c)
  \/ LookupTask(c) \/ TestAffinity(c) \/ InsertVtime(c) \/ CheckGeneration(c)
  \/ TestPending(c) \/ FinishDispatch(c) \/ RunScheduler(c) \/ RunTask(c)
  \/ KeepPrev(c) \/ DispatchAgain(c) \/ GoIdle(c)

Next ==
  \/ \E t \in Tasks : \/ SelectDirect(t) \/ SelectEnqueue(t) \/ RemoteWake(t)
                      \/ ChangeMask(t) \/ Requeue(t) \/ MoveWaiting(t)
                      \/ Enqueue(t)
  \/ \E c \in CPUs : \/ UserStep(c) \/ SliceEnds(c) \/ Block(c)
                     \/ MoveRunning(c) \/ DispatchStep(c)
  \/ TimerFires

Spec == Init /\ [][Next]_vars

\* Handlers and callbacks run to completion; a time slice is finite; a slice
\* covers at least one user-space step.
Progress ==
  /\ \A t \in Tasks : WF_vars(Enqueue(t)) /\ WF_vars(MoveWaiting(t))
  /\ \A c \in CPUs : WF_vars(DispatchStep(c)) /\ WF_vars(SliceEnds(c) \/ Block(c))
  /\ SF_vars(\E c \in CPUs : UserStep(c))

\* Nothing is assumed of the heart-beat timer: what rests on its rescue says so.
FairSpec == Spec /\ Progress

(***************************************************************************)
(* Properties.                                                             *)
(***************************************************************************)
\* An insert whose generation test is done, and that the core will honour,
\* comes from the record of the task's current enqueue: the counter compared
\* in dispatch_task and the core's sequence number together filter every
\* record left over from an earlier enqueue, unless the insert overlapped the
\* start of the new one.  (An enqueue that ops.enqueue ignores leaves the counter
\* alone: the records before it stay current.)
FreshClaims ==
  \A c \in CPUs : \A i \in DOMAIN buf[c] :
    LET e == buf[c][i] IN
      Claims(e) /\ ~e.overlap /\ ~(pc[c] = "check" /\ i = Len(buf[c]))
        => e.enq_cnt = enq_cnt[e.pid]

\* The affinity mask is read before the insert, and the task may get another one
\* in between or later: even so, no insert that the core will honour puts a task
\* on the queue of a CPU it may not use, unless the insert overlapped the start
\* of a new enqueue, or the core is about to take the task to another CPU and
\* out of that queue.
AffinityRespected ==
  \A c \in CPUs : \A i \in DOMAIN buf[c] :
    LET e == buf[c][i] IN
      Claims(e) /\ ~e.overlap /\ ~(pc[c] = "check" /\ i = Len(buf[c]))
        => e.cpu \in allowed[e.pid] \/ Misplaced(e.pid)

\* No wake-up is lost: a CPU never sleeps while a task it may run waits in its own
\* queue, unless a reschedule of it is requested already or a CPU inside
\* ops.dispatch will request it on leaving.
NoStrandedWork ==
  \A c \in CPUs :
    curr[c] = Idle /\ pc[c] = "run" /\ Runnable(c, c) # {}
      => kicked[c] \/ \E k \in CPUs : c \in kicks[k]

\* A drain never buffers more inserts than ops.dispatch_max_batch: the core
\* aborts the scheduler otherwise.
SlotsRespected ==
  \A c \in CPUs : /\ Len(buf[c]) <= Slots
                  /\ pc[c] \in {"drain", "test", "insert"} => Len(buf[c]) < Slots

\* A CPU that drains.
Looping == {"drain", "test", "insert", "check"}

\* A drain that starts does not stop at a record while it has free slots.
DrainUntilFull ==
  [][\A c \in CPUs :
       pc[c] \in Looping /\ pc'[c] \notin Looping
         => dispatched' = <<>> \/ Len(buf'[c]) = Slots]_vars

\* The records on their way to dispatch_task.
Underway == ToSet(queued) \union batch \union ToSet(dispatched)

\* ops.enqueue may have ignored t.
MayBeIgnored(t) == Pinned(t) /\ Misplaced(t)

\* A task the core has given to the BPF side is never forgotten: as long as no
\* reservation failed, a record of its current enqueue is still on its way, or
\* an insert that the core will honour is buffered; or it is on a CPU it may not
\* use, so that another enqueue follows, as rustland_enqueue expects of a task it
\* ignores.
NoTaskForgotten ==
  \A t \in Tasks :
    st[t] = "queued" /\ ~dispatch_errors /\ ~MayBeIgnored(t) =>
      \/ \E r \in Underway : r.pid = t /\ r.enq_cnt = enq_cnt[t]
      \/ \E c \in CPUs : \E i \in DOMAIN buf[c] :
           buf[c][i].pid = t /\ Claims(buf[c][i])

\* usersched_has_pending_tasks says TRUE whenever the scheduler is off every
\* CPU while it still holds tasks it has dequeued ("scheduled" tasks).
HeldTasksArePending == Parked /\ batch # {} => HasPending

(***************************************************************************)
(* The inductive invariant behind the safety properties.                   *)
(***************************************************************************)
Draining == Looping \union {"empty"}

\* Only the CPU that holds the ring handles records, one at a time, and the
\* insert it is about to test is the newest one of its buffer.
DrainInv ==
  /\ \A c \in CPUs : drainer = c <=> pc[c] \in Draining
  /\ \A c \in CPUs : pc[c] \in {"test", "insert", "check"} => dispatched # <<>>
  /\ \A c \in CPUs : pc[c] = "check" =>
       /\ buf[c] # <<>>
       /\ Last(buf[c]).pid = Head(dispatched).pid
       /\ Last(buf[c]).enq_cnt = Head(dispatched).enq_cnt

\* No record is ahead of the counter it was copied from.
NotAhead(r) == r.enq_cnt <= enq_cnt[r.pid]

RecordInv ==
  /\ \A i \in DOMAIN queued : NotAhead(queued[i])
  /\ \A r \in batch : NotAhead(r)
  /\ \A i \in DOMAIN dispatched : NotAhead(dispatched[i])

\* Nor is a buffered insert; and one that carries the sequence number of an
\* enqueue still in progress was made while it was in progress.
EntryInv ==
  \A c \in CPUs : \A i \in DOMAIN buf[c] :
    LET e == buf[c][i] IN
      /\ NotAhead(e)
      /\ e.qseq <= qseq[e.pid]
      /\ e.qseq = qseq[e.pid] /\ st[e.pid] \in Enqueueing => e.overlap

\* A buffered insert of the current enqueue carries its sequence number.
CurrentInv ==
  \A c \in CPUs : \A i \in DOMAIN buf[c] :
    LET e == buf[c][i] IN
      st[e.pid] = "queued" /\ e.enq_cnt = enq_cnt[e.pid] /\ ~MayBeIgnored(e.pid)
        => e.qseq = qseq[e.pid]

\* No CPU leaves ops.dispatch with inserts in its buffer: the next call drops
\* what is in it.
EmptyInv == \A c \in CPUs : pc[c] = "run" => buf[c] = <<>>

\* A waiting task has a record or an insert of its current enqueue.
HeldInv ==
  \A t \in Tasks :
    st[t] = "queued" /\ ~dispatch_errors /\ ~MayBeIgnored(t) =>
      \/ \E r \in Underway : r.pid = t /\ r.enq_cnt = enq_cnt[t]
      \/ \E c \in CPUs : \E i \in DOMAIN buf[c] :
           buf[c][i].pid = t /\ buf[c][i].enq_cnt = enq_cnt[t]

IInv ==
  /\ TypeOK /\ DrainInv /\ RecordInv /\ EntryInv
  /\ CurrentInv /\ EmptyInv /\ HeldInv
  /\ FreshClaims /\ SlotsRespected

\* A task waits in one queue, at one position, and nowhere else.
WaitsOnce ==
  /\ \A d \in Queues : \A i \in DOMAIN dsq[d] : st[dsq[d][i]] = "dsq"
  /\ \A d, f \in Queues : \A i \in DOMAIN dsq[d] : \A j \in DOMAIN dsq[f] :
       dsq[d][i] = dsq[f][j] => d = f /\ i = j

\* A CPU runs a task that no other CPU runs; the CPU a task is put back on is not
\* idle until the task is enqueued.
RunsOnce ==
  /\ \A c \in CPUs : curr[c] \in Tasks => st[curr[c]] = "running" /\ tcpu[curr[c]] = c
  /\ \A t \in Tasks : st[t] = "preempted" =>
       pc[tcpu[t]] = "run" /\ curr[tcpu[t]] # Idle

\* The target of a record, and of the insert made from it, is a CPU its task may
\* use as long as the record is current and the core is not about to move the task.
Settled(r) ==
  st[r.pid] = "queued" /\ r.enq_cnt = enq_cnt[r.pid] /\ ~Misplaced(r.pid)

TargetInv ==
  /\ \A c \in CPUs : pc[c] \in {"test", "insert"} =>
       LET r == Head(dispatched) IN Settled(r) => tgt[c] \in allowed[r.pid]
  /\ \A c \in CPUs : \A i \in DOMAIN buf[c] :
       LET e == buf[c][i] IN Settled(e) => e.cpu \in allowed[e.pid]

\* The insert under test went to the target chosen for it, and every insert that
\* passed its test has asked for the kick of its CPU.
KickInv ==
  \A c \in CPUs : \A i \in DOMAIN buf[c] :
    IF pc[c] = "check" /\ i = Len(buf[c]) THEN buf[c][i].cpu = tgt[c]
    ELSE buf[c][i].cpu \in kicks[c]

\* Inductive relative to IInv: where tasks wait and run, and who wakes whom.
PlaceInv == WaitsOnce /\ RunsOnce /\ TargetInv /\ KickInv /\ NoStrandedWork

(***************************************************************************)
(* Liveness.                                                               *)
(***************************************************************************)
\* The heart-beat timer re-arms itself.
TimerRuns == WF_vars(TimerFires)

\* A task given to user space runs again, unless main.rs dropped a task because
\* the dispatched ring had no room.  The heart-beat timer is needed: a scheduler
\* preempted with tasks in its hands is not pending.
QueuedRuns ==
  TimerRuns =>
    \A t \in Tasks : st[t] = "queued" ~> st[t] = "running" \/ dispatch_errors

\* A parked scheduler is scheduled again, whether or not there is work: the
\* core's watchdog kills a scheduler whose thread stays runnable too long.  The
\* heart-beat timer is what guarantees it.
SchedulerRunsAgain == TimerRuns => (Parked ~> ~Parked)

\* Records sent to the BPF side are consumed even when the drain that should
\* have taken them found another CPU draining, and without waiting for the
\* timer: a drain that stops early leaves something behind that makes the core
\* call ops.dispatch again.  The premise: no record arrives between the moment a
\* drain finds the ring empty and the moment another may start, since the
\* ops.dispatch that follows it could find the ring still busy.
OutgoingDrains ==
  [](\A c \in CPUs : pc[c] = "empty" => dispatched = <<>>)
    => (dispatched # <<>> ~> dispatched = <<>>)
=============================================================================
