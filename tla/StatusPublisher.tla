--------------------------- MODULE StatusPublisher ---------------------------
(***************************************************************************)
(* How cerynth-scx publishes its status.  The scheduling loop must never   *)
(* wait for the file system, so a child process, the reporter, does the    *)
(* writing: the scheduler sends it snapshots over a non-blocking datagram  *)
(* socket, the reporter drains the socket and replaces scheduler.json      *)
(* through a temporary file.  A scheduler that stops kills and reaps its   *)
(* reporter and then writes the final "stopped" record itself.  Every      *)
(* process uses the same two paths.                                        *)
(***************************************************************************)
EXTENDS Naturals, Sequences

CONSTANTS
  Pids,      \* scheduler processes; a pid is used once
  NoPid,     \* no scheduler is attached
  QueueCap,  \* datagrams the socket holds
  MaxBeats   \* bound: seconds the clock of a heartbeat advances

ASSUME PublisherAssumption ==
  /\ NoPid \notin Pids
  /\ QueueCap \in Nat \ {0}
  /\ MaxBeats \in Nat

\* The processes that write scheduler.json.
Writers == Pids \X {"main", "reporter"}
Main(p) == <<p, "main">>
Reporter(p) == <<p, "reporter">>

\* SchedulerStatus, as far as its readers can tell the records apart.
Running(p, b) == [kind |-> "running", pid |-> p, beat |-> b]
Stopped(p)    == [kind |-> "stopped", pid |-> p, beat |-> 0]
Records == [kind : {"running", "stopped"}, pid : Pids, beat : 0 .. MaxBeats]

\* What else a file can be: absent, truncated, or two records mixed.
NoRecord(k) == [kind |-> k, pid |-> NoPid, beat |-> 0]
Missing  == NoRecord("missing")
Empty    == NoRecord("empty")
Mixed    == NoRecord("mixed")
Contents == Records \union {Empty, Mixed}

Phases == {"absent", "init", "attach", "running", "wait", "stopped", "gone"}

VARIABLES
  phase,     \* where main() of each process is
  handler,   \* whose flag the signal handler of a process sets: of no, of the
             \* current, or of an earlier BpfScheduler
  heard,     \* that flag is set
  exit,      \* user exit info: "none", "restart" or "stop", or init "failed"
  beat,      \* heartbeat of its last snapshot
  attached,  \* the process whose BPF scheduler is enabled
  queue,     \* heartbeats of the snapshots in its socket
  reporter,  \* where its reporter is
  sig,       \* a deadly signal is pending for the reporter
  latest,    \* heartbeat of the snapshot the reporter publishes
  step,      \* next file operation of each writer
  fd,        \* the file a writer has open: at which path it is now
  tmpFile,   \* scheduler.json.tmp
  statusFile,\* scheduler.json
  overlap    \* history: a process was launched while another was active

mainVars == <<phase, handler, heard, exit, beat, attached, overlap>>
repVars  == <<queue, reporter, sig, latest>>
fileVars == <<step, fd, tmpFile, statusFile>>
vars == <<phase, handler, heard, exit, beat, attached, overlap, queue, reporter,
          sig, latest, step, fd, tmpFile, statusFile>>

TypeOK ==
  /\ phase \in [Pids -> Phases]
  /\ handler \in [Pids -> {"none", "current", "stale"}]
  /\ heard \in [Pids -> BOOLEAN]
  /\ exit \in [Pids -> {"none", "restart", "stop", "failed"}]
  /\ beat \in [Pids -> 0 .. MaxBeats]
  /\ attached \in Pids \union {NoPid}
  /\ overlap \in BOOLEAN
  /\ queue \in [Pids -> Seq(0 .. MaxBeats)]
  /\ \A p \in Pids : Len(queue[p]) <= QueueCap
  /\ reporter \in [Pids -> {"none", "booting", "armed", "idle", "publishing",
                            "dead"}]
  /\ sig \in [Pids -> BOOLEAN]
  /\ latest \in [Pids -> 0 .. MaxBeats]
  /\ step \in [Writers -> {"idle", "create", "write", "rename"}]
  /\ fd \in [Writers -> {"none", "tmp", "status", "unlinked"}]
  /\ tmpFile \in Contents \union {Missing}
  /\ statusFile \in Contents \union {Missing}

Init ==
  /\ phase = [p \in Pids |-> "absent"]
  /\ handler = [p \in Pids |-> "none"]
  /\ heard = [p \in Pids |-> FALSE]
  /\ exit = [p \in Pids |-> "none"]
  /\ beat = [p \in Pids |-> 0]
  /\ attached = NoPid
  /\ overlap = FALSE
  /\ queue = [p \in Pids |-> <<>>]
  /\ reporter = [p \in Pids |-> "none"]
  /\ sig = [p \in Pids |-> FALSE]
  /\ latest = [p \in Pids |-> 0]
  /\ step = [w \in Writers |-> "idle"]
  /\ fd = [w \in Writers |-> "none"]
  /\ tmpFile = Missing
  /\ statusFile = Missing

Alive(p) == phase[p] \notin {"absent", "gone"}
ReporterGone(p) == reporter[p] \in {"none", "dead"}
Quiet(p) == ~Alive(p) /\ ReporterGone(p)

(***************************************************************************)
(* SchedulerStatus::write, one system call at a time.                      *)
(***************************************************************************)
Record(w) == IF w[2] = "main" THEN Stopped(w[1]) ELSE Running(w[1], latest[w[1]])

\* A reporter with a deadly signal pending does not outlive the system call it
\* is in.
Signalled(w) == w[2] = "reporter" /\ sig[w[1]]
Goes(w, s) == step' = [step EXCEPT ![w] = IF Signalled(w) THEN "idle" ELSE s]

\* Seeded fault: the file is opened without truncation.
CreateTmpKeeps(w) ==
  /\ step[w] = "create"
  /\ tmpFile' = IF tmpFile = Missing THEN Empty ELSE tmpFile
  /\ fd' = IF Signalled(w) THEN fd ELSE [fd EXCEPT ![w] = "tmp"]
  /\ Goes(w, "write")
  /\ UNCHANGED statusFile

\* File::create truncates the file that is there.
CreateTmp(w) ==
  /\ step[w] = "create"
  /\ tmpFile' = Empty
  /\ fd' = IF Signalled(w) THEN fd ELSE [fd EXCEPT ![w] = "tmp"]
  /\ Goes(w, "write")
  /\ UNCHANGED statusFile

\* A record written over another one of unknown length.
Over(old, new) == IF old = Empty THEN {new} ELSE {new, Mixed}

\* write_all, sync_all and close.  The file may have been renamed, or replaced,
\* since it was opened.
WriteRecord(w) ==
  /\ step[w] = "write"
  /\ \/ /\ fd[w] = "tmp"
        /\ tmpFile' \in Over(tmpFile, Record(w))
        /\ UNCHANGED statusFile
     \/ /\ fd[w] = "status"
        /\ statusFile' \in Over(statusFile, Record(w))
        /\ UNCHANGED tmpFile
     \/ fd[w] = "unlinked" /\ UNCHANGED <<tmpFile, statusFile>>
  /\ fd' = [fd EXCEPT ![w] = "none"]
  /\ Goes(w, "rename")

\* Where an open file is after a rename.
Moved(place) ==
  CASE place = "tmp" -> "status"
    [] place = "status" -> "unlinked"
    [] OTHER -> place

RenameTmp(w) ==
  /\ step[w] = "rename" /\ tmpFile # Missing
  /\ statusFile' = tmpFile
  /\ tmpFile' = Missing
  /\ fd' = [v \in Writers |-> Moved(fd[v])]
  /\ Goes(w, "idle")

FileStep(w) == CreateTmp(w) \/ WriteRecord(w) \/ RenameTmp(w)

\* The writer stops where it is and its file is closed.
Abandon(w) ==
  /\ step' = [step EXCEPT ![w] = "idle"]
  /\ fd' = [fd EXCEPT ![w] = "none"]
  /\ UNCHANGED <<tmpFile, statusFile>>

\* create, write_all, sync_all or rename fail.  A record is smaller than a page,
\* so a write that fails has written nothing; a sync_all that fails leaves what a
\* rename that fails leaves.
FileFails(w) == step[w] # "idle" /\ Abandon(w)

(***************************************************************************)
(* The scheduler process.                                                  *)
(***************************************************************************)
\* The parent-death signal, once the reporter has asked for it.
Orphaned(p) ==
  sig' = [sig EXCEPT ![p] = @ \/ reporter[p] \in {"armed", "idle", "publishing"}]

\* cerynthd or a user starts another scheduler.
Launch(p) ==
  /\ phase[p] = "absent"
  /\ phase' = [phase EXCEPT ![p] = "init"]
  /\ overlap' = (overlap \/ \E q \in Pids : ~Quiet(q))
  /\ UNCHANGED <<handler, heard, exit, beat, attached, repVars, fileVars>>

\* Control goes to the final record of main().
ToStopped(p) ==
  /\ phase' = [phase EXCEPT ![p] = "stopped"]
  /\ step' = [step EXCEPT ![Main(p)] = "create"]

\* Seeded fault: the reporter is started with a first snapshot.
StartReporterEager(p) ==
  /\ phase[p] = "init"
  /\ phase' = [phase EXCEPT ![p] = "attach"]
  /\ handler' = [handler EXCEPT ![p] = IF @ = "none" THEN "current" ELSE "stale"]
  /\ reporter' = [reporter EXCEPT ![p] = "booting"]
  /\ queue' = [queue EXCEPT ![p] = <<beat[p]>>]
  /\ sig' = [sig EXCEPT ![p] = FALSE]
  /\ UNCHANGED <<heard, exit, beat, attached, overlap, latest, fileVars>>

\* Scheduler::init: Reporter::start, then BpfScheduler::init makes a shutdown
\* flag.  The handler is installed once per process and keeps the first one.
StartReporter(p) ==
  /\ phase[p] = "init"
  /\ phase' = [phase EXCEPT ![p] = "attach"]
  /\ handler' = [handler EXCEPT ![p] = IF @ = "none" THEN "current" ELSE "stale"]
  /\ reporter' = [reporter EXCEPT ![p] = "booting"]
  /\ queue' = [queue EXCEPT ![p] = <<>>]
  /\ sig' = [sig EXCEPT ![p] = FALSE]
  /\ UNCHANGED <<heard, exit, beat, attached, overlap, latest, fileVars>>

StartReporterFails(p) ==
  /\ phase[p] = "init"
  /\ ToStopped(p)
  /\ UNCHANGED <<handler, heard, exit, beat, attached, overlap, repVars, fd,
                 tmpFile, statusFile>>

\* Seeded fault: a full socket is not noticed.
SendAlways(p) ==
  \E b \in {beat[p], beat[p] + 1} \intersect (0 .. MaxBeats) :
    /\ beat' = [beat EXCEPT ![p] = b]
    /\ queue' = IF ~ReporterGone(p) THEN [queue EXCEPT ![p] = Append(@, b)] ELSE queue

\* Reporter::publish of a snapshot: the clock may have moved on.  A full
\* socket, or one without a reporter, drops the snapshot.
Send(p) ==
  \E b \in {beat[p], beat[p] + 1} \intersect (0 .. MaxBeats) :
    /\ beat' = [beat EXCEPT ![p] = b]
    /\ queue' = IF Len(queue[p]) < QueueCap /\ ~ReporterGone(p)
                THEN [queue EXCEPT ![p] = Append(@, b)] ELSE queue

\* The BPF scheduler is attached.
Attach(p) ==
  /\ phase[p] = "attach" /\ attached = NoPid
  /\ attached' = p
  /\ exit' = [exit EXCEPT ![p] = "none"]
  /\ phase' = [phase EXCEPT ![p] = "running"]
  /\ UNCHANGED <<handler, heard, beat, overlap, repVars, fileVars>>

\* write_stats, once before the run loop and then about once a second.  A loop
\* that is left before the first looks like one whose first snapshot got lost.
WriteStats(p) ==
  /\ phase[p] = "running"
  /\ Send(p)
  /\ UNCHANGED <<phase, handler, heard, exit, attached, overlap, reporter, sig,
                 latest, fileVars>>

\* Drop for Reporter kills it; the wait is next.
KillReporter(p) ==
  /\ sig' = [sig EXCEPT ![p] = ~ReporterGone(p)]
  /\ phase' = [phase EXCEPT ![p] = "wait"]

\* Opening, loading, preparing or attaching fails: always when another
\* scheduler is attached.
InitFails(p) ==
  /\ phase[p] = "attach"
  /\ exit' = [exit EXCEPT ![p] = "failed"]
  /\ KillReporter(p)
  /\ UNCHANGED <<handler, heard, beat, attached, overlap, queue, reporter, latest,
                 fileVars>>

\* The kernel ends the BPF scheduler: an error, or a hotplug that asks for a
\* restart.
BpfExits(p) ==
  /\ attached = p
  /\ attached' = NoPid
  /\ \E e \in {"restart", "stop"} : exit' = [exit EXCEPT ![p] = e]
  /\ UNCHANGED <<phase, handler, heard, beat, overlap, repVars, fileVars>>

\* The kernel detaches what the process had attached.
Detach(p) == attached' = IF attached = p THEN NoPid ELSE attached

Exited(p) == (heard[p] /\ handler[p] = "current") \/ exit[p] # "none"

\* Seeded fault: the reporter is waited for before BPF is detached.
LeaveLoopWaits(p) ==
  /\ phase[p] = "running" /\ Exited(p) /\ ReporterGone(p)
  /\ Detach(p)
  /\ exit' = [exit EXCEPT ![p] = IF @ = "none" THEN "stop" ELSE @]
  /\ KillReporter(p)
  /\ UNCHANGED <<handler, heard, beat, overlap, queue, reporter, latest, fileVars>>

\* The run loop ends: shutdown_and_report detaches BPF, then the fields of the
\* Scheduler are dropped.
LeaveLoop(p) ==
  /\ phase[p] = "running" /\ Exited(p)
  /\ Detach(p)
  /\ exit' = [exit EXCEPT ![p] = IF @ = "none" THEN "stop" ELSE @]
  /\ KillReporter(p)
  /\ UNCHANGED <<handler, heard, beat, overlap, queue, reporter, latest, fileVars>>

\* Seeded fault: the reporter is killed but not waited for.
ReapedNoWait(p) == TRUE
Reaped(p) == ReporterGone(p)

\* run_scheduler goes round again after a hotplug, else main() ends.
AfterDrop(p) ==
  /\ phase[p] = "wait" /\ Reaped(p)
  /\ IF exit[p] = "restart"
     THEN phase' = [phase EXCEPT ![p] = "init"] /\ UNCHANGED step
     ELSE ToStopped(p)
  /\ UNCHANGED <<handler, heard, exit, beat, attached, overlap, repVars, fd,
                 tmpFile, statusFile>>

\* The process ends, and with it its flag and what it knows of its exit.
Vanish(p) ==
  /\ phase' = [phase EXCEPT ![p] = "gone"]
  /\ handler' = [handler EXCEPT ![p] = "none"]
  /\ heard' = [heard EXCEPT ![p] = FALSE]
  /\ exit' = [exit EXCEPT ![p] = "none"]

\* stopped.write(); an error is only printed.
WriteStopped(p) ==
  /\ phase[p] = "stopped"
  /\ FileStep(Main(p)) \/ FileFails(Main(p))
  /\ IF step'[Main(p)] = "idle"
     THEN Vanish(p) ELSE UNCHANGED <<phase, handler, heard, exit>>
  /\ UNCHANGED <<beat, attached, overlap, repVars>>

\* SIGKILL, a panic, no memory, or SIGTERM without a handler.
Killed(p) ==
  /\ Alive(p)
  /\ Vanish(p)
  /\ Detach(p)
  /\ Orphaned(p)
  /\ Abandon(Main(p))
  /\ UNCHANGED <<beat, overlap, queue, reporter, latest>>

\* SIGTERM, from cerynthd or a terminal, reaches the handler.
Terminate(p) ==
  /\ Alive(p) /\ handler[p] # "none"
  /\ heard' = [heard EXCEPT ![p] = TRUE]
  /\ UNCHANGED <<phase, handler, exit, beat, attached, overlap, repVars, fileVars>>

(***************************************************************************)
(* The reporter process.                                                   *)
(***************************************************************************)
\* Seeded fault: getppid is not looked at.
ParentAliveAlways(p) == TRUE
ParentAlive(p) == Alive(p)

\* Its process has started; it asks for the parent-death signal.
Arm(p) ==
  /\ reporter[p] = "booting"
  /\ reporter' = [reporter EXCEPT ![p] = "armed"]
  /\ UNCHANGED <<mainVars, queue, sig, latest, fileVars>>

\* A parent that died before Arm sent no signal.
TestParent(p) ==
  /\ reporter[p] = "armed"
  /\ reporter' = [reporter EXCEPT ![p] = IF ParentAlive(p) THEN "idle" ELSE "dead"]
  /\ UNCHANGED <<mainVars, queue, sig, latest, fileVars>>

\* Once round the loop: only the latest snapshot is published.
Drain(p) ==
  /\ reporter[p] = "idle" /\ ParentAlive(p) /\ ~sig[p] /\ queue[p] # <<>>
  /\ latest' = [latest EXCEPT ![p] = queue[p][Len(queue[p])]]
  /\ queue' = [queue EXCEPT ![p] = <<>>]
  /\ reporter' = [reporter EXCEPT ![p] = "publishing"]
  /\ step' = [step EXCEPT ![Reporter(p)] = "create"]
  /\ UNCHANGED <<mainVars, sig, fd, tmpFile, statusFile>>

Publish(p) ==
  /\ reporter[p] = "publishing"
  /\ FileStep(Reporter(p))
  /\ reporter' = [reporter EXCEPT ![p] = CASE sig[p] -> "dead"
                                           [] step'[Reporter(p)] = "idle" -> "idle"
                                           [] OTHER -> "publishing"]
  /\ UNCHANGED <<mainVars, queue, sig, latest>>

\* An error ends the reporter: in the file operations, the socket, reading the
\* sched_ext state, or writing the statistics, which are in a file of their own.
ReporterFails(p) ==
  /\ \/ reporter[p] = "idle" /\ UNCHANGED fileVars
     \/ reporter[p] = "publishing" /\ FileFails(Reporter(p))
  /\ reporter' = [reporter EXCEPT ![p] = "dead"]
  /\ UNCHANGED <<mainVars, queue, sig, latest>>

\* It notices that its parent is gone, or the signal is delivered.
ReporterEnds(p) ==
  /\ \/ reporter[p] = "idle" /\ ~ParentAlive(p)
     \/ ~ReporterGone(p) /\ sig[p]
  /\ reporter' = [reporter EXCEPT ![p] = "dead"]
  /\ Abandon(Reporter(p))
  /\ UNCHANGED <<mainVars, queue, sig, latest>>

(***************************************************************************)
(* Composition.                                                            *)
(***************************************************************************)
\* The steps a scheduler process takes by itself.
MainStep(p) ==
  \/ StartReporter(p) \/ StartReporterFails(p) \/ Attach(p) \/ InitFails(p)
  \/ LeaveLoop(p) \/ AfterDrop(p) \/ WriteStopped(p)

ReporterStep(p) ==
  \/ Arm(p) \/ TestParent(p) \/ Drain(p) \/ Publish(p) \/ ReporterFails(p)
  \/ ReporterEnds(p)

Next ==
  \E p \in Pids :
    \/ MainStep(p) \/ ReporterStep(p)
    \/ Launch(p) \/ WriteStats(p) \/ BpfExits(p) \/ Killed(p) \/ Terminate(p)

Spec == Init /\ [][Next]_vars

\* The scheduler process runs; its reporter may hang in the file system.
Fairness == \A p \in Pids : WF_vars(MainStep(p))

FairSpec == Spec /\ Fairness

(***************************************************************************)
(* Properties.                                                             *)
(***************************************************************************)
\* How late a record is in the life of its process.
Age(r) == IF r.kind = "running" THEN r.beat ELSE MaxBeats + 1

\* The record of one process only moves forward: no reporter, not even the one
\* of an instance before a restart, replaces a record of its process by an
\* older one, and after "stopped" nobody says that it runs.
Forward(old, new) ==
  old \in Records /\ new \in Records /\ old.pid = new.pid => Age(old) <= Age(new)

RecordsMoveForward == [][Forward(statusFile, statusFile')]_vars

\* Readers never see a partial record, unless two schedulers were active at the
\* same time.
FileWhole == overlap \/ statusFile \in Records \union {Missing}

\* Readers never see a partial record.
FileAlwaysWhole == statusFile \in Records \union {Missing}

\* p has not attached since its launch: the handler has no flag yet, or the flag
\* of the first instance, and that instance is about to attach or has failed to.
IsUntried(p) ==
  \/ phase[p] \in {"init", "stopped"} /\ handler[p] = "none"
  \/ phase[p] = "attach" /\ handler[p] = "current"
  \/ phase[p] \in {"wait", "stopped"} /\ handler[p] = "current" /\ exit[p] = "failed"

Untried == {p \in Pids : IsUntried(p)}
Holders == {attached} \ {NoPid}
Named   == IF statusFile.kind = "running" THEN statusFile.pid ELSE NoPid

\* The contract on which the start gate of cerynthd rests: no reader of
\* scheduler.json finds a running record of a process that has not attached
\* since its launch, however many schedulers use the two paths, and whichever
\* of them fail, restart or die.
Contract == INSTANCE SchedulerContract WITH
  untried <- Untried, holders <- Holders, record <- Named

ImplementsContract == Contract!Spec

(***************************************************************************)
(* The inductive invariant behind RecordsMoveForward and FileWhole.        *)
(***************************************************************************)
\* Who may write: main() once its reporter is reaped, the reporter while it
\* publishes a snapshot.
WriterInv ==
  /\ \A p \in Pids :
       /\ step[Main(p)] # "idle" <=> phase[p] = "stopped"
       /\ step[Reporter(p)] # "idle" <=> reporter[p] = "publishing"
       /\ phase[p] \in {"absent", "init", "stopped"} => ReporterGone(p)
  /\ \A w \in Writers : step[w] = "write" <=> fd[w] # "none"

\* Snapshots leave the scheduler, and pass the socket, in order.
SnapshotInv ==
  \A p \in Pids :
    /\ latest[p] <= beat[p]
    /\ \A i \in DOMAIN queue[p] : latest[p] <= queue[p][i] /\ queue[p][i] <= beat[p]
    /\ \A i, j \in DOMAIN queue[p] : i <= j => queue[p][i] <= queue[p][j]

\* A record in a file is one its process has published; "stopped" is its last.
RecordInv ==
  \A f \in {tmpFile, statusFile} :
    /\ f.kind = "running" => f.beat <= latest[f.pid]
    /\ f.kind = "stopped" => phase[f.pid] \in {"stopped", "gone"} /\ ReporterGone(f.pid)

\* What waits to be renamed is not older than what it replaces; a writer has
\* truncated what it had left behind before.
OrderInv ==
  /\ Forward(statusFile, tmpFile)
  /\ \A w \in Writers : step[w] = "write" => tmpFile.pid # w[1]

\* One scheduler at a time: it is alone with its temporary file.
AloneInv ==
  overlap \/ /\ \A p, q \in Pids : ~Quiet(p) /\ ~Quiet(q) => p = q
             /\ \A w \in Writers :
                  /\ step[w] = "write" => fd[w] = "tmp" /\ tmpFile = Empty
                  /\ step[w] = "rename" => tmpFile = Record(w)

IInv ==
  TypeOK /\ WriterInv /\ SnapshotInv /\ RecordInv /\ OrderInv /\ AloneInv /\ FileWhole

(***************************************************************************)
(* The inductive invariant behind ImplementsContract, relative to IInv.    *)
(***************************************************************************)
\* What the phases of a process say of its flag and its exit info, and how BPF
\* is attached.
PhaseInv ==
  /\ attached # NoPid => phase[attached] = "running"
  /\ \A p \in Pids :
       /\ phase[p] = "absent" => handler[p] = "none"
       /\ phase[p] = "init" => handler[p] = "none" \/ exit[p] = "restart"
       /\ phase[p] \in {"attach", "running", "wait"} => handler[p] # "none"
       /\ phase[p] = "running" => exit[p] # "failed"

\* Before the first attachment nothing is sent, and so nothing published.
ServedInv ==
  \A p \in Pids : IsUntried(p) \/ phase[p] = "absent" =>
    /\ queue[p] = <<>> /\ reporter[p] # "publishing"
    /\ \A f \in {tmpFile, statusFile} : f.kind = "running" => f.pid # p

ContractInv == PhaseInv /\ ServedInv

(***************************************************************************)
(* Liveness.                                                               *)
(***************************************************************************)
\* A scheduler told to stop hands the CPUs back to the kernel, even if its
\* reporter never returns from the file system.
StopDetaches ==
  \A p \in Pids :
    heard[p] /\ handler[p] = "current" /\ attached = p ~> attached # p

\* A reporter that is not stuck, and meets no error.
ReporterRuns(p) ==
  Arm(p) \/ TestParent(p) \/ Drain(p) \/ Publish(p) \/ ReporterEnds(p)

\* SIGTERM ends the process, as long as its reporter can be killed and CPUs
\* are not plugged for ever.
SigtermStops ==
  (\A p \in Pids : WF_vars(ReporterRuns(p)) /\ <>[](exit[p] # "restart"))
    => \A p \in Pids : heard[p] ~> phase[p] = "gone"

\* No reporter outlives its scheduler, whenever the scheduler dies, unless it
\* is stuck.
NoOrphans ==
  (\A p \in Pids : WF_vars(ReporterRuns(p)))
    => \A p \in Pids : phase[p] = "gone" ~> ReporterGone(p)
=============================================================================
