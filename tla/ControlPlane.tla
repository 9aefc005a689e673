---------------------------- MODULE ControlPlane ----------------------------
(***************************************************************************)
(* cerynthd: one request at a time runs against the ScxBackend (the mutex  *)
(* of connection.rs is held from the handler to the save), supervises one  *)
(* cerynth-scx child process, and persists profile and adaptation.         *)
(*                                                                         *)
(* The daemon's handlers are cut where the world can move in between: the  *)
(* polls of start and stop, the two reads of the health test, the two      *)
(* halves of fs::write.  Scheduler processes move on their own: they       *)
(* attach, publish heartbeats, fail, restart after a hotplug event, and    *)
(* survive the daemon.                                                     *)
(***************************************************************************)
EXTENDS Naturals, FiniteSets, RequestEffects

CONSTANTS
  Pids,      \* process ids the kernel hands out, reused once free
  NoPid,     \* no process
  Profiles,  \* values of Profile
  Default,   \* Profile::Balanced, the default of RuntimeState
  NoProfile  \* a request that carries no profile

ASSUME ControlAssumption ==
  /\ NoPid \notin Pids
  /\ Default \in Profiles
  /\ NoProfile \notin Profiles

VARIABLES
  op,      \* where the daemon stands; the mutex is free in "idle" only
  req,     \* the request being handled
  result,  \* its outcome so far
  child,   \* ScxBackend::pid and ScxBackend::child
  prof,    \* ScxBackend::profile
  adapt,   \* ScxBackend::adaptation_enabled
  file,    \* content of state.json
  proc,    \* the scheduler processes
  hb,      \* whom the record in scheduler.json names, if it is fresh and says
           \* running and healthy
  acked,   \* history: values the last answered request left, or the boot
  saved    \* history: how the last save went, "cut" if the daemon died in it

daemonVars == <<op, req, result, child, prof, adapt>>
history    == <<acked, saved>>
vars == <<op, req, result, child, prof, adapt, file, proc, hb, acked, saved>>

Settings == [profile : Profiles, adaptation : BOOLEAN]
Current  == [profile |-> prof, adaptation |-> adapt]

\* What a missing, empty or cut-off state.json contains for the loader.
Unreadable == [profile |-> NoProfile, adaptation |-> FALSE]

\* The default of RuntimeState.
Fallback == [profile |-> Default, adaptation |-> FALSE]

Kinds == {"status", "setProfile", "pause", "resume", "start", "stop",
          "restart", "autostart"}
Ops == {"idle", "handle", "stop", "terminating", "killed", "spawn", "gate",
        "heartbeat", "save", "write", "reply", "down"}

\* young: no signal handler yet; init: opening and attaching; attached;
\* exiting: detached, about to write the stopped record and exit.
Stages == {"none", "young", "init", "attached", "exiting", "zombie"}

Process == [stage    : Stages,
            orphan   : BOOLEAN,   \* its daemon is gone
            arg      : Profiles,  \* --profile, Default in an orphan: nobody asks
            attached : BOOLEAN]   \* history: it attached at least once

Absent == [stage |-> "none", orphan |-> FALSE, arg |-> Default,
           attached |-> FALSE]

TypeOK ==
  /\ op \in Ops
  /\ req \in [kind : Kinds, profile : Profiles \union {NoProfile}]
  /\ result \in {"ok", "error", "unhealthy"}
  /\ child \in Pids \union {NoPid}
  /\ prof \in Profiles
  /\ adapt \in BOOLEAN
  /\ file \in Settings \union {Unreadable}
  /\ proc \in [Pids -> Process]
  /\ hb \in Pids \union {NoPid}
  /\ acked \in Settings
  /\ saved \in {"whole", "failed", "cut"}

NoRequest == [kind |-> "status", profile |-> NoProfile]

Init ==
  /\ op = "down"
  /\ req = NoRequest
  /\ result = "ok"
  /\ child = NoPid
  /\ prof = Default
  /\ adapt = FALSE
  /\ file = Unreadable
  /\ proc = [p \in Pids |-> Absent]
  /\ hb = NoPid
  /\ acked = Fallback
  /\ saved = "whole"

(***************************************************************************)
(* Helpers.                                                                *)
(***************************************************************************)
Alive(p) == proc[p].stage \notin {"none", "zombie"}

\* /sys/kernel/sched_ext/state says "enabled".
Enabled == \E p \in Pids : proc[p].stage = "attached"

\* try_wait and wait answer for a child that has exited.
Exited == child # NoPid /\ proc[child].stage = "zombie"

\* reap_child, also the end of a successful wait: an exited child is reaped
\* and forgotten.
Reap ==
  IF Exited
  THEN /\ child' = NoPid
       /\ proc' = [proc EXCEPT ![child] = Absent]
  ELSE UNCHANGED <<child, proc>>

\* Seeded fault: only successful requests are persisted.
FinishSavesSuccess(r) ==
  /\ result' = r
  /\ op' = IF req.kind = "autostart" THEN "idle"
           ELSE IF r = "ok" THEN "save" ELSE "reply"

\* The backend call has returned; every request is followed by a save,
\* whatever its outcome.
Finish(r) ==
  /\ result' = r
  /\ op' = IF req.kind = "autostart" THEN "idle" ELSE "save"

\* A process ends: its parent finds a zombie, an orphan is reaped by init.
Ended(p) == IF proc[p].orphan THEN Absent ELSE [proc[p] EXCEPT !.stage = "zombie"]

(***************************************************************************)
(* The daemon's life.                                                      *)
(***************************************************************************)
\* Seeded fault: what was read is used as it is.
LoadRaw == file

\* RuntimeState::load: anything unreadable is the default.
Load == IF file = Unreadable THEN Fallback ELSE file

\* main, up to the accept loop, with or without auto_start: the backend gets
\* both values of the loaded state.
Boot ==
  /\ op = "down"
  /\ prof' = Load.profile
  /\ adapt' = Load.adaptation
  /\ child' = NoPid
  /\ result' = "ok"
  /\ \/ op' = "idle" /\ req' = NoRequest
     \/ op' = "spawn" /\ req' = [NoRequest EXCEPT !.kind = "autostart"]
  /\ acked' = Load
  /\ saved' = "whole"
  /\ UNCHANGED <<file, proc, hb>>

\* The daemon dies, or leaves its accept loop on Ctrl-C; the scheduler it
\* started is not told.  Before the reply the client does not know whether its
\* request counted, so either value is an honest one.
Die ==
  /\ op # "down"
  /\ op' = "down"
  /\ child' = NoPid
  /\ proc' = [p \in Pids |->
                IF proc[p].stage = "zombie" THEN Absent
                ELSE IF Alive(p) THEN [proc[p] EXCEPT !.orphan = TRUE, !.arg = Default]
                ELSE proc[p]]
  /\ saved' = IF op = "write" THEN "cut" ELSE saved
  /\ acked' = IF op = "reply" THEN Current ELSE acked
  /\ req' = NoRequest
  /\ result' = "ok" /\ prof' = Default /\ adapt' = FALSE
  /\ UNCHANGED <<file, hb>>

(***************************************************************************)
(* Requests.                                                               *)
(***************************************************************************)
Accept ==
  /\ op = "idle"
  /\ \E k \in Kinds \ {"autostart"} : \E p \in Profiles \union {NoProfile} :
       /\ (k = "setProfile") = (p \in Profiles)
       /\ req' = [kind |-> k, profile |-> p]
  /\ op' = IF req'.kind = "stop" THEN "stop" ELSE "handle"
  /\ result' = "ok"
  /\ UNCHANGED <<child, prof, adapt, file, proc, hb, history>>

\* status (and get_profile, which the save below makes the same).
Status ==
  /\ op = "handle" /\ req.kind = "status"
  /\ Reap
  /\ Finish("ok")
  /\ UNCHANGED <<req, prof, adapt, file, hb, history>>

SetAdaptation ==
  /\ op = "handle" /\ req.kind \in {"pause", "resume"}
  /\ adapt' = (req.kind = "resume")
  /\ Finish("ok")
  /\ UNCHANGED <<req, child, prof, file, proc, hb, history>>

\* Seeded fault: the profile is stored without restarting the scheduler.
SetProfileNoRestart ==
  /\ op = "handle" /\ req.kind = "setProfile"
  /\ Reap
  /\ prof' = req.profile
  /\ Finish("ok")
  /\ UNCHANGED <<req, adapt, file, hb, history>>

\* set_profile: a running scheduler is stopped first.
SetProfile ==
  /\ op = "handle" /\ req.kind = "setProfile"
  /\ Reap
  /\ IF child' # NoPid
     THEN op' = "stop" /\ UNCHANGED <<result, prof>>
     ELSE prof' = req.profile /\ Finish("ok")
  /\ UNCHANGED <<req, adapt, file, hb, history>>

\* start, up to the spawn.
Start ==
  /\ op = "handle" /\ req.kind = "start"
  /\ Reap
  /\ IF child' # NoPid THEN Finish("error") ELSE op' = "spawn" /\ UNCHANGED result
  /\ UNCHANGED <<req, prof, adapt, file, hb, history>>

\* restart, up to its stop or its start.
Restart ==
  /\ op = "handle" /\ req.kind = "restart"
  /\ Reap
  /\ op' = IF child' # NoPid THEN "stop" ELSE "spawn"
  /\ UNCHANGED <<req, result, prof, adapt, file, hb, history>>

(***************************************************************************)
(* ScxBackend::stop.                                                       *)
(***************************************************************************)
\* Seeded fault: the profile of a set_profile that restarts is not stored.
AfterStopForgets ==
  IF result = "unhealthy" THEN Finish("unhealthy") /\ UNCHANGED prof
  ELSE IF req.kind = "stop" THEN Finish("ok") /\ UNCHANGED prof
  ELSE op' = "spawn" /\ UNCHANGED <<prof, result>>

\* What follows stop: nothing, the cleanup of a failed start, or a new start.
AfterStop ==
  IF result = "unhealthy" THEN Finish("unhealthy") /\ UNCHANGED prof
  ELSE IF req.kind = "stop" THEN Finish("ok") /\ UNCHANGED prof
  ELSE /\ prof' = IF req.kind = "setProfile" THEN req.profile ELSE prof
       /\ op' = "spawn"
       /\ UNCHANGED result

\* SIGTERM reaches p: without a handler it dies; with one, its loop may see the
\* flag (LeaveLoop).
Signalled(p) == IF proc[p].stage = "young" THEN Ended(p) ELSE proc[p]

\* stop reaps again, so a scheduler that died since the handler looked makes
\* it fail, and set_profile and restart with it.
Stop ==
  /\ op = "stop"
  /\ IF child = NoPid \/ Exited
     THEN Reap /\ Finish(IF result = "unhealthy" THEN "unhealthy" ELSE "error")
     ELSE /\ proc' = [proc EXCEPT ![child] = Signalled(child)]
          /\ op' = "terminating"
          /\ UNCHANGED <<result, child>>
  /\ UNCHANGED <<req, prof, adapt, file, hb, history>>

\* The poll of try_wait, and the wait after SIGKILL.
Collect ==
  /\ op \in {"terminating", "killed"}
  /\ Exited
  /\ Reap
  /\ AfterStop
  /\ UNCHANGED <<req, adapt, file, hb, history>>

\* Seeded faults: the deadline is never tested; the loop gives up on the child.
StopDeadlineNever == FALSE /\ UNCHANGED vars
StopDeadlineForgets ==
  /\ op = "terminating" /\ ~Exited
  /\ child' = NoPid
  /\ AfterStop
  /\ UNCHANGED <<req, adapt, file, proc, hb, history>>

\* Five seconds are over: SIGKILL is sent, and wait blocks until the child is dead.
StopDeadline ==
  /\ op = "terminating" /\ ~Exited
  /\ op' = "killed"
  /\ UNCHANGED <<req, result, child, prof, adapt, file, proc, hb, history>>

(***************************************************************************)
(* ScxBackend::start.                                                      *)
(***************************************************************************)
\* The binary is missing or the spawn fails; or a child exists.  A pid is
\* assumed not to be reused while a heartbeat of its last owner is fresh, or
\* while the reporter of its last owner is still there.
Spawn ==
  /\ op = "spawn"
  /\ \/ Finish("error") /\ UNCHANGED <<child, proc>>
     \/ \E p \in Pids :
          /\ proc[p].stage = "none" /\ hb # p
          /\ child' = p
          /\ proc' = [proc EXCEPT ![p] = [Absent EXCEPT !.stage = "young",
                                                        !.arg = prof]]
          /\ op' = "gate"
          /\ UNCHANGED result
  /\ UNCHANGED <<req, prof, adapt, file, hb, history>>

\* wait_until_healthy: reap, then the first half of scheduler_is_healthy.
\* (kill with signal 0 succeeds for an unreaped child.)
Gate ==
  /\ op = "gate"
  /\ IF Exited
     THEN Reap /\ result' = "unhealthy" /\ op' = "stop"
     ELSE /\ Enabled
          /\ op' = "heartbeat"
          /\ UNCHANGED <<result, child, proc>>
  /\ UNCHANGED <<req, prof, adapt, file, hb, history>>

\* Seeded fault: the record of any scheduler will do.
HeartbeatOfAnyone(p) == hb # NoPid

\* heartbeat_is_fresh, for a record that says running and healthy.
HeartbeatIsFresh(p) == hb = p

\* The second half: a poll that fails is repeated.
Heartbeat ==
  /\ op = "heartbeat"
  /\ IF HeartbeatIsFresh(child) THEN Finish("ok") ELSE op' = "gate" /\ UNCHANGED result
  /\ UNCHANGED <<req, child, prof, adapt, file, proc, hb, history>>

\* Seeded fault: a failed start leaves the child to itself.
GateDeadlineLeaves ==
  /\ op = "gate"
  /\ child' = NoPid
  /\ Finish("unhealthy")
  /\ UNCHANGED <<req, prof, adapt, file, proc, hb, history>>

\* ensure_healthy_startup: fifteen seconds are over, the child is stopped.
GateDeadline ==
  /\ op = "gate"
  /\ result' = "unhealthy"
  /\ op' = "stop"
  /\ UNCHANGED <<req, child, prof, adapt, file, proc, hb, history>>

(***************************************************************************)
(* Persistence and the answer.                                             *)
(***************************************************************************)
\* status() once more, then fs::write truncates the file, unless the directory or
\* the file cannot be opened...
SaveTruncates ==
  /\ op = "save"
  /\ Reap
  /\ \/ op' = "write" /\ file' = Unreadable /\ UNCHANGED saved
     \/ op' = "reply" /\ saved' = "failed" /\ UNCHANGED file
  /\ UNCHANGED <<req, result, prof, adapt, hb, acked>>

\* ... and fills it, unless the disk is full.  Either failure is only a warning:
\* the client gets the outcome of its request all the same.
SaveWrites ==
  /\ op = "write"
  /\ \/ file' = Current /\ saved' = "whole"
     \/ saved' = "failed" /\ UNCHANGED file
  /\ op' = "reply"
  /\ UNCHANGED <<req, result, child, prof, adapt, proc, hb, acked>>

Reply ==
  /\ op = "reply"
  /\ op' = "idle"
  /\ acked' = Current
  /\ req' = NoRequest
  /\ result' = "ok"
  /\ UNCHANGED <<child, prof, adapt, file, proc, hb, saved>>

(***************************************************************************)
(* Scheduler processes.                                                    *)
(***************************************************************************)
Become(p, s) == proc' = [proc EXCEPT ![p].stage = s]

\* set_ctrlc_handler, at the start of BpfScheduler::init.
InstallHandler(p) ==
  /\ proc[p].stage = "young"
  /\ Become(p, "init")
  /\ UNCHANGED <<daemonVars, file, hb, history>>

\* BpfScheduler::init attaches, unless another scheduler is attached.
Attach(p) ==
  /\ proc[p].stage = "init" /\ ~Enabled
  /\ proc' = [proc EXCEPT ![p].stage = "attached", ![p].attached = TRUE]
  /\ UNCHANGED <<daemonVars, file, hb, history>>

InitFails(p) ==
  /\ proc[p].stage = "init"
  /\ Become(p, "exiting")
  /\ UNCHANGED <<daemonVars, file, hb, history>>

\* Seeded fault: the first snapshot is sent before the scheduler has attached.
PublishEarly(p) ==
  /\ proc[p].stage \in {"init", "attached"}
  /\ hb' = p
  /\ UNCHANGED <<daemonVars, file, proc, history>>

\* The reporter's write of the record.  It has something to write once write_stats
\* of an attached scheduler has run; it is killed and reaped when the scheduler
\* detaches, but outlives one that is killed for a moment.
Publish(p) ==
  /\ proc[p].attached \/ proc[p].stage = "none"
  /\ hb' = p
  /\ UNCHANGED <<daemonVars, file, proc, history>>

\* The loop sees its shutdown flag, or the kernel has ejected the scheduler.
\* No fairness: a hung loop, or one that lost its flag, may ignore SIGTERM.
LeaveLoop(p) ==
  /\ proc[p].stage = "attached"
  /\ Become(p, "exiting")
  /\ UNCHANGED <<daemonVars, file, hb, history>>

\* CPU hotplug: the kernel ejects the scheduler and run_scheduler initialises
\* it again.
Hotplug(p) ==
  /\ proc[p].stage = "attached"
  /\ Become(p, "init")
  /\ UNCHANGED <<daemonVars, file, hb, history>>

\* main writes the stopped record, if it can, and returns.
Exit(p) ==
  /\ proc[p].stage = "exiting"
  /\ hb' \in {NoPid, hb}
  /\ proc' = [proc EXCEPT ![p] = Ended(p)]
  /\ UNCHANGED <<daemonVars, file, history>>

\* A panic, the OOM killer, an administrator, the SIGKILL of stop: no record is
\* written.
Killed(p) ==
  /\ Alive(p)
  /\ proc' = [proc EXCEPT ![p] = Ended(p)]
  /\ UNCHANGED <<daemonVars, file, hb, history>>

\* Ten seconds pass, or two writers spoil the file.
HeartbeatExpires ==
  /\ hb # NoPid
  /\ hb' = NoPid
  /\ UNCHANGED <<daemonVars, file, proc, history>>

(***************************************************************************)
(* Specification.                                                          *)
(***************************************************************************)
DaemonStep ==
  \/ Status \/ SetAdaptation \/ SetProfile \/ Start \/ Restart
  \/ Stop \/ Collect \/ Spawn \/ Gate \/ Heartbeat
  \/ SaveTruncates \/ SaveWrites \/ Reply

ProcessStep(p) ==
  \/ InstallHandler(p) \/ Attach(p) \/ InitFails(p) \/ Publish(p)
  \/ LeaveLoop(p) \/ Hotplug(p) \/ Exit(p) \/ Killed(p)

Next ==
  \/ Boot \/ Die \/ Accept \/ DaemonStep \/ StopDeadline \/ GateDeadline
  \/ \E p \in Pids : ProcessStep(p)
  \/ HeartbeatExpires

Spec == Init /\ [][Next]_vars

\* The kernel gets to the process that was sent SIGKILL.
KillDelivered == op = "killed" /\ Killed(child)

\* The daemon's own code runs on; both deadlines are tested by loops that come
\* back to the test until the time is over.  Of schedulers nothing is assumed but
\* that SIGKILL ends them.
Fairness ==
  /\ WF_vars(DaemonStep) /\ WF_vars(StopDeadline) /\ SF_vars(GateDeadline)
  /\ WF_vars(KillDelivered)

FairSpec == Spec /\ Fairness

(***************************************************************************)
(* Properties.                                                             *)
(***************************************************************************)
\* The safety gate of start: a start is reported successful only if the very
\* process it spawned has attached, even when another scheduler, left over
\* from an earlier daemon, is attached and publishes fresh heartbeats.
AckedStartWasAttached ==
  [][op = "heartbeat" /\ op' \in {"save", "idle"} => proc[child].attached]_vars

\* The daemon never loses a process it has started: every scheduler that is
\* not left over from an earlier daemon is the tracked child, until reaped.
NoUntrackedChild ==
  \A p \in Pids : proc[p].stage # "none" /\ ~proc[p].orphan => p = child

\* A stop that was answered with success, and a start that was answered with
\* a failed health test, leave no process of this daemon behind.
NothingLeftBehind ==
  op = "reply" /\ (result = "unhealthy" \/ (req.kind = "stop" /\ result = "ok"))
    => \A p \in Pids : proc[p].stage = "none" \/ proc[p].orphan

\* The tracked scheduler runs with the profile the daemon reports.
ProfileInForce == child # NoPid => proc[child].arg = prof

\* A restarted daemon has the profile and the adaptation switch of the last
\* answered request, unless the last save failed or the daemon died in it; a save
\* that failed is made up for by the next request, whatever that one asks.
SettingsSurvive ==
  [][op = "down" /\ op' # "down" =>
       saved # "whole" \/ [profile |-> prof', adaptation |-> adapt'] = acked]_vars

\* "profile/adaptation changes survive a daemon restart" when no save fails: the
\* code reports one that does and goes on.
SettingsAlwaysSurvive ==
  [][op = "down" /\ op' # "down" =>
       saved = "failed" \/ [profile |-> prof', adaptation |-> adapt'] = acked]_vars

\* The request and its outcome as the control socket shows them.
Asked == [type    |-> CASE req.kind = "status"     -> "status"
                        [] req.kind = "setProfile" -> "set-profile"
                        [] OTHER                   -> "start",
          profile |-> req.profile]

Answer == IF result # "ok" THEN "error" ELSE IF req.kind = "status" THEN prof ELSE "success"

\* The handler, however many steps and failures it is made of, is the one atomic
\* step that RequestConnection takes it for: status answers with the profile
\* that was in force before, a change of the profile that succeeds has stored
\* it, one that fails has stored it or not, and nothing else touches it.
OutcomeAsPromised ==
  op \in {"save", "write", "reply"} =>
    [answer |-> Answer, value |-> prof] \in Effects(Asked, acked.profile)

\* What the contract between daemon and schedulers speaks of.
Untried == {p \in Pids : Alive(p) /\ ~proc[p].attached}
Holders == {p \in Pids : proc[p].stage = "attached"}

Contract == INSTANCE SchedulerContract WITH
  untried <- Untried, holders <- Holders, record <- hb

\* Scheduler processes keep the contract on which the start gate rests, whoever
\* has started them, through hotplugs, crashes and a daemon that dies: only one
\* is attached, and no record names one that has not attached yet.
ImplementsContract == Contract!Spec

(***************************************************************************)
(* The inductive invariant behind the safety properties.                   *)
(***************************************************************************)
\* The tracked child exists and is this daemon's; the steps between a spawn and
\* the end of a stop have one, a spawn replaces none.
ChildInv ==
  /\ child # NoPid => proc[child].stage # "none" /\ ~proc[child].orphan
  /\ op \in {"terminating", "killed", "gate", "heartbeat"} => child # NoPid
  /\ op \in {"spawn", "down"} => child = NoPid

RequestInv ==
  /\ req.kind = "setProfile" => req.profile \in Profiles
  /\ op \in {"spawn", "gate", "heartbeat"} => req.kind # "stop"

\* No child from the end of a stop or of a failed start to the answer.
EndedInv ==
  op \in {"save", "write", "reply"}
  /\ (result = "unhealthy" \/ (req.kind = "stop" /\ result = "ok"))
    => child = NoPid

\* Except while it is rewritten, and until the next save after one that failed,
\* the file holds what the last answer left.
RecoveryInv ==
  /\ op \notin {"write", "reply"} /\ saved = "whole" => Load = acked
  /\ op = "reply" /\ saved = "whole" => file = Current
  /\ saved = "cut" => op = "down"

\* A fresh record of a live process was written by that process.
RecordInv ==
  /\ \A p \in Pids : proc[p].stage = "attached" => proc[p].attached
  /\ hb \in Pids /\ proc[hb].stage # "none" => proc[hb].attached

\* The profile is that of the last answer until set_profile stores another, which
\* it does before it starts the scheduler again.
OutcomeInv ==
  /\ op # "down" /\ ~(req.kind = "setProfile" /\ op \notin {"idle", "handle"})
       => prof = acked.profile
  /\ op # "down" /\ req.kind = "setProfile" =>
       /\ prof \in {acked.profile, req.profile}
       /\ op \in {"spawn", "gate", "heartbeat"}
          \/ (op \in {"save", "write", "reply"} /\ result = "ok")
            => prof = req.profile
  /\ req.kind = "status" => op \in {"idle", "handle", "save", "write", "reply", "down"}
  /\ req.kind = "status" /\ op \in {"save", "write", "reply"} => result = "ok"

IInv ==
  /\ TypeOK /\ NoUntrackedChild /\ ProfileInForce
  /\ ChildInv /\ RequestInv /\ EndedInv /\ RecoveryInv /\ RecordInv /\ OutcomeInv

(***************************************************************************)
(* Liveness.                                                               *)
(***************************************************************************)
\* A request is answered however its scheduler behaves, unless the daemon dies.
RequestAnswered == op \notin {"idle", "down"} ~> op \in {"idle", "down"}
=============================================================================
