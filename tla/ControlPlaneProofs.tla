------------------------- MODULE ControlPlaneProofs -------------------------
(***************************************************************************)
(* Safety of ControlPlane, for every set of pids and profiles.             *)
(*                                                                         *)
(* One inductive invariant, IInv, carries all of it.  Each conjunct has a  *)
(* lemma of its own for the steps that can disturb it; the lemmas need the *)
(* types and a few other conjuncts of the state before the step.           *)
(***************************************************************************)
EXTENDS ControlPlane, TLAPS

(***************************************************************************)
(* Types.                                                                  *)
(***************************************************************************)
\* The values that an entry of the process table takes.
LEMMA AbsentType == Absent \in Process
  BY ControlAssumption DEF Absent, Process, Stages

LEMMA StageType ==
  ASSUME NEW q \in Process, NEW s \in Stages
  PROVE  [q EXCEPT !.stage = s] \in Process
  BY DEF Process

LEMMA EndedType ==
  ASSUME TypeOK, NEW p \in Pids
  PROVE  Ended(p) \in Process
<1>1. proc[p] \in Process
  BY DEF TypeOK
<1>2. "zombie" \in Stages
  BY DEF Stages
<1> QED
  BY <1>1, <1>2, AbsentType, StageType DEF Ended

\* Reaping forgets the child or changes nothing.
LEMMA ReapType ==
  ASSUME TypeOK, Reap
  PROVE  /\ child' \in {child, NoPid}
         /\ child' \in Pids \union {NoPid}
         /\ proc' \in [Pids -> Process]
         /\ child' # NoPid => proc' = proc
         /\ Exited => child' = NoPid
  BY ControlAssumption, AbsentType DEF TypeOK, Reap, Exited

\* What the loader returns.
LEMMA LoadType ==
  ASSUME TypeOK
  PROVE  /\ Load \in Settings
         /\ Load.profile \in Profiles
         /\ Load.adaptation \in BOOLEAN
<1>1. Fallback \in Settings
  BY ControlAssumption DEF Fallback, Settings
<1>2. Load \in Settings
  BY <1>1 DEF Load, TypeOK
<1> QED
  BY <1>2 DEF Settings

LEMMA InitHolds == Init => IInv
<1> SUFFICES ASSUME Init PROVE IInv
  OBVIOUS
<1> USE ControlAssumption DEF Init
<1>1. \A p \in Pids : proc[p].stage = "none" /\ ~proc[p].orphan
  BY DEF Absent
<1>2. Fallback \in Settings
  BY DEF Fallback, Settings
<1>3. TypeOK
  BY <1>2, AbsentType DEF TypeOK, Ops, Kinds, NoRequest
<1>4. NoUntrackedChild /\ ProfileInForce
  BY <1>1 DEF NoUntrackedChild, ProfileInForce
<1>5. ChildInv /\ EndedInv
  BY DEF ChildInv, EndedInv
<1>6. RequestInv
  BY DEF RequestInv, NoRequest
<1>7. RecoveryInv
  BY DEF RecoveryInv, Load
<1>8. RecordInv
  BY <1>1 DEF RecordInv
<1>9. OutcomeInv
  BY DEF OutcomeInv, NoRequest
<1> QED
  BY <1>3, <1>4, <1>5, <1>6, <1>7, <1>8, <1>9 DEF IInv

LEMMA TypeStep ==
  ASSUME TypeOK, RequestInv, ChildInv, [Next]_vars
  PROVE  TypeOK'
<1> USE ControlAssumption DEF TypeOK, Ops
<1> DEFINE Fixed == UNCHANGED <<daemonVars, file, history>>
<1>1. ASSUME NEW p \in Pids, NEW r \in Process, NEW h \in Pids \union {NoPid},
             proc' = [proc EXCEPT ![p] = r] \/ UNCHANGED proc, hb' = h, Fixed
      PROVE  TypeOK'
  BY <1>1 DEF daemonVars, history
<1>2. ASSUME NEW p \in Pids, ProcessStep(p) PROVE TypeOK'
  <2> DEFINE Staged(s) == [proc[p] EXCEPT !.stage = s]
  <2>1. \A s \in Stages : Staged(s) \in Process
    BY StageType
  <2>2. \A s \in Stages : Become(p, s) => proc' = [proc EXCEPT ![p] = Staged(s)]
    BY DEF Become
  <2>3. Ended(p) \in Process
    BY EndedType
  <2>4. {"init", "attached", "exiting"} \subseteq Stages
    BY DEF Stages
  <2> HIDE DEF Staged
  <2>5. CASE InstallHandler(p) \/ Hotplug(p)
    <3>1. Staged("init") \in Process
      BY <2>1, <2>4
    <3> QED
      BY <1>1, <2>2, <2>4, <2>5, <3>1 DEF InstallHandler, Hotplug
  <2>6. CASE InitFails(p) \/ LeaveLoop(p)
    <3>1. Staged("exiting") \in Process
      BY <2>1, <2>4
    <3> QED
      BY <1>1, <2>2, <2>4, <2>6, <3>1 DEF InitFails, LeaveLoop
  <2>7. CASE Attach(p)
    <3> DEFINE r == [[proc[p] EXCEPT !.stage = "attached"] EXCEPT !.attached = TRUE]
    <3>1. r \in Process
      BY <2>4 DEF Process
    <3>2. proc' = [proc EXCEPT ![p] = r]
      BY <2>7 DEF Attach
    <3> HIDE DEF r
    <3> QED
      BY <1>1, <2>7, <3>1, <3>2 DEF Attach
  <2>8. CASE Publish(p)
    BY <1>1, <2>8 DEF Publish
  <2>9. CASE Exit(p) \/ Killed(p)
    <3>1. hb' \in {NoPid, hb} /\ Fixed /\ proc' = [proc EXCEPT ![p] = Ended(p)]
      BY <2>9 DEF Exit, Killed
    <3> QED
      BY <1>1, <2>3, <3>1
  <2> QED
    BY <1>2, <2>5, <2>6, <2>7, <2>8, <2>9 DEF ProcessStep
<1>3. CASE Boot
  <2>1. NoRequest \in [kind : Kinds, profile : Profiles \union {NoProfile}]
    BY DEF NoRequest, Kinds
  <2>2. [NoRequest EXCEPT !.kind = "autostart"] \in [kind : Kinds, profile : Profiles \union {NoProfile}]
    BY DEF NoRequest, Kinds
  <2> QED
    BY <1>3, <2>1, <2>2, LoadType DEF Boot
<1>4. CASE Die
  <2>1. \A p \in Pids : [proc[p] EXCEPT !.orphan = TRUE, !.arg = Default] \in Process
    BY ControlAssumption DEF Process
  <2>2. proc' \in [Pids -> Process]
    BY <1>4, <2>1, AbsentType DEF Die
  <2>3. Current \in Settings
    BY DEF Current, Settings
  <2>4. NoRequest \in [kind : Kinds, profile : Profiles \union {NoProfile}]
    BY DEF NoRequest, Kinds
  <2> QED
    BY <1>4, <2>2, <2>3, <2>4, ControlAssumption DEF Die
<1>5. CASE Accept
  BY <1>5 DEF Accept, history
<1>6. CASE Status \/ SaveTruncates
  <2>1. Reap
    BY <1>6 DEF Status, SaveTruncates
  <2> QED
    BY <1>6, <2>1, ReapType DEF Status, SaveTruncates, Finish, history
<1>7. CASE SetAdaptation
  BY <1>7 DEF SetAdaptation, Finish, history
<1>8. CASE SetProfile
  <2>1. Reap
    BY <1>8 DEF SetProfile
  <2>2. req.profile \in Profiles
    BY <1>8 DEF SetProfile, RequestInv
  <2> QED
    BY <1>8, <2>1, <2>2, ReapType DEF SetProfile, Finish, history
<1>9. CASE Start \/ Restart
  <2>1. Reap
    BY <1>9 DEF Start, Restart
  <2> QED
    BY <1>9, <2>1, ReapType DEF Start, Restart, Finish, history
<1>10. CASE Stop
  <2>1. CASE child = NoPid \/ Exited
    <3>1. Reap
      BY <1>10, <2>1 DEF Stop
    <3> QED
      BY <1>10, <2>1, <3>1, ReapType DEF Stop, Finish, history
  <2>2. CASE ~(child = NoPid \/ Exited)
    <3>1. Signalled(child) \in Process
      BY <2>2, EndedType DEF Signalled
    <3> QED
      BY <1>10, <2>2, <3>1 DEF Stop, history
  <2> QED
    BY <2>1, <2>2
<1>11. CASE Collect
  <2>1. Reap
    BY <1>11 DEF Collect
  <2>2. prof' \in Profiles
    BY <1>11 DEF Collect, AfterStop, RequestInv
  <2>3. op' \in Ops /\ result' \in {"ok", "error", "unhealthy"}
    BY <1>11 DEF Collect, AfterStop, Finish
  <2> QED
    BY <1>11, <2>1, <2>2, <2>3, ReapType DEF Collect, history
<1>12. CASE Spawn
  <2>1. [Absent EXCEPT !.stage = "young", !.arg = prof] \in Process
    BY AbsentType DEF Process, Stages
  <2> DEFINE new == [Absent EXCEPT !.stage = "young", !.arg = prof]
  <2>2. \A p \in Pids : proc' = [proc EXCEPT ![p] = new] => proc' \in [Pids -> Process]
    BY <2>1
  <2> HIDE DEF new
  <2>3. proc' \in [Pids -> Process]
    BY <1>12, <2>2 DEF Spawn, new
  <2> QED
    BY <1>12, <2>3 DEF Spawn, Finish, history
<1>13. CASE Gate
  <2>1. CASE Exited
    <3>1. Reap
      BY <1>13, <2>1 DEF Gate
    <3> QED
      BY <1>13, <2>1, <3>1, ReapType DEF Gate, history
  <2>2. CASE ~Exited
    BY <1>13, <2>2 DEF Gate, history
  <2> QED
    BY <2>1, <2>2
<1>14. CASE Heartbeat \/ GateDeadline
  BY <1>14 DEF Heartbeat, GateDeadline, Finish, history
<1>15. CASE StopDeadline
  BY <1>15 DEF StopDeadline, history
<1>16. CASE SaveWrites \/ Reply
  <2>1. Current \in Settings
    BY DEF Current, Settings
  <2>2. NoRequest \in [kind : Kinds, profile : Profiles \union {NoProfile}]
    BY DEF NoRequest, Kinds
  <2> QED
    BY <1>16, <2>1, <2>2 DEF SaveWrites, Reply, history
<1>17. CASE HeartbeatExpires
  BY <1>17 DEF HeartbeatExpires, daemonVars, history
<1>18. CASE UNCHANGED vars
  BY <1>18 DEF vars
<1> QED
  BY <1>2, <1>3, <1>4, <1>5, <1>6, <1>7, <1>8, <1>9, <1>10, <1>11, <1>12, <1>13,
     <1>14, <1>15, <1>16, <1>17, <1>18 DEF Next, DaemonStep

(***************************************************************************)
(* The process table and the tracked child.                                *)
(***************************************************************************)
TableInv == NoUntrackedChild /\ ProfileInForce /\ ChildInv

\* What a scheduler process may do to the entry of process q: leave it, remove
\* it if q is an orphan, or change its stage only.
Undisturbed(q) ==
  \/ proc'[q] = proc[q]
  \/ proc[q].orphan /\ proc'[q] = Absent
  \/ /\ proc[q].stage # "none" /\ proc'[q].stage # "none"
     /\ proc'[q].orphan = proc[q].orphan
     /\ proc'[q].arg = proc[q].arg

\* A process that exists and gets another stage, or ends.
LEMMA EntryMoves ==
  ASSUME TypeOK, NEW p \in Pids, proc[p].stage # "none",
         NEW r \in Process, proc' = [proc EXCEPT ![p] = r],
         \/ r = Ended(p)
         \/ r.stage # "none" /\ r.orphan = proc[p].orphan /\ r.arg = proc[p].arg
  PROVE  \A q \in Pids : Undisturbed(q)
<1>1. proc[p] \in Process /\ proc'[p] = r
  BY DEF TypeOK
<1>2. \A q \in Pids : q # p => proc'[q] = proc[q]
  BY DEF TypeOK
<1>3. r = Ended(p) => Undisturbed(p)
  BY <1>1 DEF Ended, Undisturbed, Process
<1> QED
  BY <1>1, <1>2, <1>3 DEF Undisturbed

LEMMA ProcessMoves ==
  ASSUME TypeOK, NEW p \in Pids, ProcessStep(p)
  PROVE  UNCHANGED daemonVars /\ (\A q \in Pids : Undisturbed(q))
<1>1. proc[p] \in Process
  BY DEF TypeOK
<1> DEFINE Staged(s) == [proc[p] EXCEPT !.stage = s]
<1>2. \A s \in Stages : Staged(s) \in Process /\ Staged(s).stage = s
                        /\ Staged(s).orphan = proc[p].orphan
                        /\ Staged(s).arg = proc[p].arg
  BY <1>1 DEF Process
<1>3. \A s : Become(p, s) => proc' = [proc EXCEPT ![p] = Staged(s)]
  BY DEF Become
<1>4. {"init", "attached", "exiting"} \subseteq Stages
  BY DEF Stages
<1> HIDE DEF Staged
<1>5. CASE InstallHandler(p) \/ Hotplug(p)
  BY <1>2, <1>3, <1>4, <1>5, EntryMoves DEF InstallHandler, Hotplug
<1>6. CASE InitFails(p) \/ LeaveLoop(p)
  BY <1>2, <1>3, <1>4, <1>6, EntryMoves DEF InitFails, LeaveLoop
<1>7. CASE Attach(p)
  <2> DEFINE r == [[proc[p] EXCEPT !.stage = "attached"] EXCEPT !.attached = TRUE]
  <2>1. /\ r \in Process /\ r.stage = "attached" /\ r.orphan = proc[p].orphan
        /\ r.arg = proc[p].arg
    BY <1>1, <1>4 DEF Process
  <2>2. proc' = [proc EXCEPT ![p] = r]
    BY <1>7 DEF Attach
  <2> HIDE DEF r
  <2> QED
    BY <1>7, <2>1, <2>2, EntryMoves DEF Attach
<1>8. CASE Publish(p)
  BY <1>8 DEF Publish, Undisturbed
<1>9. CASE Exit(p) \/ Killed(p)
  BY <1>9, EndedType, EntryMoves DEF Exit, Killed, Alive
<1> QED
  BY <1>5, <1>6, <1>7, <1>8, <1>9 DEF ProcessStep

\* Undisturbed entries keep the invariant when the daemon does not lose its
\* child.
LEMMA UndisturbedTable ==
  ASSUME TypeOK, TableInv, \A q \in Pids : Undisturbed(q),
         UNCHANGED <<child, prof>>
  PROVE  /\ NoUntrackedChild' /\ ProfileInForce'
         /\ child' # NoPid => proc'[child'].stage # "none" /\ ~proc'[child'].orphan
  BY ControlAssumption DEF TypeOK, TableInv, NoUntrackedChild, ProfileInForce, ChildInv,
     Undisturbed, Absent

\* So does reaping, which leaves no process of this daemon if it reaps.
LEMMA ReapTable ==
  ASSUME TypeOK, TableInv, Reap
  PROVE  /\ NoUntrackedChild'
         /\ child' # NoPid => /\ proc'[child'].stage # "none" /\ ~proc'[child'].orphan
                              /\ proc'[child'].arg = prof
  BY ControlAssumption DEF TypeOK, TableInv, NoUntrackedChild, ProfileInForce, ChildInv,
     Reap, Exited, Absent

LEMMA TableStep ==
  ASSUME TypeOK, RequestInv, TableInv, [Next]_vars
  PROVE  TableInv'
<1> USE ControlAssumption DEF TableInv
<1>1. ASSUME Reap, UNCHANGED prof,
             op' \in {"terminating", "killed", "gate", "heartbeat"} => child' # NoPid,
             op' \in {"spawn", "down"} => child' = NoPid
      PROVE  TableInv'
  BY <1>1, ReapTable DEF ProfileInForce, ChildInv
<1>2. ASSUME \A q \in Pids : Undisturbed(q), UNCHANGED <<child, prof>>,
             op' \in {"terminating", "killed", "gate", "heartbeat"} => child # NoPid,
             op' \in {"spawn", "down"} => child = NoPid
      PROVE  TableInv'
  BY <1>2, UndisturbedTable DEF ChildInv
<1>3. UNCHANGED proc => \A q \in Pids : Undisturbed(q)
  BY DEF Undisturbed
<1>4. ASSUME NEW p \in Pids, ProcessStep(p) PROVE TableInv'
  BY <1>2, <1>4, ProcessMoves DEF daemonVars, ChildInv
<1>5. CASE Boot
  <2>1. \A p \in Pids : proc[p].stage = "none" \/ proc[p].orphan
    BY <1>5 DEF Boot, NoUntrackedChild, ChildInv
  <2> QED
    BY <1>5, <2>1 DEF Boot, NoUntrackedChild, ProfileInForce, ChildInv
<1>6. CASE Die
  <2>1. \A p \in Pids : proc'[p].stage = "none" \/ proc'[p].orphan
    BY <1>6 DEF Die, Alive, Absent, TypeOK, Process
  <2> QED
    BY <1>6, <2>1 DEF Die, NoUntrackedChild, ProfileInForce, ChildInv
<1>7. CASE Accept \/ SetAdaptation
  BY <1>2, <1>3, <1>7 DEF Accept, SetAdaptation, Finish
<1>8. CASE Status \/ SaveTruncates
  BY <1>1, <1>8 DEF Status, SaveTruncates, Finish
<1>9. CASE SetProfile
  <2>1. Reap
    BY <1>9 DEF SetProfile
  <2> QED
    BY <1>9, <2>1, ReapTable DEF SetProfile, Finish, ProfileInForce, ChildInv
<1>10. CASE Start \/ Restart
  BY <1>1, <1>10 DEF Start, Restart, Finish
<1>11. CASE Stop
  <2>1. CASE child = NoPid \/ Exited
    BY <1>1, <1>11, <2>1 DEF Stop, Finish
  <2>2. CASE ~(child = NoPid \/ Exited)
    <3>1. child \in Pids /\ proc[child] \in Process /\ proc[child].stage # "none"
      BY <2>2 DEF TypeOK, ChildInv
    <3>2. /\ Signalled(child) \in Process
          /\ Signalled(child) = Ended(child) \/ Signalled(child) = proc[child]
      BY <3>1, EndedType DEF Signalled
    <3>3. proc' = [proc EXCEPT ![child] = Signalled(child)]
      BY <1>11, <2>2 DEF Stop
    <3>4. \A q \in Pids : Undisturbed(q)
      BY <3>1, <3>2, <3>3, EntryMoves
    <3> QED
      BY <1>2, <1>11, <2>2, <3>4 DEF Stop
  <2> QED
    BY <2>1, <2>2
<1>12. CASE Collect
  <2>1. Reap /\ Exited
    BY <1>12 DEF Collect
  <2>2. child' = NoPid
    BY <2>1, ReapType
  <2>3. op' \notin {"terminating", "killed", "gate", "heartbeat"}
    BY <1>12 DEF Collect, AfterStop, Finish
  <2> QED
    BY <2>1, <2>2, <2>3, ReapTable DEF ProfileInForce, ChildInv
<1>13. CASE Spawn
  <2>1. CASE Finish("error") /\ UNCHANGED <<child, proc>>
    BY <1>2, <1>3, <1>13, <2>1 DEF Spawn, Finish
  <2>2. CASE ~(Finish("error") /\ UNCHANGED <<child, proc>>)
    <3> DEFINE new == [Absent EXCEPT !.stage = "young", !.arg = prof]
    <3>1. PICK p \in Pids : /\ child' = p /\ op' = "gate"
                            /\ proc' = [proc EXCEPT ![p] = new]
      BY <1>13, <2>2 DEF Spawn
    <3>2. new.stage = "young" /\ ~new.orphan /\ new.arg = prof
      BY DEF Absent
    <3> HIDE DEF new
    <3>3. proc'[p] = new /\ (\A q \in Pids : q # p => proc'[q] = proc[q])
      BY <3>1 DEF TypeOK
    <3>4. \A q \in Pids : proc[q].stage = "none" \/ proc[q].orphan
      BY <1>13 DEF Spawn, NoUntrackedChild, ChildInv
    <3>5. UNCHANGED prof
      BY <1>13 DEF Spawn
    <3> QED
      BY <3>1, <3>2, <3>3, <3>4, <3>5 DEF NoUntrackedChild, ProfileInForce, ChildInv
  <2> QED
    BY <2>1, <2>2
<1>14. CASE Gate
  <2>1. CASE Exited
    BY <1>1, <1>14, <2>1 DEF Gate
  <2>2. CASE ~Exited
    BY <1>2, <1>3, <1>14, <2>2 DEF Gate, ChildInv
  <2> QED
    BY <2>1, <2>2
<1>15. CASE Heartbeat \/ GateDeadline
  BY <1>2, <1>3, <1>15 DEF Heartbeat, GateDeadline, Finish, ChildInv
<1>16. CASE StopDeadline
  BY <1>2, <1>3, <1>16 DEF StopDeadline, ChildInv
<1>17. CASE SaveWrites \/ Reply
  BY <1>2, <1>3, <1>17 DEF SaveWrites, Reply
<1>18. CASE HeartbeatExpires \/ UNCHANGED vars
  BY <1>2, <1>3, <1>18 DEF HeartbeatExpires, daemonVars, vars, ChildInv
<1> QED
  BY <1>4, <1>5, <1>6, <1>7, <1>8, <1>9, <1>10, <1>11, <1>12, <1>13, <1>14, <1>15,
     <1>16, <1>17, <1>18 DEF Next, DaemonStep

(***************************************************************************)
(* The remaining conjuncts.                                                *)
(***************************************************************************)
LEMMA RequestStep ==
  ASSUME TypeOK, RequestInv, [Next]_vars
  PROVE  RequestInv'
<1> USE DEF RequestInv
<1>1. ASSUME NEW p \in Pids, ProcessStep(p) PROVE RequestInv'
  BY <1>1, ProcessMoves DEF daemonVars
<1>2. CASE Boot
  BY <1>2 DEF Boot, NoRequest
<1>3. CASE Accept
  BY <1>3 DEF Accept
<1>4. CASE Status \/ SetAdaptation \/ SetProfile \/ Start \/ Restart
  BY <1>4 DEF Status, SetAdaptation, SetProfile, Start, Restart, Finish
<1>5. CASE Stop \/ Collect
  BY <1>5 DEF Stop, Collect, AfterStop, Finish
<1>6. CASE Spawn \/ Gate \/ Heartbeat \/ GateDeadline
  BY <1>6 DEF Spawn, Gate, Heartbeat, GateDeadline, Finish
<1>7. CASE SaveTruncates \/ SaveWrites \/ StopDeadline
  BY <1>7 DEF SaveTruncates, SaveWrites, StopDeadline
<1>8. CASE HeartbeatExpires \/ UNCHANGED vars
  BY <1>8 DEF HeartbeatExpires, daemonVars, vars
<1>9. CASE Die \/ Reply
  <2>1. req' = NoRequest /\ op' \in {"down", "idle"}
    BY <1>9 DEF Die, Reply
  <2> QED
    BY <2>1 DEF NoRequest
<1> QED
  BY <1>1, <1>2, <1>3, <1>4, <1>5, <1>6, <1>7, <1>8, <1>9 DEF Next, DaemonStep

LEMMA EndedStep ==
  ASSUME TypeOK, RequestInv, ChildInv, EndedInv, [Next]_vars
  PROVE  EndedInv'
<1> USE DEF EndedInv
<1>1. ASSUME NEW p \in Pids, ProcessStep(p) PROVE EndedInv'
  BY <1>1, ProcessMoves DEF daemonVars
<1>2. CASE Boot \/ Die \/ Accept \/ Reply
  BY <1>2 DEF Boot, Die, Accept, Reply
<1>3. CASE Status \/ SetAdaptation \/ SetProfile \/ Start \/ Restart
  BY <1>3 DEF Status, SetAdaptation, SetProfile, Start, Restart, Finish
<1>4. CASE Stop
  <2>1. CASE child = NoPid \/ Exited
    <3>1. Reap
      BY <1>4, <2>1 DEF Stop
    <3>2. child' = NoPid
      BY <2>1, <3>1, ReapType
    <3> QED
      BY <3>2
  <2>2. CASE ~(child = NoPid \/ Exited)
    BY <1>4, <2>2 DEF Stop
  <2> QED
    BY <2>1, <2>2
<1>5. CASE Collect
  BY <1>5, ReapType DEF Collect
<1>6. CASE Spawn \/ Gate \/ Heartbeat \/ GateDeadline
  BY <1>6 DEF Spawn, Gate, Heartbeat, GateDeadline, Finish, RequestInv
<1>7. CASE SaveTruncates
  BY <1>7, ReapType DEF SaveTruncates
<1>8. CASE SaveWrites \/ StopDeadline
  BY <1>8 DEF SaveWrites, StopDeadline
<1>9. CASE HeartbeatExpires \/ UNCHANGED vars
  BY <1>9 DEF HeartbeatExpires, daemonVars, vars
<1> QED
  BY <1>1, <1>2, <1>3, <1>4, <1>5, <1>6, <1>7, <1>8, <1>9 DEF Next, DaemonStep

\* A file that holds the current settings is readable, and loads as them.
LEMMA CurrentLoads ==
  ASSUME TypeOK, file = Current
  PROVE  Load = Current
  BY ControlAssumption DEF TypeOK, Load, Current, Unreadable

LEMMA RecoveryStep ==
  ASSUME TypeOK, RecoveryInv, [Next]_vars
  PROVE  RecoveryInv'
<1> USE DEF RecoveryInv
<1>1. ASSUME UNCHANGED <<op, prof, adapt, file, history>> PROVE RecoveryInv'
  BY <1>1 DEF history, Load, Current
<1>2. ASSUME UNCHANGED <<file, history>>,
             op \notin {"write", "reply", "down"},
             op' \notin {"write", "reply"}
      PROVE  RecoveryInv'
  BY <1>2 DEF history, Load
<1>3. ASSUME NEW p \in Pids, ProcessStep(p) PROVE RecoveryInv'
  <2>1. UNCHANGED <<file, history>>
    BY <1>3 DEF ProcessStep, InstallHandler, Attach, InitFails, Publish, LeaveLoop,
       Hotplug, Exit, Killed
  <2> QED
    BY <1>1, <1>3, <2>1, ProcessMoves DEF daemonVars
<1>4. CASE Boot
  BY <1>4 DEF Boot, Load
<1>5. CASE Die
  <2>1. UNCHANGED file /\ op' = "down"
    BY <1>5 DEF Die
  <2>2. Load' = Load
    BY <2>1 DEF Load
  <2>3. CASE op = "reply"
    BY <1>5, <2>1, <2>2, <2>3, CurrentLoads DEF Die
  <2>4. CASE op # "reply"
    BY <1>5, <2>1, <2>2, <2>4 DEF Die
  <2> QED
    BY <2>3, <2>4
<1>6. CASE Accept \/ Status \/ SetAdaptation
  BY <1>2, <1>6 DEF Accept, Status, SetAdaptation, Finish
<1>7. CASE SetProfile \/ Start \/ Restart
  BY <1>2, <1>7 DEF SetProfile, Start, Restart, Finish
<1>8. CASE Stop \/ Collect \/ StopDeadline
  BY <1>2, <1>8 DEF Stop, Collect, StopDeadline, AfterStop, Finish
<1>9. CASE Spawn \/ Gate \/ Heartbeat \/ GateDeadline
  BY <1>2, <1>9 DEF Spawn, Gate, Heartbeat, GateDeadline, Finish
<1>10. CASE SaveTruncates
  BY <1>10 DEF SaveTruncates
<1>11. CASE SaveWrites
  BY <1>11 DEF SaveWrites, Current
<1>12. CASE Reply
  BY <1>12, CurrentLoads DEF Reply, Load
<1>13. CASE HeartbeatExpires \/ UNCHANGED vars
  BY <1>1, <1>13 DEF HeartbeatExpires, daemonVars, vars, history
<1> QED
  BY <1>3, <1>4, <1>5, <1>6, <1>7, <1>8, <1>9, <1>10, <1>11, <1>12, <1>13
     DEF Next, DaemonStep

\* An attached process has attached, and keeps saying so until it is reaped.
LEMMA RecordStep ==
  ASSUME TypeOK, ChildInv, RecordInv, [Next]_vars
  PROVE  RecordInv'
<1> USE DEF RecordInv
<1> DEFINE Remembers(q) ==
      \/ proc'[q].stage = "none"
      \/ /\ proc[q].stage # "none"
         /\ proc[q].attached => proc'[q].attached
         /\ proc'[q].stage = "attached" => proc'[q].attached
<1>1. ASSUME \A q \in Pids : Remembers(q), UNCHANGED hb \/ hb' = NoPid PROVE RecordInv'
  BY ControlAssumption, <1>1
<1>2. UNCHANGED proc => \A q \in Pids : Remembers(q)
  OBVIOUS
<1>3. Reap => \A q \in Pids : Remembers(q)
  BY DEF Reap, Exited, Absent, TypeOK
<1>4. ASSUME NEW p \in Pids, proc[p].stage # "none", proc' = [proc EXCEPT ![p] = Ended(p)]
      PROVE  \A q \in Pids : Remembers(q)
  BY <1>4 DEF Ended, Absent, TypeOK, Process
<1>5. ASSUME NEW p \in Pids, NEW s \in Stages, proc[p].stage # "none",
             s = "attached" => proc[p].attached, Become(p, s)
      PROVE  \A q \in Pids : Remembers(q)
  BY <1>5 DEF Become, TypeOK, Process
<1>6. ASSUME NEW p \in Pids, ProcessStep(p) PROVE RecordInv'
  <2>1. {"init", "exiting"} \subseteq Stages
    BY DEF Stages
  <2>2. CASE InstallHandler(p) \/ Hotplug(p)
    BY <1>1, <1>5, <2>1, <2>2 DEF InstallHandler, Hotplug
  <2>3. CASE InitFails(p) \/ LeaveLoop(p)
    BY <1>1, <1>5, <2>1, <2>3 DEF InitFails, LeaveLoop
  <2>4. CASE Attach(p)
    <3>1. \A q \in Pids : Remembers(q)
      BY <2>4 DEF Attach, TypeOK, Process
    <3> QED
      BY <1>1, <2>4, <3>1 DEF Attach
  <2>5. CASE Publish(p)
    BY <2>5 DEF Publish
  <2>6. CASE Exit(p) \/ Killed(p)
    <3>1. UNCHANGED hb \/ hb' = NoPid
      BY <2>6 DEF Exit, Killed
    <3> QED
      BY <1>1, <1>4, <2>6, <3>1 DEF Exit, Killed, Alive
  <2> QED
    BY <1>6, <2>2, <2>3, <2>4, <2>5, <2>6 DEF ProcessStep
<1>7. CASE Boot \/ Accept \/ SetAdaptation
  BY <1>1, <1>2, <1>7 DEF Boot, Accept, SetAdaptation
<1>8. CASE Die
  <2>1. \A q \in Pids : Remembers(q)
    BY <1>8 DEF Die, Alive, Absent, TypeOK, Process
  <2> QED
    BY <1>1, <1>8, <2>1 DEF Die
<1>9. CASE Status \/ SetProfile \/ Start \/ Restart
  BY <1>1, <1>3, <1>9 DEF Status, SetProfile, Start, Restart
<1>10. CASE Stop
  <2>1. CASE child = NoPid \/ Exited
    BY <1>1, <1>3, <1>10, <2>1 DEF Stop
  <2>2. CASE ~(child = NoPid \/ Exited)
    <3>1. child \in Pids /\ proc[child].stage # "none"
      BY <2>2 DEF TypeOK, ChildInv
    <3>2. \/ proc' = [proc EXCEPT ![child] = Ended(child)]
          \/ UNCHANGED proc
      BY <1>10, <2>2 DEF Stop, Signalled, TypeOK
    <3> QED
      BY <1>1, <1>2, <1>4, <1>10, <3>1, <3>2 DEF Stop
  <2> QED
    BY <2>1, <2>2
<1>11. CASE Collect \/ SaveTruncates
  BY <1>1, <1>3, <1>11 DEF Collect, SaveTruncates
<1>12. CASE Spawn
  <2>1. CASE Finish("error") /\ UNCHANGED <<child, proc>>
    BY <1>1, <1>2, <1>12, <2>1 DEF Spawn
  <2>2. CASE ~(Finish("error") /\ UNCHANGED <<child, proc>>)
    <3> DEFINE new == [Absent EXCEPT !.stage = "young", !.arg = prof]
    <3>1. PICK p \in Pids : /\ hb # p
                            /\ proc' = [proc EXCEPT ![p] = new]
      BY <1>12, <2>2 DEF Spawn
    <3>2. new.stage = "young"
      BY DEF Absent
    <3> HIDE DEF new
    <3>3. proc'[p] = new /\ (\A q \in Pids : q # p => proc'[q] = proc[q])
      BY <3>1 DEF TypeOK
    <3>4. UNCHANGED hb
      BY <1>12 DEF Spawn
    <3> QED
      BY <3>1, <3>2, <3>3, <3>4
  <2> QED
    BY <2>1, <2>2
<1>13. CASE Gate
  <2>1. UNCHANGED hb /\ (Reap \/ UNCHANGED proc)
    BY <1>13 DEF Gate
  <2> QED
    BY <1>1, <1>2, <1>3, <2>1
<1>14. CASE Heartbeat \/ GateDeadline \/ SaveWrites \/ Reply
  BY <1>1, <1>2, <1>14 DEF Heartbeat, GateDeadline, SaveWrites, Reply
<1>15. CASE StopDeadline
  BY <1>1, <1>2, <1>15 DEF StopDeadline
<1>16. CASE HeartbeatExpires
  BY <1>16, ControlAssumption DEF HeartbeatExpires
<1>17. CASE UNCHANGED vars
  BY <1>1, <1>2, <1>17 DEF vars
<1> QED
  BY <1>6, <1>7, <1>8, <1>9, <1>10, <1>11, <1>12, <1>13, <1>14, <1>15, <1>16, <1>17
     DEF Next, DaemonStep

\* The profile a request leaves behind.
LEMMA OutcomeStep ==
  ASSUME TypeOK, RequestInv, ChildInv, RecoveryInv, OutcomeInv, [Next]_vars
  PROVE  OutcomeInv'
<1> USE DEF OutcomeInv
<1>1. ASSUME UNCHANGED <<op, req, result, prof, acked>> PROVE OutcomeInv'
  BY <1>1
<1>2. ASSUME NEW p \in Pids, ProcessStep(p) PROVE OutcomeInv'
  <2>1. UNCHANGED history
    BY <1>2 DEF ProcessStep, InstallHandler, Attach, InitFails, Publish, LeaveLoop,
       Hotplug, Exit, Killed
  <2> QED
    BY <1>1, <1>2, <2>1, ProcessMoves DEF daemonVars, history
<1>3. CASE Boot
  BY <1>3 DEF Boot, NoRequest
<1>4. CASE Die
  BY <1>4 DEF Die, NoRequest
<1>5. CASE Reply
  BY <1>5 DEF Reply, NoRequest, Current
<1>6. CASE Accept
  BY <1>6 DEF Accept, history
<1>7. CASE Status \/ SetAdaptation \/ Start \/ Restart
  BY <1>7 DEF Status, SetAdaptation, Start, Restart, Finish, history
<1>8. CASE SetProfile
  BY <1>8 DEF SetProfile, Finish, history
<1>9. CASE Stop
  BY <1>9 DEF Stop, Finish, history
<1>10. CASE Collect
  BY <1>10 DEF Collect, AfterStop, Finish, history
<1>11. CASE Spawn
  BY <1>11 DEF Spawn, Finish, history
<1>12. CASE Gate
  BY <1>12 DEF Gate, history
<1>13. CASE Heartbeat \/ GateDeadline \/ StopDeadline
  BY <1>13 DEF Heartbeat, GateDeadline, StopDeadline, Finish, history
<1>14. CASE SaveTruncates \/ SaveWrites
  BY <1>14 DEF SaveTruncates, SaveWrites
<1>15. CASE HeartbeatExpires \/ UNCHANGED vars
  BY <1>1, <1>15 DEF HeartbeatExpires, daemonVars, vars, history
<1> QED
  BY <1>2, <1>3, <1>4, <1>5, <1>6, <1>7, <1>8, <1>9, <1>10, <1>11, <1>12, <1>13,
     <1>14, <1>15 DEF Next, DaemonStep

(***************************************************************************)
(* The theorems.                                                           *)
(***************************************************************************)
LEMMA InvStep == IInv /\ [Next]_vars => IInv'
<1> SUFFICES ASSUME IInv, [Next]_vars PROVE IInv'
  OBVIOUS
<1> USE DEF IInv
<1>1. TypeOK'
  BY TypeStep
<1>2. TableInv'
  BY TableStep DEF TableInv
<1>3. RequestInv'
  BY RequestStep
<1>4. EndedInv'
  BY EndedStep
<1>5. RecoveryInv'
  BY RecoveryStep
<1>6. RecordInv'
  BY RecordStep
<1>7. OutcomeInv'
  BY OutcomeStep
<1> QED
  BY <1>1, <1>2, <1>3, <1>4, <1>5, <1>6, <1>7 DEF TableInv

\* IInv holds in every reachable state, whatever the daemon, its schedulers and
\* crashes of either do.
THEOREM InductiveInvariant == Spec => []IInv
<1>1. Init => IInv
  BY InitHolds
<1>2. IInv /\ [Next]_vars => IInv'
  BY InvStep
<1> QED
  BY <1>1, <1>2, PTL DEF Spec

\* Processes, files and the request in progress stay in their sets: no handler
\* sends an outcome the protocol has no answer for, no record comes from nobody.
THEOREM TypeCorrect == Spec => []TypeOK
<1>1. IInv => TypeOK
  BY DEF IInv
<1> QED
  BY <1>1, InductiveInvariant, PTL

\* The daemon never loses track of a scheduler it has started.
THEOREM NoProcessLost == Spec => []NoUntrackedChild
<1>1. IInv => NoUntrackedChild
  BY DEF IInv
<1> QED
  BY <1>1, InductiveInvariant, PTL

\* The tracked scheduler always runs with the profile the daemon reports.
THEOREM ProfileFollowed == Spec => []ProfileInForce
<1>1. IInv => ProfileInForce
  BY DEF IInv
<1> QED
  BY <1>1, InductiveInvariant, PTL

\* An answered stop, or an answered failure of the start gate, means that no
\* process of this daemon is left.
THEOREM StoppedIsGone == Spec => []NothingLeftBehind
<1>1. IInv => NothingLeftBehind
  BY ControlAssumption DEF IInv, EndedInv, NoUntrackedChild, NothingLeftBehind
<1> QED
  BY <1>1, InductiveInvariant, PTL

\* The handler keeps the promise of one atomic step, whatever happens to the
\* scheduler meanwhile.
THEOREM OutcomesKept == Spec => []OutcomeAsPromised
<1>1. IInv => OutcomeAsPromised
  <2> SUFFICES ASSUME IInv, op \in {"save", "write", "reply"}
               PROVE  [answer |-> Answer, value |-> prof] \in Effects(Asked, acked.profile)
    BY DEF OutcomeAsPromised
  <2> USE DEF IInv, OutcomeInv
  <2>1. result = "ok" \/ Answer = "error"
    BY DEF Answer
  <2>2. CASE req.kind = "status"
    BY <2>2 DEF Answer, Asked, Effects
  <2>3. CASE req.kind = "setProfile"
    <3>1. Asked.type = "set-profile" /\ Asked.profile = req.profile
      BY <2>3 DEF Asked
    <3>2. result = "ok" => Answer = "success" /\ prof = req.profile
      BY <2>3 DEF Answer
    <3>3. prof \in {acked.profile, req.profile}
      BY <2>3
    <3> QED
      BY <2>1, <3>1, <3>2, <3>3 DEF Effects
  <2>4. CASE req.kind \notin {"status", "setProfile"}
    <3>1. Asked.type = "start"
      BY <2>4 DEF Asked
    <3>2. Answer \in {"success", "error"} /\ prof = acked.profile
      BY <2>4 DEF Answer
    <3> QED
      BY <3>1, <3>2 DEF Effects
  <2> QED
    BY <2>2, <2>3, <2>4
<1> QED
  BY <1>1, InductiveInvariant, PTL

\* A start succeeds only if the spawned process itself has attached, even when
\* a scheduler of an earlier daemon keeps publishing heartbeats.
THEOREM GateIsTruthful == Spec => AckedStartWasAttached
<1> DEFINE Step ==
      op = "heartbeat" /\ op' \in {"save", "idle"} => proc[child].attached
<1>1. IInv /\ [Next]_vars => [Step]_vars
  <2> SUFFICES ASSUME IInv, Next, op = "heartbeat", op' \in {"save", "idle"}
               PROVE  proc[child].attached
    OBVIOUS
  <2>1. \A p \in Pids : ~ProcessStep(p)
    BY ProcessMoves DEF daemonVars, IInv
  <2>2. Heartbeat
    BY <2>1 DEF Next, DaemonStep, Boot, Die, Accept, Status, SetAdaptation, SetProfile,
       Start, Restart, Stop, Collect, Spawn, Gate, SaveTruncates, SaveWrites,
       Reply, StopDeadline, GateDeadline, HeartbeatExpires, daemonVars
  <2>3. hb = child
    BY <2>2 DEF Heartbeat, HeartbeatIsFresh
  <2>4. child \in Pids /\ proc[child].stage # "none"
    BY <2>2 DEF IInv, TypeOK, ChildInv, Heartbeat
  <2> QED
    BY <2>3, <2>4 DEF IInv, RecordInv
<1> QED
  BY <1>1, InductiveInvariant, PTL DEF Spec, AckedStartWasAttached

\* A restarted daemon recovers the settings of the last answered request,
\* unless the last save failed or the daemon died between its two halves.
THEOREM SettingsRecovered == Spec => SettingsSurvive
<1> DEFINE Step ==
      op = "down" /\ op' # "down" =>
        saved # "whole" \/ [profile |-> prof', adaptation |-> adapt'] = acked
<1>1. IInv /\ [Next]_vars => [Step]_vars
  <2> SUFFICES ASSUME IInv, Next, op = "down", op' # "down", saved = "whole"
               PROVE  [profile |-> prof', adaptation |-> adapt'] = acked
    OBVIOUS
  <2>1. \A p \in Pids : ~ProcessStep(p)
    BY ProcessMoves DEF daemonVars, IInv
  <2>2. Boot
    BY <2>1 DEF Next, DaemonStep, Die, Accept, Status, SetAdaptation, SetProfile,
       Start, Restart, Stop, Collect, Spawn, Gate, Heartbeat, SaveTruncates,
       SaveWrites, Reply, StopDeadline, GateDeadline, HeartbeatExpires, daemonVars
  <2>3. Load = acked
    BY DEF IInv, RecoveryInv
  <2>4. Load \in Settings
    BY LoadType DEF IInv
  <2> QED
    BY <2>2, <2>3, <2>4 DEF Boot, Settings
<1> QED
  BY <1>1, InductiveInvariant, PTL DEF Spec, SettingsSurvive

(***************************************************************************)
(* The contract with the scheduler processes.                              *)
(***************************************************************************)
\* What the contract sees of the entry of process q stays.
Unseen(q) ==
  /\ (Alive(q) /\ ~proc[q].attached)' = (Alive(q) /\ ~proc[q].attached)
  /\ (proc[q].stage = "attached")' = (proc[q].stage = "attached")

LEMMA UnseenStutters ==
  ASSUME \A q \in Pids : Unseen(q)
  PROVE  Untried' = Untried /\ Holders' = Holders
  BY DEF Unseen, Untried, Holders

LEMMA UnseenTable ==
  ASSUME UNCHANGED proc
  PROVE  \A q \in Pids : Unseen(q)
  BY DEF Unseen, Alive

LEMMA UnseenReap ==
  ASSUME TypeOK, Reap
  PROVE  \A q \in Pids : Unseen(q)
  BY DEF TypeOK, Reap, Exited, Unseen, Alive, Absent

\* An unchanged record stays truthful.
LEMMA RecordTruthful ==
  ASSUME TypeOK, RecordInv
  PROVE  hb \in Contract!Truthful
  BY DEF TypeOK, RecordInv, Contract!Truthful, Untried, Alive

\* The end of a live process.
LEMMA EndKeepsContract ==
  ASSUME TypeOK, NEW p \in Pids, Alive(p), proc' = [proc EXCEPT ![p] = Ended(p)],
         hb' \in Contract!Truthful
  PROVE  Contract!End(p)
<1>1. proc'[p].stage \in {"none", "zombie"} /\ \A q \in Pids : q # p => proc'[q] = proc[q]
  BY DEF TypeOK, Ended, Absent, Process
<1>2. Untried' = Untried \ {p}
  BY <1>1 DEF Untried, Alive
<1>3. Holders' = Holders \ {p}
  BY <1>1 DEF Holders
<1> QED
  BY <1>2, <1>3 DEF Contract!End

\* The steps of a scheduler process.
LEMMA ProcessKeepsContract ==
  ASSUME TypeOK, RecordInv, NEW p \in Pids, ProcessStep(p)
  PROVE  [Contract!Next]_Contract!vars
<1> USE DEF Contract!Next, Contract!vars
<1>1. proc[p] \in Process
  BY DEF TypeOK
<1>2. ASSUME NEW s \in Stages, Become(p, s)
      PROVE  /\ proc'[p].stage = s /\ proc'[p].attached = proc[p].attached
             /\ \A q \in Pids : q # p => proc'[q] = proc[q]
  BY <1>1, <1>2 DEF Become, TypeOK, Process
<1>4. {"init", "attached", "exiting"} \subseteq Stages
  BY DEF Stages
<1>5. CASE InstallHandler(p) \/ InitFails(p)
  <2>1. \A q \in Pids : Unseen(q)
    BY <1>2, <1>4, <1>5 DEF InstallHandler, InitFails, Unseen, Alive
  <2> QED
    BY <1>5, <2>1, UnseenStutters DEF InstallHandler, InitFails
<1>6. CASE Attach(p)
  <2>1. /\ proc'[p].stage = "attached" /\ proc'[p].attached
        /\ \A q \in Pids : q # p => proc'[q] = proc[q]
    BY <1>1, <1>6 DEF Attach, TypeOK, Process
  <2>2. Holders = {} /\ Holders' = {p}
    BY <1>6, <2>1 DEF Attach, Enabled, Holders
  <2>3. Untried' = Untried \ {p}
    BY <2>1 DEF Untried, Alive
  <2>4. UNCHANGED hb
    BY <1>6 DEF Attach
  <2>5. Contract!Attach(p)
    BY <2>2, <2>3, <2>4 DEF Contract!Attach
  <2> QED
    BY <2>5
<1>7. CASE Publish(p)
  <2>1. hb' = p
    BY <1>7 DEF Publish
  <2>2. p \notin Untried
    BY <1>7 DEF Publish, Untried, Alive
  <2>3. Untried' = Untried /\ Holders' = Holders
    BY <1>7, UnseenTable, UnseenStutters DEF Publish
  <2>4. Contract!Report
    BY <2>1, <2>2, <2>3 DEF Contract!Report, Contract!Truthful
  <2> QED
    BY <2>4
<1>8. CASE LeaveLoop(p) \/ Hotplug(p)
  <2>1. /\ proc[p].stage = "attached" /\ proc[p].attached
        /\ proc'[p].stage \in {"init", "exiting"} /\ proc'[p].attached
        /\ \A q \in Pids : q # p => proc'[q] = proc[q]
    BY <1>2, <1>4, <1>8 DEF LeaveLoop, Hotplug, RecordInv
  <2>2. Untried' = Untried
    BY <2>1 DEF Untried, Alive
  <2>3. Holders' = Holders \ {p}
    BY <2>1 DEF Holders
  <2>4. UNCHANGED hb
    BY <1>8 DEF LeaveLoop, Hotplug
  <2>5. Contract!Detach(p)
    BY <2>2, <2>3, <2>4 DEF Contract!Detach
  <2> QED
    BY <2>5
<1>9. CASE Exit(p) \/ Killed(p)
  <2>1. Alive(p) /\ proc' = [proc EXCEPT ![p] = Ended(p)]
    BY <1>9 DEF Exit, Killed, Alive
  <2>2. hb' \in {hb, NoPid}
    BY <1>9 DEF Exit, Killed
  <2>3. hb' \in Contract!Truthful
    BY <2>2, RecordTruthful DEF Contract!Truthful
  <2>4. Contract!End(p)
    BY <2>1, <2>3, EndKeepsContract
  <2> QED
    BY <2>4
<1> QED
  BY <1>5, <1>6, <1>7, <1>8, <1>9 DEF ProcessStep

\* Of the daemon's steps the contract sees the spawn and the signals.
LEMMA ContractStep ==
  ASSUME IInv, [Next]_vars
  PROVE  [Contract!Next]_Contract!vars
<1> USE DEF IInv, Contract!Next, Contract!vars
<1>2. ASSUME \A q \in Pids : Unseen(q), UNCHANGED hb
      PROVE  UNCHANGED Contract!vars
  BY <1>2, UnseenStutters
<1>3. ASSUME NEW p \in Pids, Alive(p), proc' = [proc EXCEPT ![p] = Ended(p)], UNCHANGED hb
      PROVE  Contract!Next
  <2>1. Contract!End(p)
    BY <1>3, RecordTruthful, EndKeepsContract
  <2> QED
    BY <2>1
<1>4. CASE \E p \in Pids : ProcessStep(p)
  BY <1>4, ProcessKeepsContract
<1>5. CASE Boot \/ Accept \/ SetAdaptation \/ Heartbeat \/ GateDeadline \/ SaveWrites \/ Reply
  BY <1>2, <1>5, UnseenTable
     DEF Boot, Accept, SetAdaptation, Heartbeat, GateDeadline, SaveWrites, Reply
<1>6. CASE Die
  <2>1. \A q \in Pids : Unseen(q)
    <3>1. ASSUME NEW q \in Pids PROVE Unseen(q)
      <4>1. proc[q] \in Process /\ proc'[q] =
              IF proc[q].stage = "zombie" THEN Absent
              ELSE IF Alive(q) THEN [proc[q] EXCEPT !.orphan = TRUE, !.arg = Default]
              ELSE proc[q]
        BY <1>6 DEF Die, TypeOK
      <4>2. CASE proc[q].stage = "zombie"
        BY <4>1, <4>2 DEF Unseen, Alive, Absent
      <4>3. CASE Alive(q)
        BY <4>1, <4>3 DEF Unseen, Alive, Process
      <4>4. CASE proc[q].stage = "none"
        BY <4>1, <4>4 DEF Unseen, Alive
      <4> QED
        BY <4>2, <4>3, <4>4 DEF Alive
    <3> QED
      BY <3>1
  <2> QED
    BY <1>2, <1>6, <2>1 DEF Die
<1>7. CASE Status \/ SetProfile \/ Start \/ Restart \/ Collect \/ SaveTruncates
  BY <1>2, <1>7, UnseenReap DEF Status, SetProfile, Start, Restart, Collect, SaveTruncates
<1>8. CASE Stop
  <2>1. CASE child = NoPid \/ Exited
    BY <1>2, <1>8, <2>1, UnseenReap DEF Stop
  <2>2. CASE ~(child = NoPid \/ Exited)
    <3>1. child \in Pids
      BY <2>2 DEF TypeOK
    <3>2. CASE proc[child].stage = "young"
      BY <1>3, <1>8, <2>2, <3>1, <3>2 DEF Stop, Signalled, Alive
    <3>3. CASE proc[child].stage # "young"
      BY <1>2, <1>8, <2>2, <3>1, <3>3, UnseenTable DEF Stop, Signalled, TypeOK
    <3> QED
      BY <3>2, <3>3
  <2> QED
    BY <2>1, <2>2
<1>9. CASE StopDeadline
  BY <1>2, <1>9, UnseenTable DEF StopDeadline
<1>10. CASE Spawn
  <2>1. CASE Finish("error") /\ UNCHANGED <<child, proc>>
    BY <1>2, <1>10, <2>1, UnseenTable DEF Spawn
  <2>2. CASE ~(Finish("error") /\ UNCHANGED <<child, proc>>)
    <3> DEFINE new == [Absent EXCEPT !.stage = "young", !.arg = prof]
    <3>1. PICK p \in Pids : /\ proc[p].stage = "none" /\ hb # p
                            /\ proc' = [proc EXCEPT ![p] = new]
      BY <1>10, <2>2 DEF Spawn
    <3>2. new.stage = "young" /\ ~new.attached
      BY DEF Absent
    <3> HIDE DEF new
    <3>3. proc'[p] = new /\ (\A q \in Pids : q # p => proc'[q] = proc[q])
      BY <3>1 DEF TypeOK
    <3>4. Untried' = Untried \union {p}
      BY <3>1, <3>2, <3>3 DEF Untried, Alive
    <3>5. Holders' = Holders
      BY <3>1, <3>2, <3>3 DEF Holders
    <3>6. p \notin Untried \union Holders \union {hb}
      BY <3>1, ControlAssumption DEF Untried, Holders, Alive
    <3>7. UNCHANGED hb
      BY <1>10 DEF Spawn
    <3>8. Contract!Launch(p)
      BY <3>4, <3>5, <3>6, <3>7 DEF Contract!Launch
    <3> QED
      BY <3>8
  <2> QED
    BY <2>1, <2>2
<1>11. CASE Gate
  BY <1>2, <1>11, UnseenReap, UnseenTable DEF Gate
<1>12. CASE HeartbeatExpires
  <2>1. Untried' = Untried /\ Holders' = Holders
    BY <1>12, UnseenTable, UnseenStutters DEF HeartbeatExpires
  <2>2. hb' = NoPid
    BY <1>12 DEF HeartbeatExpires, TypeOK
  <2> QED
    BY <2>1, <2>2 DEF Contract!Report, Contract!Truthful
<1>13. CASE UNCHANGED vars
  BY <1>2, <1>13, UnseenTable DEF vars
<1> QED
  BY <1>4, <1>5, <1>6, <1>7, <1>8, <1>9, <1>10, <1>11, <1>12, <1>13 DEF Next, DaemonStep

\* The daemon and the processes it and its predecessors have started keep the
\* contract that cerynth-scx implements: one scheduler is attached at a time, and
\* no running record names a process that has not attached since its launch.
THEOREM ContractKept == Spec => ImplementsContract
<1>1. Init => Contract!Init
  BY DEF Init, Contract!Init, Untried, Holders, Absent, Alive
<1>2. IInv /\ [Next]_vars => [Contract!Next]_Contract!vars
  BY ContractStep
<1> QED
  BY <1>1, <1>2, InductiveInvariant, PTL DEF Spec, ImplementsContract, Contract!Spec
=============================================================================
