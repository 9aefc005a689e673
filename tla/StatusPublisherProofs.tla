------------------------ MODULE StatusPublisherProofs ------------------------
(***************************************************************************)
(* Proofs about StatusPublisher, for every set of scheduler processes,     *)
(* socket capacity and number of heartbeats: with one scheduler at a time  *)
(* readers see whole records only, and with any number of them the record  *)
(* of a process never goes back.                                           *)
(***************************************************************************)
EXTENDS StatusPublisher, TLAPS

\* A writer is the main process or the reporter of one scheduler.
LEMMA WriterPairs ==
  /\ \A p \in Pids : Main(p) \in Writers /\ Reporter(p) \in Writers
  /\ \A p, q \in Pids : Main(p) # Reporter(q)
  /\ \A p, q \in Pids : p # q => Main(p) # Main(q) /\ Reporter(p) # Reporter(q)
  /\ \A w \in Writers : \E p \in Pids : w = Main(p) \/ w = Reporter(p)
BY DEF Writers, Main, Reporter

\* The bound of the clock is a number, and nobody's pid is NoPid.
LEMMA BeatFacts ==
  /\ MaxBeats \in Nat /\ 0 \in 0 .. MaxBeats
  /\ NoPid \notin Pids /\ Empty.pid = NoPid /\ Missing.pid = NoPid /\ Mixed.pid = NoPid
  /\ Empty \notin Records /\ Missing \notin Records /\ Mixed \notin Records
  /\ Empty # Missing /\ Mixed # Missing
BY PublisherAssumption DEF Empty, Missing, Mixed, NoRecord, Records

\* What a writer writes is a record of its own process.
LEMMA RecordFacts ==
  ASSUME TypeOK, NEW w \in Writers
  PROVE  Record(w) \in Records /\ Record(w).pid = w[1]
<1>0. w[1] \in Pids
  BY DEF Writers
<1>1. w[1] \in Pids /\ latest[w[1]] \in 0 .. MaxBeats
  BY <1>0 DEF TypeOK
<1>2. /\ Stopped(w[1]) \in Records /\ Stopped(w[1]).pid = w[1]
      /\ Running(w[1], latest[w[1]]) \in Records
      /\ Running(w[1], latest[w[1]]).pid = w[1]
  BY <1>1, BeatFacts DEF Stopped, Running, Records
<1>. QED
  BY <1>2 DEF Record

\* A step of SchedulerStatus::write leaves the files and the writers typed.
LEMMA FileStepType ==
  ASSUME TypeOK, NEW w \in Writers, FileStep(w)
  PROVE  /\ step' \in [Writers -> {"idle", "create", "write", "rename"}]
         /\ fd' \in [Writers -> {"none", "tmp", "status", "unlinked"}]
         /\ tmpFile' \in Contents \union {Missing}
         /\ statusFile' \in Contents \union {Missing}
<1>1. CASE CreateTmp(w)
  BY <1>1 DEF CreateTmp, Goes, TypeOK, Contents
<1>2. CASE WriteRecord(w)
  <2>1. Record(w) \in Contents /\ Mixed \in Contents
    BY RecordFacts DEF Contents
  <2>2. tmpFile' \in Contents \union {Missing} /\ statusFile' \in Contents \union {Missing}
    BY <1>2, <2>1 DEF WriteRecord, Over, TypeOK
  <2>. QED
    BY <1>2, <2>2 DEF WriteRecord, Goes, TypeOK
<1>3. CASE RenameTmp(w)
  <2>1. \A v \in Writers : Moved(fd[v]) \in {"none", "tmp", "status", "unlinked"}
    BY DEF Moved, TypeOK
  <2>. QED
    BY <1>3, <2>1 DEF RenameTmp, Goes, TypeOK
<1>. QED
  BY <1>1, <1>2, <1>3 DEF FileStep

\* A snapshot is sent with a heartbeat of the clock, into the room there is.
LEMMA SendType ==
  ASSUME TypeOK, NEW p \in Pids, Send(p)
  PROVE  /\ beat' \in [Pids -> 0 .. MaxBeats]
         /\ queue' \in [Pids -> Seq(0 .. MaxBeats)]
         /\ \A q \in Pids : Len(queue'[q]) <= QueueCap
<1>1. PICK b \in 0 .. MaxBeats :
        /\ beat' = [beat EXCEPT ![p] = b]
        /\ queue' = IF Len(queue[p]) < QueueCap /\ ~ReporterGone(p)
                    THEN [queue EXCEPT ![p] = Append(@, b)] ELSE queue
  BY DEF Send
<1>2. Append(queue[p], b) \in Seq(0 .. MaxBeats) /\ Len(Append(queue[p], b)) = Len(queue[p]) + 1
  BY DEF TypeOK
<1>. QED
  BY <1>1, <1>2, PublisherAssumption DEF TypeOK

\* The state stays within its types.
LEMMA TypeStep == ASSUME TypeOK, [Next]_vars PROVE TypeOK'
<1>. USE WriterPairs, BeatFacts
<1>1. ASSUME NEW p \in Pids, StartReporter(p) PROVE TypeOK'
  <2>1. <<>> \in Seq(0 .. MaxBeats) /\ Len(<<>>) <= QueueCap
    BY PublisherAssumption
  <2>. QED
    BY <1>1, <2>1 DEF StartReporter, TypeOK, Phases, fileVars
<1>2. ASSUME NEW p \in Pids, StartReporterFails(p) PROVE TypeOK'
  BY <1>2 DEF TypeOK, Phases, StartReporterFails, ToStopped, repVars
<1>3. ASSUME NEW p \in Pids, Attach(p) PROVE TypeOK'
  BY <1>3 DEF Attach, TypeOK, Phases, repVars, fileVars
<1>4. ASSUME NEW p \in Pids, InitFails(p) PROVE TypeOK'
  BY <1>4 DEF TypeOK, Phases, InitFails, KillReporter, ReporterGone, fileVars
<1>5. ASSUME NEW p \in Pids, LeaveLoop(p) PROVE TypeOK'
  BY <1>5 DEF TypeOK, Phases, LeaveLoop, KillReporter, Detach, ReporterGone, fileVars
<1>6. ASSUME NEW p \in Pids, AfterDrop(p) PROVE TypeOK'
  <2>1. \/ phase' = [phase EXCEPT ![p] = "init"] /\ UNCHANGED step
        \/ ToStopped(p)
    BY <1>6, Zenon DEF AfterDrop
  <2>2. phase' \in [Pids -> Phases]
    <3>1. CASE phase' = [phase EXCEPT ![p] = "init"]
      BY <3>1 DEF TypeOK, Phases
    <3>2. CASE ToStopped(p)
      BY <3>2 DEF ToStopped, TypeOK, Phases
    <3>. QED
      BY <2>1, <3>1, <3>2
  <2>3. step' \in [Writers -> {"idle", "create", "write", "rename"}]
    BY <2>1 DEF ToStopped, TypeOK
  <2>. QED
    BY <1>6, <2>2, <2>3 DEF AfterDrop, TypeOK, repVars
<1>7. ASSUME NEW p \in Pids, WriteStopped(p) PROVE TypeOK'
  <2>1. Vanish(p) \/ UNCHANGED <<phase, handler, heard, exit>>
    BY <1>7 DEF WriteStopped
  <2>2. /\ phase' \in [Pids -> Phases]
        /\ handler' \in [Pids -> {"none", "current", "stale"}]
        /\ heard' \in [Pids -> BOOLEAN]
        /\ exit' \in [Pids -> {"none", "restart", "stop", "failed"}]
    <3>1. CASE Vanish(p)
      BY <3>1 DEF Vanish, TypeOK, Phases
    <3>2. CASE UNCHANGED <<phase, handler, heard, exit>>
      BY <3>2 DEF TypeOK
    <3>. QED
      BY <2>1, <3>1, <3>2
  <2>3. UNCHANGED <<beat, attached, overlap, repVars>>
    BY <1>7 DEF WriteStopped
  <2>4. CASE FileStep(Main(p))
    BY <2>2, <2>3, <2>4, FileStepType DEF TypeOK, repVars
  <2>5. CASE FileFails(Main(p))
    BY <2>2, <2>3, <2>5 DEF FileFails, Abandon, TypeOK, repVars
  <2>. QED
    BY <1>7, <2>4, <2>5 DEF WriteStopped
<1>8. ASSUME NEW p \in Pids, Arm(p) PROVE TypeOK'
  BY <1>8 DEF TypeOK, Phases, Arm, mainVars, fileVars
<1>9. ASSUME NEW p \in Pids, TestParent(p) PROVE TypeOK'
  BY <1>9 DEF TypeOK, Phases, TestParent, mainVars, fileVars
<1>10. ASSUME NEW p \in Pids, Drain(p) PROVE TypeOK'
  <2>1. queue[p][Len(queue[p])] \in 0 .. MaxBeats
    BY <1>10 DEF Drain, TypeOK
  <2>2. <<>> \in Seq(0 .. MaxBeats) /\ Len(<<>>) <= QueueCap
    BY PublisherAssumption
  <2>. QED
    BY <1>10, <2>1, <2>2 DEF Drain, TypeOK, mainVars
<1>11. ASSUME NEW p \in Pids, Publish(p) PROVE TypeOK'
  BY <1>11, FileStepType DEF Publish, TypeOK, mainVars
<1>12. ASSUME NEW p \in Pids, ReporterFails(p) PROVE TypeOK'
  <2>1. CASE UNCHANGED fileVars
    BY <1>12, <2>1 DEF ReporterFails, TypeOK, mainVars, fileVars
  <2>2. CASE FileFails(Reporter(p))
    BY <1>12, <2>2 DEF ReporterFails, FileFails, Abandon, TypeOK, mainVars
  <2>. QED
    BY <1>12, <2>1, <2>2 DEF ReporterFails
<1>13. ASSUME NEW p \in Pids, ReporterEnds(p) PROVE TypeOK'
  BY <1>13 DEF TypeOK, Phases, ReporterEnds, Abandon, ReporterGone, mainVars
<1>14. ASSUME NEW p \in Pids, Launch(p) PROVE TypeOK'
  BY <1>14 DEF TypeOK, Phases, Launch, repVars, fileVars
<1>15. ASSUME NEW p \in Pids, WriteStats(p) PROVE TypeOK'
  BY <1>15, SendType DEF WriteStats, TypeOK, Phases, fileVars
<1>16. ASSUME NEW p \in Pids, BpfExits(p) PROVE TypeOK'
  BY <1>16 DEF TypeOK, Phases, BpfExits, repVars, fileVars
<1>17. ASSUME NEW p \in Pids, Killed(p) PROVE TypeOK'
  BY <1>17 DEF TypeOK, Phases, Killed, Vanish, Alive, Detach, Orphaned, Abandon
<1>18. ASSUME NEW p \in Pids, Terminate(p) PROVE TypeOK'
  BY <1>18 DEF TypeOK, Phases, Terminate, repVars, fileVars
<1>19. CASE UNCHANGED vars
  BY <1>19 DEF TypeOK, vars, mainVars, repVars, fileVars
<1>. QED
  BY <1>1, <1>2, <1>3, <1>4, <1>5, <1>6, <1>7, <1>8, <1>9, <1>10, <1>11, <1>12, <1>13,
     <1>14, <1>15, <1>16, <1>17, <1>18, <1>19 DEF Next, MainStep, ReporterStep

\* One system call of SchedulerStatus::write moves its writer on, or to the end
\* when a signal is pending, and no other writer.
LEMMA FileMoves ==
  ASSUME TypeOK, WriterInv, NEW w \in Writers, FileStep(w)
  PROVE  /\ step[w] # "idle"
         /\ Signalled(w) => step'[w] = "idle"
         /\ step'[w] = "write" <=> fd'[w] # "none"
         /\ \A v \in Writers : v # w => step'[v] = step[v]
         /\ \A v \in Writers : v # w => (fd'[v] = "none" <=> fd[v] = "none")
<1>1. CASE CreateTmp(w)
  BY <1>1 DEF CreateTmp, Goes, TypeOK, WriterInv
<1>2. CASE WriteRecord(w)
  BY <1>2 DEF WriteRecord, Goes, TypeOK, WriterInv
<1>3. CASE RenameTmp(w)
  <2>1. \A v \in Writers : fd'[v] = "none" <=> fd[v] = "none"
    BY <1>3 DEF RenameTmp, Moved, TypeOK
  <2>. QED
    BY <1>3, <2>1 DEF RenameTmp, Goes, TypeOK, WriterInv
<1>. QED
  BY <1>1, <1>2, <1>3 DEF FileStep

\* WriterInv of one process.
PidInv(p) ==
  /\ step[Main(p)] # "idle" <=> phase[p] = "stopped"
  /\ step[Reporter(p)] # "idle" <=> reporter[p] = "publishing"
  /\ phase[p] \in {"absent", "init", "stopped"} => ReporterGone(p)

\* Only one writer of p moves, if any, and its file is open when it writes.
MainMoves(p) ==
  /\ \A q \in Pids : step'[Reporter(q)] = step[Reporter(q)]
  /\ \A q \in Pids \ {p} : step'[Main(q)] = step[Main(q)]
ReporterMoves(p) ==
  /\ \A q \in Pids : step'[Main(q)] = step[Main(q)]
  /\ \A q \in Pids \ {p} : step'[Reporter(q)] = step[Reporter(q)]

\* A step that moves at most one writer of p.
LEMMA OneMoves ==
  ASSUME WriterInv, NEW p \in Pids, NEW w \in Writers,
         w = Main(p) \/ w = Reporter(p),
         \A v \in Writers : v # w => step'[v] = step[v],
         \A v \in Writers : v # w => (fd'[v] = "none" <=> fd[v] = "none"),
         step'[w] = "write" <=> fd'[w] # "none"
  PROVE  /\ \A v \in Writers : step'[v] = "write" <=> fd'[v] # "none"
         /\ w = Main(p) => MainMoves(p)
         /\ w = Reporter(p) => ReporterMoves(p)
<1>1. ASSUME NEW v \in Writers
      PROVE  step'[v] = "write" <=> fd'[v] # "none"
  <2>1. CASE v = w
    BY <2>1
  <2>2. CASE v # w
    BY <2>2 DEF WriterInv
  <2>. QED
    BY <2>1, <2>2
<1>2. CASE w = Main(p)
  BY <1>1, <1>2, WriterPairs DEF MainMoves
<1>3. CASE w = Reporter(p)
  BY <1>1, <1>3, WriterPairs DEF ReporterMoves
<1>. QED
  BY <1>1, <1>2, <1>3

\* Only the process that owns it moves a writer to or from its file.
LEMMA WriterStep == ASSUME TypeOK, WriterInv, [Next]_vars PROVE WriterInv'
<1>. USE WriterPairs
<1>1. ASSUME NEW p \in Pids, StartReporter(p) PROVE WriterInv'
  BY <1>1 DEF WriterInv, TypeOK, ReporterGone, StartReporter, repVars, fileVars
<1>2. ASSUME NEW p \in Pids, StartReporterFails(p) PROVE WriterInv'
  <2>0. step[Main(p)] = "idle" /\ fd[Main(p)] = "none"
    BY <1>2 DEF WriterInv, TypeOK, StartReporterFails
  <2>1. /\ step'[Main(p)] = "create"
        /\ \A v \in Writers : step'[v] = "write" <=> fd'[v] # "none"
        /\ MainMoves(p)
    BY <1>2, <2>0 DEF WriterInv, MainMoves, ReporterMoves, TypeOK, StartReporterFails,
       ToStopped
  <2>2. \A q \in Pids : PidInv(q)'
    BY <1>2, <2>1 DEF PidInv, WriterInv, MainMoves, ReporterMoves, ReporterGone, TypeOK,
       StartReporterFails, ToStopped, repVars
  <2>. QED
    BY <2>1, <2>2 DEF PidInv, WriterInv
<1>3. ASSUME NEW p \in Pids, Attach(p) PROVE WriterInv'
  BY <1>3 DEF WriterInv, TypeOK, ReporterGone, Attach, repVars, fileVars
<1>4. ASSUME NEW p \in Pids, InitFails(p) PROVE WriterInv'
  BY <1>4 DEF WriterInv, TypeOK, ReporterGone, InitFails, KillReporter, fileVars
<1>5. ASSUME NEW p \in Pids, LeaveLoop(p) PROVE WriterInv'
  BY <1>5 DEF WriterInv, TypeOK, ReporterGone, LeaveLoop, KillReporter, Detach, fileVars
<1>6. ASSUME NEW p \in Pids, AfterDrop(p) PROVE WriterInv'
  <2>1. \/ phase' = [phase EXCEPT ![p] = "init"] /\ UNCHANGED step
        \/ ToStopped(p)
    BY <1>6, Zenon DEF AfterDrop
  <2>2. phase[p] = "wait" /\ ReporterGone(p) /\ UNCHANGED <<reporter, fd>>
    BY <1>6 DEF AfterDrop, Reaped, repVars
  <2>3. CASE phase' = [phase EXCEPT ![p] = "init"] /\ UNCHANGED step
    BY <2>2, <2>3 DEF WriterInv, TypeOK, ReporterGone
  <2>4. CASE ToStopped(p)
    <3>0. step[Main(p)] = "idle" /\ fd[Main(p)] = "none"
      BY <2>2 DEF WriterInv, TypeOK
    <3>1. /\ MainMoves(p) /\ step'[Main(p)] = "create"
          /\ \A v \in Writers : step'[v] = "write" <=> fd'[v] # "none"
      BY <2>2, <2>4, <3>0, OneMoves DEF ToStopped, TypeOK
    <3>2. \A q \in Pids : PidInv(q)'
      BY <2>2, <2>4, <3>1 DEF ToStopped, PidInv, WriterInv, MainMoves, ReporterGone,
         TypeOK
    <3>. QED
      BY <3>1, <3>2 DEF PidInv, WriterInv
  <2>. QED
    BY <2>1, <2>3, <2>4
<1>7. ASSUME NEW p \in Pids, WriteStopped(p) PROVE WriterInv'
  <2>1. CASE FileStep(Main(p))
    <3>1. /\ MainMoves(p)
          /\ \A v \in Writers : step'[v] = "write" <=> fd'[v] # "none"
      BY <2>1, FileMoves, OneMoves
    <3>2. \A q \in Pids : PidInv(q)'
      BY <1>7, <3>1 DEF WriteStopped, Vanish, PidInv, WriterInv, MainMoves, ReporterGone,
         TypeOK, repVars
    <3>. QED
      BY <3>1, <3>2 DEF PidInv, WriterInv
  <2>2. CASE FileFails(Main(p))
    <3>1. /\ MainMoves(p) /\ step'[Main(p)] = "idle"
          /\ \A v \in Writers : step'[v] = "write" <=> fd'[v] # "none"
      BY <2>2 DEF FileFails, Abandon, MainMoves, WriterInv, TypeOK
    <3>2. \A q \in Pids : PidInv(q)'
      BY <1>7, <3>1 DEF WriteStopped, Vanish, PidInv, WriterInv, MainMoves, ReporterGone,
         TypeOK, repVars
    <3>. QED
      BY <3>1, <3>2 DEF PidInv, WriterInv
  <2>. QED
    BY <1>7, <2>1, <2>2 DEF WriteStopped, Vanish
<1>8. ASSUME NEW p \in Pids, Arm(p) PROVE WriterInv'
  BY <1>8 DEF WriterInv, TypeOK, ReporterGone, Arm, mainVars, fileVars
<1>9. ASSUME NEW p \in Pids, TestParent(p) PROVE WriterInv'
  BY <1>9 DEF WriterInv, TypeOK, ReporterGone, TestParent, mainVars, fileVars
<1>10. ASSUME NEW p \in Pids, Drain(p) PROVE WriterInv'
  <2>0. step[Reporter(p)] = "idle" /\ fd[Reporter(p)] = "none"
    BY <1>10 DEF WriterInv, TypeOK, Drain
  <2>1. /\ step'[Reporter(p)] = "create"
        /\ \A v \in Writers : step'[v] = "write" <=> fd'[v] # "none"
        /\ ReporterMoves(p)
    BY <1>10, <2>0 DEF WriterInv, MainMoves, ReporterMoves, TypeOK, Drain
  <2>2. \A q \in Pids : PidInv(q)'
    BY <1>10, <2>1 DEF PidInv, WriterInv, MainMoves, ReporterMoves, ReporterGone,
       TypeOK, Drain, mainVars
  <2>. QED
    BY <2>1, <2>2 DEF PidInv, WriterInv
<1>11. ASSUME NEW p \in Pids, Publish(p) PROVE WriterInv'
  <2>1. /\ ReporterMoves(p)
        /\ \A v \in Writers : step'[v] = "write" <=> fd'[v] # "none"
        /\ Signalled(Reporter(p)) => step'[Reporter(p)] = "idle"
    BY <1>11, FileMoves, OneMoves DEF Publish
  <2>2. Signalled(Reporter(p)) <=> sig[p]
    BY DEF Signalled, Reporter
  <2>3. \A q \in Pids : PidInv(q)'
    BY <1>11, <2>1, <2>2 DEF Publish, PidInv, WriterInv, ReporterMoves, ReporterGone,
       TypeOK, mainVars
  <2>. QED
    BY <2>1, <2>3 DEF PidInv, WriterInv
<1>12. ASSUME NEW p \in Pids, ReporterFails(p) PROVE WriterInv'
  <2>1. CASE reporter[p] = "idle" /\ UNCHANGED fileVars
    BY <1>12, <2>1 DEF ReporterFails, WriterInv, TypeOK, ReporterGone, mainVars,
       fileVars
  <2>2. CASE reporter[p] = "publishing" /\ FileFails(Reporter(p))
    <3>1. /\ ReporterMoves(p) /\ step'[Reporter(p)] = "idle"
          /\ \A v \in Writers : step'[v] = "write" <=> fd'[v] # "none"
      BY <2>2 DEF FileFails, Abandon, ReporterMoves, WriterInv, TypeOK
    <3>2. \A q \in Pids : PidInv(q)'
      BY <1>12, <3>1 DEF ReporterFails, PidInv, WriterInv, ReporterMoves, ReporterGone,
         TypeOK, mainVars
    <3>. QED
      BY <3>1, <3>2 DEF PidInv, WriterInv
  <2>. QED
    BY <1>12, <2>1, <2>2 DEF ReporterFails
<1>13. ASSUME NEW p \in Pids, ReporterEnds(p) PROVE WriterInv'
  <2>1. /\ step'[Reporter(p)] = "idle"
        /\ \A v \in Writers : step'[v] = "write" <=> fd'[v] # "none"
        /\ ReporterMoves(p)
    BY <1>13 DEF WriterInv, MainMoves, ReporterMoves, TypeOK, ReporterEnds, Abandon
  <2>2. \A q \in Pids : PidInv(q)'
    BY <1>13, <2>1 DEF PidInv, WriterInv, MainMoves, ReporterMoves, ReporterGone,
       TypeOK, ReporterEnds, Abandon, mainVars
  <2>. QED
    BY <2>1, <2>2 DEF PidInv, WriterInv
<1>14. ASSUME NEW p \in Pids, Launch(p) PROVE WriterInv'
  BY <1>14 DEF WriterInv, TypeOK, ReporterGone, Launch, repVars, fileVars
<1>15. ASSUME NEW p \in Pids, WriteStats(p) PROVE WriterInv'
  BY <1>15 DEF WriterInv, TypeOK, ReporterGone, WriteStats, Send, fileVars
<1>16. ASSUME NEW p \in Pids, BpfExits(p) PROVE WriterInv'
  BY <1>16 DEF WriterInv, TypeOK, ReporterGone, BpfExits, repVars, fileVars
<1>17. ASSUME NEW p \in Pids, Killed(p) PROVE WriterInv'
  <2>1. /\ step'[Main(p)] = "idle"
        /\ \A v \in Writers : step'[v] = "write" <=> fd'[v] # "none"
        /\ MainMoves(p)
    BY <1>17 DEF WriterInv, MainMoves, ReporterMoves, TypeOK, Killed, Vanish, Abandon
  <2>2. \A q \in Pids : PidInv(q)'
    BY <1>17, <2>1 DEF PidInv, WriterInv, MainMoves, ReporterMoves, ReporterGone,
       TypeOK, Killed, Vanish, Alive, Detach, Orphaned, Abandon
  <2>. QED
    BY <2>1, <2>2 DEF PidInv, WriterInv
<1>18. ASSUME NEW p \in Pids, Terminate(p) PROVE WriterInv'
  BY <1>18 DEF WriterInv, TypeOK, ReporterGone, Terminate, repVars, fileVars
<1>19. CASE UNCHANGED vars
  BY <1>19 DEF WriterInv, ReporterGone, vars
<1>. QED
  BY <1>1, <1>2, <1>3, <1>4, <1>5, <1>6, <1>7, <1>8, <1>9, <1>10, <1>11, <1>12, <1>13,
     <1>14, <1>15, <1>16, <1>17, <1>18, <1>19 DEF Next, MainStep, ReporterStep

\* A snapshot goes to the end of the queue with the latest heartbeat.
LEMMA SendInOrder ==
  ASSUME TypeOK, SnapshotInv, NEW p \in Pids, Send(p), UNCHANGED latest
  PROVE  SnapshotInv'
<1>0. PICK b \in {beat[p], beat[p] + 1} \intersect (0 .. MaxBeats) :
        /\ beat' = [beat EXCEPT ![p] = b]
        /\ queue' = IF Len(queue[p]) < QueueCap /\ ~ReporterGone(p)
                    THEN [queue EXCEPT ![p] = Append(@, b)] ELSE queue
  BY Zenon DEF Send
<1>1. /\ b \in 0 .. MaxBeats /\ beat[p] <= b
      /\ beat' = [beat EXCEPT ![p] = b]
      /\ \/ queue' = [queue EXCEPT ![p] = Append(@, b)]
         \/ queue' = queue
  BY <1>0, BeatFacts DEF TypeOK
<1>2. ASSUME NEW q \in Pids
      PROVE  /\ latest'[q] <= beat'[q]
             /\ \A i \in DOMAIN queue'[q] : latest'[q] <= queue'[q][i] /\ queue'[q][i] <= beat'[q]
             /\ \A i, j \in DOMAIN queue'[q] : i <= j => queue'[q][i] <= queue'[q][j]
  <2>1. /\ queue[q] \in Seq(0 .. MaxBeats) /\ latest[q] \in 0 .. MaxBeats
        /\ beat[q] \in 0 .. MaxBeats /\ MaxBeats \in Nat
        /\ \A i \in DOMAIN queue[q] : queue[q][i] \in 0 .. MaxBeats
    <3>1. /\ queue[q] \in Seq(0 .. MaxBeats) /\ latest[q] \in 0 .. MaxBeats
          /\ beat[q] \in 0 .. MaxBeats /\ MaxBeats \in Nat
      BY BeatFacts DEF TypeOK
    <3>2. \A i \in DOMAIN queue[q] : queue[q][i] \in 0 .. MaxBeats
      BY <3>1
    <3>. QED
      BY <3>1, <3>2
  <2>2. CASE q # p
    BY <1>1, <2>1, <2>2 DEF SnapshotInv, TypeOK
  <2>3. CASE q = p /\ queue' = queue
    BY <1>1, <2>1, <2>3 DEF SnapshotInv, TypeOK
  <2>4. CASE q = p /\ queue' = [queue EXCEPT ![p] = Append(@, b)]
    <3>1. /\ queue'[q] = Append(queue[q], b) /\ beat'[q] = b /\ latest'[q] = latest[q]
          /\ beat[q] <= b
      BY <1>1, <2>4 DEF TypeOK
    <3>2. \A i \in DOMAIN queue'[q] :
            \/ i \in DOMAIN queue[q] /\ queue'[q][i] = queue[q][i]
            \/ i = Len(queue[q]) + 1 /\ queue'[q][i] = b
      BY <2>1, <3>1
    <3>3. /\ latest[q] <= beat[q]
          /\ \A i \in DOMAIN queue[q] : latest[q] <= queue[q][i] /\ queue[q][i] <= beat[q]
          /\ \A i, j \in DOMAIN queue[q] : i <= j => queue[q][i] <= queue[q][j]
      BY DEF SnapshotInv
    <3>4. \A i \in DOMAIN queue[q] : i \in 1 .. Len(queue[q])
      BY <2>1
    <3>5. latest'[q] <= beat'[q]
      BY <2>1, <3>1, <3>3
    <3>6. \A i \in DOMAIN queue'[q] : latest'[q] <= queue'[q][i] /\ queue'[q][i] <= beat'[q]
      BY <2>1, <3>1, <3>2, <3>3
    <3>7. ASSUME NEW i \in DOMAIN queue'[q], NEW j \in DOMAIN queue'[q], i <= j
          PROVE  queue'[q][i] <= queue'[q][j]
      <4>1. /\ Len(queue[q]) \in Nat /\ b \in Nat
            /\ \A k \in DOMAIN queue[q] : queue[q][k] \in Nat /\ queue[q][k] <= b
        BY <1>1, <2>1, <3>1, <3>3
      <4>2. CASE i \in DOMAIN queue[q] /\ j \in DOMAIN queue[q]
        <5>1. queue'[q][i] = queue[q][i] /\ queue'[q][j] = queue[q][j]
          BY <2>1, <3>1, <4>2
        <5>. QED
          BY <3>3, <3>7, <4>2, <5>1
      <4>3. CASE j = Len(queue[q]) + 1 /\ queue'[q][j] = b
        BY <3>2, <4>1, <4>3
      <4>4. i = Len(queue[q]) + 1 => j \notin DOMAIN queue[q]
        BY <3>4, <3>7, <4>1
      <4>. QED
        BY <3>2, <4>2, <4>3, <4>4
    <3>. QED
      BY <3>5, <3>6, <3>7
  <2>. QED
    BY <1>1, <2>2, <2>3, <2>4
<1>. QED
  BY <1>2 DEF SnapshotInv

\* Only Send, StartReporter and Drain touch the clock, the socket or the
\* snapshot of the reporter.
LEMMA NextSnapshots ==
  ASSUME [Next]_vars
  PROVE  \/ \E p \in Pids : Send(p) /\ UNCHANGED latest
         \/ \E p \in Pids : StartReporter(p)
         \/ \E p \in Pids : Drain(p)
         \/ UNCHANGED <<beat, queue, latest>>
<1>1. CASE UNCHANGED vars
  BY <1>1 DEF vars
<1>2. ASSUME NEW p \in Pids, MainStep(p)
      PROVE  \/ Send(p) /\ UNCHANGED latest
             \/ StartReporter(p)
             \/ UNCHANGED <<beat, queue, latest>>
  BY <1>2 DEF MainStep, StartReporterFails, Attach, InitFails, LeaveLoop, AfterDrop,
              WriteStopped, Vanish, repVars
<1>3. ASSUME NEW p \in Pids, ReporterStep(p)
      PROVE  Drain(p) \/ UNCHANGED <<beat, queue, latest>>
  BY <1>3 DEF ReporterStep, Arm, TestParent, Publish, ReporterFails, ReporterEnds,
     mainVars
<1>4. ASSUME NEW p \in Pids,
             Launch(p) \/ WriteStats(p) \/ BpfExits(p) \/ Killed(p) \/ Terminate(p)
      PROVE  (Send(p) /\ UNCHANGED latest) \/ UNCHANGED <<beat, queue, latest>>
  BY <1>4 DEF Launch, WriteStats, BpfExits, Killed, Vanish, Terminate, repVars
<1>. QED
  BY <1>1, <1>2, <1>3, <1>4 DEF Next

\* Snapshots stay in order.
LEMMA SnapshotStep == ASSUME TypeOK, SnapshotInv, [Next]_vars PROVE SnapshotInv'
<1>1. ASSUME NEW p \in Pids, Send(p), UNCHANGED latest PROVE SnapshotInv'
  BY <1>1, SendInOrder
<1>2. ASSUME NEW p \in Pids, StartReporter(p) PROVE SnapshotInv'
  BY <1>2 DEF StartReporter, SnapshotInv, TypeOK
<1>3. ASSUME NEW p \in Pids, Drain(p) PROVE SnapshotInv'
  <2>1. /\ Len(queue[p]) \in DOMAIN queue[p]
        /\ latest' = [latest EXCEPT ![p] = queue[p][Len(queue[p])]]
        /\ queue' = [queue EXCEPT ![p] = <<>>] /\ beat' = beat
    BY <1>3 DEF Drain, TypeOK, mainVars
  <2>. QED
    BY <2>1 DEF SnapshotInv, TypeOK
<1>4. CASE UNCHANGED <<beat, queue, latest>>
  BY <1>4 DEF SnapshotInv
<1>. QED
  BY <1>1, <1>2, <1>3, <1>4, NextSnapshots

\* The process has nothing more to say but "stopped".
Final(p) == phase[p] \in {"stopped", "gone"} /\ ReporterGone(p)

\* The snapshot a reporter publishes is never replaced by an older one.
LEMMA LatestGrows ==
  ASSUME TypeOK, SnapshotInv, [Next]_vars
  PROVE  \A q \in Pids : latest[q] <= latest'[q]
<1>1. ASSUME NEW p \in Pids, Drain(p), NEW q \in Pids PROVE latest[q] <= latest'[q]
  <2>1. /\ Len(queue[p]) \in DOMAIN queue[p]
        /\ latest' = [latest EXCEPT ![p] = queue[p][Len(queue[p])]]
    BY <1>1 DEF Drain, TypeOK
  <2>. QED
    BY <2>1, BeatFacts DEF SnapshotInv, TypeOK
<1>2. CASE UNCHANGED latest
  BY <1>2, BeatFacts DEF TypeOK
<1>. QED
  BY <1>1, <1>2, NextSnapshots DEF StartReporter

\* A scheduler that is about to say "stopped" has no reporter and starts none.
LEMMA FinalStays ==
  ASSUME TypeOK, [Next]_vars, NEW q \in Pids, Final(q)
  PROVE  Final(q)'
<1>1. ASSUME NEW p \in Pids, StartReporter(p) PROVE Final(q)'
  BY <1>1 DEF Final, TypeOK, ReporterGone, StartReporter, repVars, fileVars
<1>2. ASSUME NEW p \in Pids, StartReporterFails(p) PROVE Final(q)'
  BY <1>2 DEF Final, TypeOK, ReporterGone, StartReporterFails, ToStopped, repVars
<1>3. ASSUME NEW p \in Pids, Attach(p) PROVE Final(q)'
  BY <1>3 DEF Final, TypeOK, ReporterGone, Attach, repVars, fileVars
<1>4. ASSUME NEW p \in Pids, InitFails(p) PROVE Final(q)'
  BY <1>4 DEF Final, TypeOK, ReporterGone, InitFails, KillReporter, fileVars
<1>5. ASSUME NEW p \in Pids, LeaveLoop(p) PROVE Final(q)'
  BY <1>5 DEF Final, TypeOK, ReporterGone, LeaveLoop, KillReporter, Detach, fileVars
<1>6. ASSUME NEW p \in Pids, AfterDrop(p) PROVE Final(q)'
  <2>1. p # q
    BY <1>6 DEF AfterDrop, Final
  <2>2. \/ phase' = [phase EXCEPT ![p] = "init"]
        \/ phase' = [phase EXCEPT ![p] = "stopped"]
    BY <1>6, Zenon DEF AfterDrop, ToStopped
  <2>3. phase'[q] = phase[q]
    BY <2>1, <2>2 DEF TypeOK
  <2>. QED
    BY <1>6, <2>3 DEF AfterDrop, Final, ReporterGone, repVars
<1>7. ASSUME NEW p \in Pids, WriteStopped(p) PROVE Final(q)'
  BY <1>7 DEF Final, TypeOK, ReporterGone, WriteStopped, Vanish, repVars
<1>8. ASSUME NEW p \in Pids, Arm(p) PROVE Final(q)'
  BY <1>8 DEF Final, TypeOK, ReporterGone, Arm, mainVars, fileVars
<1>9. ASSUME NEW p \in Pids, TestParent(p) PROVE Final(q)'
  BY <1>9 DEF Final, TypeOK, ReporterGone, TestParent, mainVars, fileVars
<1>10. ASSUME NEW p \in Pids, Drain(p) PROVE Final(q)'
  BY <1>10 DEF Final, TypeOK, ReporterGone, Drain, mainVars
<1>11. ASSUME NEW p \in Pids, Publish(p) PROVE Final(q)'
  BY <1>11 DEF Final, TypeOK, ReporterGone, Publish, mainVars
<1>12. ASSUME NEW p \in Pids, ReporterFails(p) PROVE Final(q)'
  BY <1>12 DEF Final, TypeOK, ReporterGone, ReporterFails, mainVars
<1>13. ASSUME NEW p \in Pids, ReporterEnds(p) PROVE Final(q)'
  BY <1>13 DEF Final, TypeOK, ReporterGone, ReporterEnds, Abandon, mainVars
<1>14. ASSUME NEW p \in Pids, Launch(p) PROVE Final(q)'
  BY <1>14 DEF Final, TypeOK, ReporterGone, Launch, repVars, fileVars
<1>15. ASSUME NEW p \in Pids, WriteStats(p) PROVE Final(q)'
  BY <1>15 DEF Final, TypeOK, ReporterGone, WriteStats, Send, fileVars
<1>16. ASSUME NEW p \in Pids, BpfExits(p) PROVE Final(q)'
  BY <1>16 DEF Final, TypeOK, ReporterGone, BpfExits, repVars, fileVars
<1>17. ASSUME NEW p \in Pids, Killed(p) PROVE Final(q)'
  BY <1>17 DEF Final, TypeOK, ReporterGone, Killed, Vanish, Alive, Detach, Orphaned, Abandon
<1>18. ASSUME NEW p \in Pids, Terminate(p) PROVE Final(q)'
  BY <1>18 DEF Final, TypeOK, ReporterGone, Terminate, repVars, fileVars
<1>19. CASE UNCHANGED vars
  BY <1>19 DEF Final, ReporterGone, vars
<1>. QED
  BY <1>1, <1>2, <1>3, <1>4, <1>5, <1>6, <1>7, <1>8, <1>9, <1>10, <1>11, <1>12, <1>13,
     <1>14, <1>15, <1>16, <1>17, <1>18, <1>19 DEF Next, MainStep, ReporterStep

\* What a step does to the writers: one goes on, one stops or one begins.
LEMMA NextWriters ==
  ASSUME [Next]_vars
  PROVE  \/ \E w \in Writers : FileStep(w) /\ UNCHANGED <<latest, overlap>>
         \/ \E w \in Writers : Abandon(w)
         \/ \E w \in Writers : /\ step' = [step EXCEPT ![w] = "create"]
                              /\ UNCHANGED <<fd, tmpFile, statusFile>>
         \/ UNCHANGED <<step, fd, tmpFile, statusFile>>
<1>1. CASE UNCHANGED vars
  BY <1>1 DEF vars
<1>2. ASSUME NEW p \in Pids, MainStep(p)
      PROVE  \/ FileStep(Main(p)) /\ UNCHANGED <<latest, overlap>>
             \/ Abandon(Main(p))
             \/ /\ step' = [step EXCEPT ![Main(p)] = "create"]
                /\ UNCHANGED <<fd, tmpFile, statusFile>>
             \/ UNCHANGED <<step, fd, tmpFile, statusFile>>
  BY <1>2 DEF MainStep, StartReporter, StartReporterFails, Attach, InitFails, LeaveLoop,
              AfterDrop, ToStopped, WriteStopped, Vanish, FileFails, repVars, fileVars
<1>3. ASSUME NEW p \in Pids, ReporterStep(p)
      PROVE  \/ FileStep(Reporter(p)) /\ UNCHANGED <<latest, overlap>>
             \/ Abandon(Reporter(p))
             \/ /\ step' = [step EXCEPT ![Reporter(p)] = "create"]
                /\ UNCHANGED <<fd, tmpFile, statusFile>>
             \/ UNCHANGED <<step, fd, tmpFile, statusFile>>
  BY <1>3 DEF ReporterStep, Arm, TestParent, Drain, Publish, ReporterFails,
     ReporterEnds,
              FileFails, mainVars, fileVars
<1>4. ASSUME NEW p \in Pids,
             Launch(p) \/ WriteStats(p) \/ BpfExits(p) \/ Killed(p) \/ Terminate(p)
      PROVE  Abandon(Main(p)) \/ UNCHANGED <<step, fd, tmpFile, statusFile>>
  BY <1>4 DEF Launch, WriteStats, BpfExits, Killed, Vanish, Terminate, fileVars
<1>. QED
  BY <1>1, <1>2, <1>3, <1>4, WriterPairs DEF Next

\* The files change in a step of SchedulerStatus::write only, and such a step
\* leaves the snapshots and the history alone.
LEMMA NextFiles ==
  ASSUME [Next]_vars
  PROVE  \/ UNCHANGED <<tmpFile, statusFile>>
         \/ \E w \in Writers : FileStep(w) /\ UNCHANGED <<latest, overlap>>
BY NextWriters DEF Abandon

\* RecordInv of one file.
RecordOK(f) ==
  /\ f.kind = "running" => f.beat <= latest[f.pid]
  /\ f.kind = "stopped" => Final(f.pid)

LEMMA RecordParts == RecordInv <=> RecordOK(tmpFile) /\ RecordOK(statusFile)
BY DEF RecordInv, RecordOK, Final

\* What the kinds of a content say.
LEMMA ContentFacts ==
  /\ \A f \in Contents \union {Missing} :
       /\ f.kind \in {"running", "stopped"} <=> f \in Records
       /\ f \notin Records => f.pid = NoPid
  /\ \A f \in Records : /\ f.pid \in Pids /\ f.kind \in {"running", "stopped"}
                        /\ f.beat \in 0 .. MaxBeats
BY BeatFacts DEF Contents, Records, Missing, Empty, Mixed, NoRecord

\* A record that is right stays right while it is in a file.
LEMMA RecordStays ==
  ASSUME TypeOK, SnapshotInv, [Next]_vars,
         NEW f \in Contents \union {Missing}, RecordOK(f),
         TypeOK'
  PROVE  /\ f.kind = "running" => f.beat <= latest'[f.pid]
         /\ f.kind = "stopped" => Final(f.pid)'
<1>1. CASE f.kind = "running"
  <2>1. /\ f.pid \in Pids /\ f.beat \in 0 .. MaxBeats /\ MaxBeats \in Nat
    BY <1>1, ContentFacts, BeatFacts
  <2>2. /\ latest[f.pid] \in 0 .. MaxBeats /\ latest'[f.pid] \in 0 .. MaxBeats
        /\ latest[f.pid] <= latest'[f.pid] /\ f.beat <= latest[f.pid]
    BY <1>1, <2>1, LatestGrows DEF RecordOK, TypeOK
  <2>. QED
    BY <1>1, <2>1, <2>2
<1>2. CASE f.kind = "stopped"
  <2>1. f.pid \in Pids /\ Final(f.pid)
    BY <1>2, ContentFacts DEF RecordOK
  <2>. QED
    BY <1>2, <2>1, FinalStays
<1>. QED
  BY <1>1, <1>2

\* What a writer is about to write is right, and a writer of "stopped" is alone
\* in its process.
LEMMA WrittenRecord ==
  ASSUME TypeOK, WriterInv, NEW w \in Writers, step[w] # "idle"
  PROVE  /\ Record(w) \in Records /\ Record(w).pid = w[1] /\ w[1] \in Pids
         /\ RecordOK(Record(w))
         /\ \/ w[2] = "main" /\ Record(w) = Stopped(w[1]) /\ Final(w[1])
            \/ /\ w[2] = "reporter" /\ Record(w) = Running(w[1], latest[w[1]])
               /\ ~ReporterGone(w[1])
<1>1. Record(w) \in Records /\ Record(w).pid = w[1] /\ w[1] \in Pids
  BY RecordFacts DEF Writers
<1>2. PICK p \in Pids : w = Main(p) \/ w = Reporter(p)
  BY WriterPairs
<1>3. CASE w = Main(p)
  <2>1. w[1] = p /\ w[2] = "main"
    BY <1>3 DEF Main
  <2>2. Final(p)
    BY <1>3 DEF WriterInv, Final
  <2>. QED
    BY <1>1, <2>1, <2>2 DEF Record, Stopped, RecordOK
<1>4. CASE w = Reporter(p)
  <2>1. w[1] = p /\ w[2] = "reporter"
    BY <1>4 DEF Reporter
  <2>2. ~ReporterGone(p)
    BY <1>4 DEF WriterInv, ReporterGone
  <2>3. latest[p] \in Nat
    BY BeatFacts DEF TypeOK
  <2>. QED
    BY <1>1, <2>1, <2>2, <2>3 DEF Record, Running, RecordOK
<1>. QED
  BY <1>2, <1>3, <1>4

\* Two writers of one process are never in their files at the same time.
LEMMA OneWriterEach ==
  ASSUME TypeOK, WriterInv, NEW v \in Writers, NEW w \in Writers,
         step[v] # "idle", step[w] # "idle", v[1] = w[1]
  PROVE  v = w
<1>1. v[2] = w[2]
  BY WrittenRecord DEF Final
<1>. QED
  BY <1>1 DEF Writers

\* How a file step changes the two files.
LEMMA FileEffect ==
  ASSUME TypeOK, WriterInv, NEW w \in Writers, FileStep(w)
  PROVE  \/ CreateTmp(w) /\ tmpFile' = Empty /\ statusFile' = statusFile
         \/ /\ step[w] = "write" /\ tmpFile' \in {Record(w), Mixed}
            /\ statusFile' = statusFile
         \/ /\ step[w] = "write" /\ statusFile' \in {Record(w), Mixed}
            /\ tmpFile' = tmpFile /\ fd[w] = "status"
         \/ step[w] = "write" /\ UNCHANGED <<tmpFile, statusFile>>
         \/ step[w] = "rename" /\ statusFile' = tmpFile /\ tmpFile' = Missing
BY DEF FileStep, CreateTmp, WriteRecord, RenameTmp, Over

\* The files hold published records only.
LEMMA RecordStep ==
  ASSUME TypeOK, WriterInv, SnapshotInv, RecordInv, [Next]_vars
  PROVE  RecordInv'
<1>1. TypeOK'
  BY TypeStep
<1>2. tmpFile \in Contents \union {Missing} /\ statusFile \in Contents \union {Missing}
  BY DEF TypeOK
<1>3. RecordOK(tmpFile) /\ RecordOK(statusFile) /\ RecordOK(Empty) /\ RecordOK(Missing)
      /\ RecordOK(Mixed)
  BY RecordParts DEF RecordOK, Empty, Missing, Mixed, NoRecord
<1>4. CASE UNCHANGED <<tmpFile, statusFile>>
  <2>1. RecordOK(tmpFile)' /\ RecordOK(statusFile)'
    BY <1>1, <1>2, <1>3, <1>4, RecordStays DEF RecordOK
  <2>. QED
    BY <2>1 DEF RecordInv, RecordOK, Final
<1>5. ASSUME NEW w \in Writers, FileStep(w)
      PROVE  RecordInv'
  <2>1. step[w] # "idle" /\ RecordOK(Record(w)) /\ Record(w) \in Contents
    BY <1>5, FileMoves, WrittenRecord DEF Contents
  <2>2. tmpFile' \in {Empty, Record(w), Mixed, tmpFile, Missing}
        /\ statusFile' \in {Record(w), Mixed, statusFile, tmpFile}
    BY <1>5, FileEffect
  <2>3. Empty \in Contents /\ Mixed \in Contents
    BY DEF Contents
  <2>4. /\ RecordOK(tmpFile') /\ tmpFile' \in Contents \union {Missing}
        /\ RecordOK(statusFile') /\ statusFile' \in Contents \union {Missing}
    BY <1>2, <1>3, <2>1, <2>2, <2>3
  <2>5. RecordOK(tmpFile)' /\ RecordOK(statusFile)'
    BY <1>1, <2>4, RecordStays DEF RecordOK
  <2>. QED
    BY <2>5 DEF RecordInv, RecordOK, Final
<1>. QED
  BY <1>4, <1>5, NextFiles

\* A writer comes to write by creating the temporary file.
LEMMA NextWrites ==
  ASSUME TypeOK, WriterInv, [Next]_vars, NEW v \in Writers,
         step[v] # "write", step'[v] = "write"
  PROVE  CreateTmp(v) /\ UNCHANGED <<latest, overlap>>
<1>1. ASSUME NEW w \in Writers, FileStep(w), UNCHANGED <<latest, overlap>>
      PROVE  CreateTmp(v) /\ UNCHANGED <<latest, overlap>>
  <2>1. v = w
    BY <1>1, FileMoves
  <2>. QED
    BY <1>1, <2>1 DEF FileStep, WriteRecord, RenameTmp, Goes, TypeOK
<1>2. ASSUME NEW w \in Writers, Abandon(w) PROVE FALSE
  BY <1>2 DEF TypeOK, Abandon
<1>3. ASSUME NEW w \in Writers, step' = [step EXCEPT ![w] = "create"] PROVE FALSE
  BY <1>3 DEF TypeOK
<1>. QED
  BY <1>1, <1>2, <1>3, NextWriters

\* Age is a number for every record.
LEMMA AgeFacts ==
  \A r \in Records : /\ Age(r) \in Nat /\ Age(r) <= MaxBeats + 1
                     /\ r.kind = "running" => Age(r) = r.beat
                     /\ r.kind = "stopped" => Age(r) = MaxBeats + 1
BY ContentFacts, BeatFacts DEF Age

\* What a writer writes is not older than what any file has of its process.
LEMMA WrittenIsNewest ==
  ASSUME TypeOK, WriterInv, NEW w \in Writers, step[w] # "idle",
         NEW f \in Contents \union {Missing}, RecordOK(f)
  PROVE  Forward(f, Record(w))
<1>1. SUFFICES ASSUME f \in Records, f.pid = w[1]
               PROVE  Age(f) <= Age(Record(w))
  BY WrittenRecord DEF Forward
<1>2. CASE w[2] = "main" /\ Record(w) = Stopped(w[1])
  <2>1. Age(Record(w)) = MaxBeats + 1
    BY <1>2 DEF Age, Stopped
  <2>. QED
    BY <1>1, <2>1, AgeFacts
<1>3. CASE Record(w) = Running(w[1], latest[w[1]]) /\ ~ReporterGone(w[1])
  <2>1. Age(Record(w)) = latest[w[1]]
    BY <1>3 DEF Age, Running
  <2>2. f.kind = "running"
    BY <1>1, <1>3, ContentFacts DEF RecordOK, Final
  <2>. QED
    BY <1>1, <2>1, <2>2, AgeFacts DEF RecordOK
<1>. QED
  BY <1>2, <1>3, WrittenRecord

\* What waits to be renamed stays the newer one.
LEMMA OrderStep ==
  ASSUME TypeOK, WriterInv, RecordInv, OrderInv, [Next]_vars
  PROVE  OrderInv'
<1>1. /\ tmpFile \in Contents \union {Missing} /\ statusFile \in Contents \union {Missing}
      /\ RecordOK(tmpFile) /\ RecordOK(statusFile)
  BY RecordParts DEF TypeOK
<1>2. Forward(statusFile', tmpFile')
  <2>1. CASE UNCHANGED <<tmpFile, statusFile>>
    BY <2>1 DEF OrderInv
  <2>2. ASSUME NEW w \in Writers, FileStep(w)
        PROVE  Forward(statusFile', tmpFile')
    <3>1. step[w] # "idle" /\ Forward(statusFile, Record(w)) /\ Record(w).pid = w[1]
      BY <1>1, <2>2, FileMoves, WrittenRecord, WrittenIsNewest
    <3>2. step[w] = "write" => tmpFile.pid # w[1]
      BY DEF OrderInv
    <3>. QED
      BY <2>2, <3>1, <3>2, FileEffect, BeatFacts DEF Forward, OrderInv
  <2>. QED
    BY <2>1, <2>2, NextFiles
<1>3. ASSUME NEW v \in Writers, step'[v] = "write"
      PROVE  tmpFile'.pid # v[1]
  <2>1. v[1] \in Pids
    BY DEF Writers
  <2>2. CASE UNCHANGED <<tmpFile, statusFile>> /\ step[v] = "write"
    BY <2>2 DEF OrderInv
  <2>3. ASSUME NEW w \in Writers, FileStep(w), step[v] = "write"
        PROVE  tmpFile'.pid # v[1]
    <3>1. step[w] # "idle" /\ Record(w).pid = w[1] /\ tmpFile.pid # v[1]
      BY <2>3, FileMoves, WrittenRecord DEF OrderInv
    <3>2. CASE v = w
      <4>1. ~WriteRecord(w)
        BY <1>3, <2>3, <3>2 DEF WriteRecord, Goes, TypeOK
      <4>. QED
        BY <2>1, <2>3, <3>1, <3>2, <4>1, BeatFacts DEF FileStep, CreateTmp, RenameTmp
    <3>3. CASE v # w
      BY <2>1, <2>3, <3>1, <3>3, FileEffect, OneWriterEach, BeatFacts
    <3>. QED
      BY <3>2, <3>3
  <2>4. CASE step[v] # "write"
    BY <1>3, <2>1, <2>4, NextWrites, BeatFacts DEF CreateTmp
  <2>. QED
    BY <2>2, <2>3, <2>4, NextFiles
<1>. QED
  BY <1>2, <1>3 DEF OrderInv

\* The record a writer has in hand does not change.
LEMMA RecordInHand ==
  ASSUME TypeOK, WriterInv, [Next]_vars, NEW w \in Writers, step[w] # "idle"
  PROVE  Record(w)' = Record(w)
<1>1. CASE UNCHANGED latest
  BY <1>1 DEF Record
<1>2. ASSUME NEW p \in Pids, Drain(p)
      PROVE  Record(w)' = Record(w)
  <2>1. CASE w[2] = "main"
    BY <2>1 DEF Record
  <2>2. CASE w[2] # "main"
    <3>1. w = Reporter(w[1]) /\ w[1] \in Pids
      BY <2>2 DEF Writers, Reporter
    <3>2. w[1] # p
      BY <1>2, <3>1 DEF Drain, WriterInv
    <3>3. latest'[w[1]] = latest[w[1]]
      BY <1>2, <3>1, <3>2 DEF Drain, TypeOK
    <3>. QED
      BY <2>2, <3>3 DEF Record
  <2>. QED
    BY <2>1, <2>2
<1>. QED
  BY <1>1, <1>2, NextSnapshots DEF StartReporter

\* A process that is gone stays gone, and only a launch brings a new one.
LEMMA QuietStays ==
  ASSUME TypeOK, WriterInv, [Next]_vars, NEW q \in Pids, Quiet(q), ~Launch(q)
  PROVE  Quiet(q)'
<1>1. ASSUME NEW p \in Pids, StartReporter(p) PROVE Quiet(q)'
  BY <1>1 DEF Quiet, Alive, ReporterGone, TypeOK, StartReporter, repVars, fileVars
<1>2. ASSUME NEW p \in Pids, StartReporterFails(p) PROVE Quiet(q)'
  BY <1>2 DEF Quiet, Alive, ReporterGone, TypeOK, StartReporterFails, ToStopped, repVars
<1>3. ASSUME NEW p \in Pids, Attach(p) PROVE Quiet(q)'
  BY <1>3 DEF Quiet, Alive, ReporterGone, TypeOK, Attach, repVars, fileVars
<1>4. ASSUME NEW p \in Pids, InitFails(p) PROVE Quiet(q)'
  BY <1>4 DEF Quiet, Alive, ReporterGone, TypeOK, InitFails, KillReporter, fileVars
<1>5. ASSUME NEW p \in Pids, LeaveLoop(p) PROVE Quiet(q)'
  BY <1>5 DEF Quiet, Alive, ReporterGone, TypeOK, LeaveLoop, KillReporter, Detach,
     fileVars
<1>6. ASSUME NEW p \in Pids, AfterDrop(p) PROVE Quiet(q)'
  <2>1. p # q
    BY <1>6 DEF AfterDrop, Quiet, Alive
  <2>2. \/ phase' = [phase EXCEPT ![p] = "init"]
        \/ phase' = [phase EXCEPT ![p] = "stopped"]
    BY <1>6, Zenon DEF AfterDrop, ToStopped
  <2>3. phase'[q] = phase[q]
    BY <2>1, <2>2 DEF TypeOK
  <2>. QED
    BY <1>6, <2>3 DEF AfterDrop, Quiet, Alive, ReporterGone, repVars
<1>7. ASSUME NEW p \in Pids, WriteStopped(p) PROVE Quiet(q)'
  BY <1>7 DEF Quiet, Alive, ReporterGone, TypeOK, WriteStopped, Vanish, repVars
<1>8. ASSUME NEW p \in Pids, Arm(p) PROVE Quiet(q)'
  BY <1>8 DEF Quiet, Alive, ReporterGone, TypeOK, Arm, mainVars, fileVars
<1>9. ASSUME NEW p \in Pids, TestParent(p) PROVE Quiet(q)'
  BY <1>9 DEF Quiet, Alive, ReporterGone, TypeOK, TestParent, mainVars, fileVars
<1>10. ASSUME NEW p \in Pids, Drain(p) PROVE Quiet(q)'
  BY <1>10 DEF Quiet, Alive, ReporterGone, TypeOK, Drain, mainVars
<1>11. ASSUME NEW p \in Pids, Publish(p) PROVE Quiet(q)'
  BY <1>11 DEF Quiet, Alive, ReporterGone, TypeOK, Publish, mainVars
<1>12. ASSUME NEW p \in Pids, ReporterFails(p) PROVE Quiet(q)'
  BY <1>12 DEF Quiet, Alive, ReporterGone, TypeOK, ReporterFails, mainVars
<1>13. ASSUME NEW p \in Pids, ReporterEnds(p) PROVE Quiet(q)'
  BY <1>13 DEF Quiet, Alive, ReporterGone, TypeOK, ReporterEnds, mainVars
<1>14. ASSUME NEW p \in Pids, Launch(p) PROVE Quiet(q)'
  BY <1>14 DEF Quiet, Alive, ReporterGone, TypeOK, Launch, repVars, fileVars
<1>15. ASSUME NEW p \in Pids, WriteStats(p) PROVE Quiet(q)'
  BY <1>15 DEF Quiet, Alive, ReporterGone, TypeOK, WriteStats, Send, fileVars
<1>16. ASSUME NEW p \in Pids, BpfExits(p) PROVE Quiet(q)'
  BY <1>16 DEF Quiet, Alive, ReporterGone, TypeOK, BpfExits, repVars, fileVars
<1>17. ASSUME NEW p \in Pids, Killed(p) PROVE Quiet(q)'
  BY <1>17 DEF Quiet, Alive, ReporterGone, TypeOK, Killed, Vanish, Detach, Orphaned, Abandon
<1>18. ASSUME NEW p \in Pids, Terminate(p) PROVE Quiet(q)'
  BY <1>18 DEF Quiet, Alive, ReporterGone, TypeOK, Terminate, repVars, fileVars
<1>19. CASE UNCHANGED vars
  BY <1>19 DEF Quiet, Alive, ReporterGone, vars
<1>. QED
  BY <1>1, <1>2, <1>3, <1>4, <1>5, <1>6, <1>7, <1>8, <1>9, <1>10, <1>11, <1>12, <1>13,
     <1>14, <1>15, <1>16, <1>17, <1>18, <1>19 DEF Next, MainStep, ReporterStep

\* Who writes is not gone.
LEMMA WritersBusy ==
  ASSUME TypeOK, WriterInv, NEW w \in Writers, step[w] # "idle"
  PROVE  ~Quiet(w[1])
<1>1. CASE \E p \in Pids : w = Main(p)
  BY <1>1 DEF WriterInv, Quiet, Alive, Main
<1>2. CASE \E p \in Pids : w = Reporter(p)
  BY <1>2 DEF WriterInv, Quiet, ReporterGone, Reporter
<1>. QED
  BY <1>1, <1>2, WriterPairs

\* The history never forgets, and a launch beside another process is seen.
LEMMA OverlapStays ==
  ASSUME [Next]_vars, ~overlap'
  PROVE  /\ ~overlap
         /\ \A p \in Pids : Launch(p) => \A q \in Pids : Quiet(q)
<1>1. ~overlap
  BY DEF Next, MainStep, ReporterStep, Launch, WriteStats, BpfExits, Killed, Vanish, Terminate,
         StartReporter, StartReporterFails, Attach, InitFails, LeaveLoop, AfterDrop,
         WriteStopped, Vanish, Arm, TestParent, Drain, Publish, ReporterFails, ReporterEnds,
         mainVars, vars
<1>. QED
  BY <1>1 DEF Launch

\* One scheduler at a time has its temporary file for itself.
LEMMA AloneStep ==
  ASSUME TypeOK, WriterInv, AloneInv, [Next]_vars
  PROVE  AloneInv'
<1>1. SUFFICES ASSUME ~overlap'
               PROVE  /\ \A p, q \in Pids : ~Quiet(p)' /\ ~Quiet(q)' => p = q
                      /\ \A w \in Writers :
                           /\ step'[w] = "write" => fd'[w] = "tmp" /\ tmpFile' = Empty
                           /\ step'[w] = "rename" => tmpFile' = Record(w)'
  BY DEF AloneInv
<1>2. /\ \A p, q \in Pids : ~Quiet(p) /\ ~Quiet(q) => p = q
      /\ \A w \in Writers : /\ step[w] = "write" => fd[w] = "tmp" /\ tmpFile = Empty
                            /\ step[w] = "rename" => tmpFile = Record(w)
      /\ \A p \in Pids : Launch(p) => \A q \in Pids : Quiet(q)
  BY <1>1, OverlapStays DEF AloneInv
<1>3. ASSUME NEW p \in Pids, NEW q \in Pids, ~Quiet(p)', ~Quiet(q)'
      PROVE  p = q
  <2>1. CASE \E r \in Pids : Launch(r)
    <3>1. PICK r \in Pids : Launch(r)
      BY <2>1
    <3>2. \A s \in Pids : Quiet(s)
      BY <1>2, <3>1
    <3>3. \A s \in Pids : s # r => ~Launch(s)
      BY <3>1 DEF Launch, TypeOK
    <3>. QED
      BY <1>3, <3>2, <3>3, QuietStays
  <2>2. CASE ~\E r \in Pids : Launch(r)
    BY <1>2, <1>3, <2>2, QuietStays
  <2>. QED
    BY <2>1, <2>2
<1>4. ASSUME NEW v \in Writers, NEW w \in Writers, step[v] # "idle", step[w] # "idle"
      PROVE  v = w
  <2>1. ~Quiet(v[1]) /\ ~Quiet(w[1]) /\ v[1] \in Pids /\ w[1] \in Pids
    BY <1>4, WrittenRecord, WritersBusy
  <2>. QED
    BY <1>2, <1>4, <2>1, OneWriterEach
<1>5. ASSUME NEW w \in Writers, step'[w] = "write"
      PROVE  fd'[w] = "tmp" /\ tmpFile' = Empty
  <2>1. CASE step[w] # "write"
    BY <1>5, <2>1, NextWrites DEF CreateTmp, Goes, TypeOK
  <2>2. CASE step[w] = "write"
    <3>1. fd[w] = "tmp" /\ tmpFile = Empty
      BY <1>2, <2>2
    <3>2. ASSUME NEW v \in Writers, FileStep(v) PROVE FALSE
      <4>1. v = w
        BY <1>4, <2>2, <3>2, FileMoves
      <4>. QED
        BY <1>5, <2>2, <3>2, <4>1 DEF FileStep, CreateTmp, WriteRecord, RenameTmp, Goes,
           TypeOK
    <3>3. ASSUME NEW v \in Writers, Abandon(v) PROVE fd'[w] = fd[w] /\ tmpFile' = tmpFile
      BY <1>5, <3>3 DEF Abandon, TypeOK
    <3>. QED
      BY <3>1, <3>2, <3>3, NextWriters
  <2>. QED
    BY <2>1, <2>2
<1>6. ASSUME NEW w \in Writers, step'[w] = "rename"
      PROVE  tmpFile' = Record(w)'
  <2>1. ASSUME NEW v \in Writers, FileStep(v), UNCHANGED latest
        PROVE  tmpFile' = Record(w)'
    <3>1. step[w] # "idle" \/ v = w
      BY <1>6, <2>1, FileMoves
    <3>2. v = w
      BY <1>4, <2>1, <3>1, FileMoves
    <3>3. WriteRecord(w) /\ step[w] = "write"
      BY <1>6, <2>1, <3>2 DEF FileStep, CreateTmp, RenameTmp, WriteRecord, Goes, TypeOK
    <3>4. tmpFile' = Record(w)
      BY <1>2, <3>3 DEF WriteRecord, Over
    <3>. QED
      BY <3>3, <3>4, RecordInHand
  <2>2. CASE step[w] = "rename" /\ tmpFile' = tmpFile
    BY <1>2, <2>2, RecordInHand
  <2>3. ASSUME NEW v \in Writers, Abandon(v)
        PROVE  step[w] = "rename" /\ tmpFile' = tmpFile
    BY <1>6, <2>3 DEF Abandon, TypeOK
  <2>4. ASSUME NEW v \in Writers, step' = [step EXCEPT ![v] = "create"]
        PROVE  step[w] = "rename"
    BY <1>6, <2>4 DEF TypeOK
  <2>. QED
    BY <1>6, <2>1, <2>2, <2>3, <2>4, NextWriters
<1>. QED
  BY <1>3, <1>5, <1>6

\* A scheduler that has its temporary file for itself renames a whole record.
LEMMA WholeStep ==
  ASSUME TypeOK, WriterInv, AloneInv, FileWhole, [Next]_vars
  PROVE  FileWhole'
<1>1. SUFFICES ASSUME ~overlap'
               PROVE  statusFile' \in Records \union {Missing}
  BY DEF FileWhole
<1>2. ~overlap /\ statusFile \in Records \union {Missing}
  BY <1>1, OverlapStays DEF FileWhole
<1>3. ASSUME NEW w \in Writers, FileStep(w)
      PROVE  statusFile' \in Records \union {Missing}
  <2>1. step[w] # "idle" /\ Record(w) \in Records
    BY <1>3, FileMoves, WrittenRecord
  <2>2. /\ step[w] = "write" => fd[w] = "tmp"
        /\ step[w] = "rename" => tmpFile = Record(w)
    BY <1>2 DEF AloneInv
  <2>. QED
    BY <1>2, <1>3, <2>1, <2>2 DEF FileStep, CreateTmp, WriteRecord, RenameTmp
<1>. QED
  BY <1>2, <1>3, NextFiles

LEMMA InitInv == Init => IInv
<1>. SUFFICES ASSUME Init PROVE IInv
  OBVIOUS
<1>0. <<>> \in Seq(0 .. MaxBeats) /\ Len(<<>>) <= QueueCap /\ DOMAIN <<>> = {}
  BY PublisherAssumption
<1>1. TypeOK
  BY <1>0, PublisherAssumption, BeatFacts DEF Init, TypeOK, Phases
<1>2. WriterInv
  BY WriterPairs DEF Init, WriterInv, ReporterGone
<1>3. SnapshotInv
  <2>1. \A p \in Pids : latest[p] <= beat[p]
    <3>1. \A p \in Pids : latest[p] = 0 /\ beat[p] = 0
      BY DEF Init
    <3>2. 0 <= 0
      OBVIOUS
    <3>. QED
      BY <3>1, <3>2, Zenon
  <2>2. \A p \in Pids : \A i \in DOMAIN queue[p] : FALSE
    BY <1>0 DEF Init
  <2>. QED
    BY <2>1, <2>2, Zenon DEF SnapshotInv
<1>4. RecordInv
  BY BeatFacts DEF Init, RecordInv, Missing, NoRecord
<1>5. OrderInv
  BY BeatFacts DEF Init, OrderInv, Forward
<1>6. AloneInv
  BY DEF Init, AloneInv, Quiet, Alive, ReporterGone
<1>7. FileWhole
  BY DEF Init, FileWhole
<1>. QED
  BY <1>1, <1>2, <1>3, <1>4, <1>5, <1>6, <1>7 DEF IInv

LEMMA InvStep == IInv /\ [Next]_vars => IInv'
BY TypeStep, WriterStep, SnapshotStep, RecordStep, OrderStep, AloneStep, WholeStep DEF
   IInv

\* Writers, snapshots and files stay in order, for every set of schedulers and
\* every socket (reporter.rs, status.rs, main.rs).
THEOREM InductiveInvariant == Spec => []IInv
BY InitInv, InvStep, PTL DEF Spec

\* The state stays within its types; in particular a socket never holds more
\* than its capacity (send_snapshot).
THEOREM TypeCorrect == Spec => []TypeOK
BY InductiveInvariant, PTL DEF IInv

\* As long as no scheduler is launched beside another one, nobody ever reads a
\* partial scheduler.json (SchedulerStatus::write).
THEOREM WholeRecords == Spec => []FileWhole
BY InductiveInvariant, PTL DEF IInv

\* No step replaces a record of a process by an older one of that process.
LEMMA ForwardStep == IInv /\ [Next]_vars => Forward(statusFile, statusFile')
<1>. SUFFICES ASSUME IInv, [Next]_vars PROVE Forward(statusFile, statusFile')
  OBVIOUS
<1>1. /\ TypeOK /\ WriterInv /\ RecordOK(statusFile) /\ Forward(statusFile, tmpFile)
      /\ statusFile \in Contents \union {Missing}
  BY RecordParts DEF IInv, OrderInv, TypeOK
<1>2. Forward(statusFile, statusFile)
  BY AgeFacts DEF Forward
<1>3. ASSUME NEW w \in Writers, FileStep(w)
      PROVE  Forward(statusFile, statusFile')
  <2>1. Forward(statusFile, Record(w)) /\ Forward(statusFile, Mixed)
    BY <1>1, <1>3, FileMoves, WrittenIsNewest, BeatFacts DEF Forward
  <2>. QED
    BY <1>1, <1>2, <1>3, <2>1, FileEffect
<1>. QED
  BY <1>2, <1>3, NextFiles

\* The record of a process only moves forward, however many schedulers, dead
\* reporters and restarts there are (Reporter::drop, main).
THEOREM RecordsForward == Spec => RecordsMoveForward
<1>1. IInv /\ [Next]_vars => [Forward(statusFile, statusFile')]_vars
  BY ForwardStep
<1>. QED
  BY <1>1, InductiveInvariant, PTL DEF Spec, RecordsMoveForward

(***************************************************************************)
(* The contract with cerynthd.                                             *)
(***************************************************************************)
\* Flag, exit info and attachment follow the phases of the process.
LEMMA PhaseStep == ASSUME TypeOK, PhaseInv, [Next]_vars PROVE PhaseInv'
<1>1. ASSUME NEW p \in Pids, StartReporter(p) PROVE PhaseInv'
  BY <1>1 DEF StartReporter, repVars, fileVars, PhaseInv, TypeOK
<1>2. ASSUME NEW p \in Pids, StartReporterFails(p) PROVE PhaseInv'
  BY <1>2 DEF StartReporterFails, repVars, ToStopped, PhaseInv, TypeOK
<1>3. ASSUME NEW p \in Pids, Attach(p) PROVE PhaseInv'
  BY <1>3 DEF Attach, repVars, fileVars, PhaseInv, TypeOK
<1>4. ASSUME NEW p \in Pids, InitFails(p) PROVE PhaseInv'
  BY <1>4 DEF InitFails, KillReporter, fileVars, PhaseInv, TypeOK
<1>5. ASSUME NEW p \in Pids, LeaveLoop(p) PROVE PhaseInv'
  BY <1>5 DEF LeaveLoop, KillReporter, Detach, fileVars, PhaseInv, TypeOK
<1>6. ASSUME NEW p \in Pids, AfterDrop(p) PROVE PhaseInv'
  <2>1. \/ phase' = [phase EXCEPT ![p] = "init"] /\ exit[p] = "restart"
        \/ phase' = [phase EXCEPT ![p] = "stopped"] /\ exit[p] # "restart"
    BY <1>6, Zenon DEF AfterDrop, ToStopped
  <2>. QED
    BY <1>6, <2>1 DEF AfterDrop, repVars, PhaseInv, TypeOK
<1>7. ASSUME NEW p \in Pids, WriteStopped(p) PROVE PhaseInv'
  <2>1. phase[p] = "stopped" /\ UNCHANGED attached
    BY <1>7 DEF WriteStopped
  <2>2. CASE Vanish(p)
    BY <2>1, <2>2 DEF Vanish, PhaseInv, TypeOK
  <2>3. CASE UNCHANGED <<phase, handler, heard, exit>>
    BY <2>1, <2>3 DEF PhaseInv
  <2>. QED
    BY <1>7, <2>2, <2>3 DEF WriteStopped
<1>8. ASSUME NEW p \in Pids, Arm(p) PROVE PhaseInv'
  BY <1>8 DEF Arm, mainVars, fileVars, PhaseInv, TypeOK
<1>9. ASSUME NEW p \in Pids, TestParent(p) PROVE PhaseInv'
  BY <1>9 DEF TestParent, mainVars, fileVars, PhaseInv, TypeOK
<1>10. ASSUME NEW p \in Pids, Drain(p) PROVE PhaseInv'
  BY <1>10 DEF Drain, mainVars, PhaseInv, TypeOK
<1>11. ASSUME NEW p \in Pids, Publish(p) PROVE PhaseInv'
  BY <1>11 DEF Publish, mainVars, PhaseInv, TypeOK
<1>12. ASSUME NEW p \in Pids, ReporterFails(p) PROVE PhaseInv'
  BY <1>12 DEF ReporterFails, mainVars, PhaseInv, TypeOK
<1>13. ASSUME NEW p \in Pids, ReporterEnds(p) PROVE PhaseInv'
  BY <1>13 DEF ReporterEnds, mainVars, Abandon, PhaseInv, TypeOK
<1>14. ASSUME NEW p \in Pids, Launch(p) PROVE PhaseInv'
  BY <1>14 DEF Launch, repVars, fileVars, PhaseInv, TypeOK
<1>15. ASSUME NEW p \in Pids, WriteStats(p) PROVE PhaseInv'
  BY <1>15 DEF WriteStats, Send, fileVars, PhaseInv, TypeOK
<1>16. ASSUME NEW p \in Pids, BpfExits(p) PROVE PhaseInv'
  BY <1>16, BeatFacts DEF BpfExits, repVars, fileVars, PhaseInv, TypeOK
<1>17. ASSUME NEW p \in Pids, Killed(p) PROVE PhaseInv'
  BY <1>17 DEF Killed, Vanish, Alive, Detach, Orphaned, Abandon, PhaseInv, TypeOK
<1>18. ASSUME NEW p \in Pids, Terminate(p) PROVE PhaseInv'
  BY <1>18 DEF Terminate, repVars, fileVars, PhaseInv, TypeOK
<1>19. CASE UNCHANGED vars
  BY <1>19 DEF vars, mainVars, repVars, fileVars, PhaseInv, TypeOK
<1>. QED
  BY <1>1, <1>2, <1>3, <1>4, <1>5, <1>6, <1>7, <1>8, <1>9, <1>10, <1>11, <1>12, <1>13, <1>14,
     <1>15, <1>16, <1>17, <1>18, <1>19
     DEF Next, MainStep, ReporterStep

\* A process of which no reader may have heard.
Fresh(q) == IsUntried(q) \/ phase[q] = "absent"

\* Nobody becomes untried but by a launch, and a process that stays untried has
\* sent nothing.
LEMMA FreshStep ==
  ASSUME TypeOK, PhaseInv, ServedInv, [Next]_vars, NEW q \in Pids, Fresh(q)'
  PROVE  Fresh(q) /\ queue'[q] = <<>> /\ reporter'[q] # "publishing"
<1>. DEFINE Goal == Fresh(q) /\ queue'[q] = <<>> /\ reporter'[q] # "publishing"
<1>1. ASSUME NEW p \in Pids, StartReporter(p) PROVE Goal
  BY <1>1 DEF StartReporter, repVars, fileVars, Fresh, IsUntried, PhaseInv, ServedInv, TypeOK
<1>2. ASSUME NEW p \in Pids, StartReporterFails(p) PROVE Goal
  BY <1>2 DEF StartReporterFails, repVars, ToStopped, Fresh, IsUntried, PhaseInv, ServedInv,
     TypeOK
<1>3. ASSUME NEW p \in Pids, Attach(p) PROVE Goal
  BY <1>3 DEF Attach, repVars, fileVars, Fresh, IsUntried, PhaseInv, ServedInv, TypeOK
<1>4. ASSUME NEW p \in Pids, InitFails(p) PROVE Goal
  BY <1>4 DEF InitFails, KillReporter, fileVars, Fresh, IsUntried, PhaseInv, ServedInv, TypeOK
<1>5. ASSUME NEW p \in Pids, LeaveLoop(p) PROVE Goal
  BY <1>5 DEF LeaveLoop, KillReporter, Detach, fileVars, Fresh, IsUntried, PhaseInv,
     ServedInv, TypeOK
<1>6. ASSUME NEW p \in Pids, AfterDrop(p) PROVE Goal
  <2>1. \/ phase' = [phase EXCEPT ![p] = "init"] /\ exit[p] = "restart"
        \/ phase' = [phase EXCEPT ![p] = "stopped"] /\ exit[p] # "restart"
    BY <1>6, Zenon DEF AfterDrop, ToStopped
  <2>. QED
    BY <1>6, <2>1 DEF AfterDrop, repVars, Fresh, IsUntried, PhaseInv, ServedInv, TypeOK
<1>7. ASSUME NEW p \in Pids, WriteStopped(p) PROVE Goal
  BY <1>7 DEF WriteStopped, Vanish, repVars, Fresh, IsUntried, PhaseInv, ServedInv, TypeOK
<1>8. ASSUME NEW p \in Pids, Arm(p) PROVE Goal
  BY <1>8 DEF Arm, mainVars, fileVars, Fresh, IsUntried, PhaseInv, ServedInv, TypeOK
<1>9. ASSUME NEW p \in Pids, TestParent(p) PROVE Goal
  BY <1>9 DEF TestParent, mainVars, fileVars, Fresh, IsUntried, PhaseInv, ServedInv, TypeOK
<1>10. ASSUME NEW p \in Pids, Drain(p) PROVE Goal
  BY <1>10 DEF Drain, mainVars, Fresh, IsUntried, PhaseInv, ServedInv, TypeOK
<1>11. ASSUME NEW p \in Pids, Publish(p) PROVE Goal
  BY <1>11 DEF Publish, mainVars, Fresh, IsUntried, PhaseInv, ServedInv, TypeOK
<1>12. ASSUME NEW p \in Pids, ReporterFails(p) PROVE Goal
  BY <1>12 DEF ReporterFails, mainVars, Fresh, IsUntried, PhaseInv, ServedInv, TypeOK
<1>13. ASSUME NEW p \in Pids, ReporterEnds(p) PROVE Goal
  BY <1>13 DEF ReporterEnds, mainVars, Abandon, Fresh, IsUntried, PhaseInv, ServedInv, TypeOK
<1>14. ASSUME NEW p \in Pids, Launch(p) PROVE Goal
  BY <1>14 DEF Launch, repVars, fileVars, Fresh, IsUntried, PhaseInv, ServedInv, TypeOK
<1>15. ASSUME NEW p \in Pids, WriteStats(p) PROVE Goal
  BY <1>15 DEF WriteStats, Send, fileVars, Fresh, IsUntried, PhaseInv, ServedInv, TypeOK
<1>16. ASSUME NEW p \in Pids, BpfExits(p) PROVE Goal
  BY <1>16 DEF BpfExits, repVars, fileVars, Fresh, IsUntried, PhaseInv, ServedInv, TypeOK
<1>17. ASSUME NEW p \in Pids, Killed(p) PROVE Goal
  BY <1>17 DEF Killed, Vanish, Alive, Detach, Orphaned, Abandon, Fresh, IsUntried, PhaseInv,
     ServedInv, TypeOK
<1>18. ASSUME NEW p \in Pids, Terminate(p) PROVE Goal
  BY <1>18 DEF Terminate, repVars, fileVars, Fresh, IsUntried, PhaseInv, ServedInv, TypeOK
<1>19. CASE UNCHANGED vars
  BY <1>19 DEF vars, mainVars, repVars, fileVars, Fresh, IsUntried, PhaseInv, ServedInv, TypeOK
<1>. QED
  BY <1>1, <1>2, <1>3, <1>4, <1>5, <1>6, <1>7, <1>8, <1>9, <1>10, <1>11, <1>12, <1>13, <1>14,
     <1>15, <1>16, <1>17, <1>18, <1>19
     DEF Next, MainStep, ReporterStep

\* Whoever a step of SchedulerStatus::write puts into a file as running has
\* attached before.
LEMMA WrittenHasAttached ==
  ASSUME TypeOK, WriterInv, ServedInv, NEW w \in Writers, FileStep(w),
         NEW f \in {tmpFile', statusFile'}, f.kind = "running"
  PROVE  f.pid \in Pids /\ ~Fresh(f.pid)
<1>1. step[w] # "idle"
  BY FileMoves
<1>2. f \in {Empty, Missing, Mixed, Record(w), tmpFile, statusFile}
  BY FileEffect
<1>3. CASE f = Record(w)
  <2>1. w = Reporter(w[1]) /\ f.pid = w[1] /\ w[1] \in Pids
    BY <1>1, <1>3, WrittenRecord DEF Writers, Reporter, Stopped
  <2>2. reporter[w[1]] = "publishing"
    BY <1>1, <2>1 DEF WriterInv
  <2>. QED
    BY <2>1, <2>2 DEF ServedInv, Fresh
<1>4. CASE f \in {tmpFile, statusFile}
  <2>1. f.pid \in Pids
    BY <1>4, ContentFacts DEF TypeOK
  <2>. QED
    BY <1>4, <2>1 DEF ServedInv, Fresh
<1>. QED
  BY <1>2, <1>3, <1>4 DEF Empty, Missing, Mixed, NoRecord

LEMMA ServedStep ==
  ASSUME TypeOK, WriterInv, PhaseInv, ServedInv, [Next]_vars
  PROVE  ServedInv'
<1>. SUFFICES ASSUME NEW q \in Pids, Fresh(q)'
             PROVE  /\ queue'[q] = <<>> /\ reporter'[q] # "publishing"
                    /\ \A f \in {tmpFile', statusFile'} : f.kind = "running" => f.pid # q
  BY DEF ServedInv, Fresh
<1>1. Fresh(q) /\ queue'[q] = <<>> /\ reporter'[q] # "publishing"
  BY FreshStep
<1>2. CASE UNCHANGED <<tmpFile, statusFile>>
  BY <1>1, <1>2 DEF ServedInv, Fresh
<1>3. ASSUME NEW w \in Writers, FileStep(w)
      PROVE  \A f \in {tmpFile', statusFile'} : f.kind = "running" => f.pid # q
  BY <1>1, <1>3, WrittenHasAttached
<1>. QED
  BY <1>1, <1>2, <1>3, NextFiles

\* Who is not touched by a step stays tried or untried; so does the rest of what
\* the contract sees.
LEMMA NamedTruthful ==
  ASSUME TypeOK, ServedInv
  PROVE  Named \in Contract!Truthful
<1>1. statusFile.kind = "running" => statusFile.pid \in Pids
  BY ContentFacts DEF TypeOK
<1>. QED
  BY <1>1 DEF ServedInv, Named, Contract!Truthful, Untried

\* The record that the rename, or a write into the open status file, leaves.
LEMMA WrittenTruthful ==
  ASSUME TypeOK, WriterInv, ServedInv, NEW w \in Writers, FileStep(w)
  PROVE  Named' \in Contract!Truthful
BY WrittenHasAttached DEF Named, Contract!Truthful, Untried, Fresh

\* Each step of a scheduler or a reporter is one of the contract, or none.
LEMMA ContractStep ==
  ASSUME IInv, PhaseInv, ServedInv, [Next]_vars
  PROVE  [Contract!Next]_Contract!vars
<1>. USE DEF IInv, Contract!Next, Contract!vars
<1>1. ASSUME \A q \in Pids : IsUntried(q)' <=> IsUntried(q) PROVE Untried' = Untried
  BY <1>1 DEF Untried
<1>2. UNCHANGED statusFile => Named' = Named
  BY DEF Named
<1>3. UNCHANGED attached => Holders' = Holders
  BY DEF Holders
<1>4. ASSUME NEW p \in Pids, UNCHANGED <<attached, statusFile>>,
             \A q \in Pids : IsUntried(q)' <=> IsUntried(q)
      PROVE  UNCHANGED Contract!vars
  BY <1>1, <1>2, <1>3, <1>4
<1>5. ASSUME NEW p \in Pids, Detach(p), phase[p] = "running" \/ attached = p, UNCHANGED statusFile,
             \A q \in Pids : IsUntried(q)' <=> IsUntried(q)
      PROVE  Contract!Next
  <2>1. Holders' = Holders \ {p}
    BY <1>5 DEF Detach, Holders
  <2>. QED
    BY <1>1, <1>2, <1>5, <2>1 DEF Contract!Detach
<1>6. ASSUME NEW p \in Pids, StartReporter(p) \/ StartReporterFails(p) PROVE UNCHANGED Contract!vars
  <2>1. \A q \in Pids : IsUntried(q)' <=> IsUntried(q)
    BY <1>6 DEF StartReporter, StartReporterFails, ToStopped, IsUntried, PhaseInv, TypeOK
  <2>. QED
    BY <1>4, <1>6, <2>1 DEF StartReporter, StartReporterFails, fileVars
<1>7. ASSUME NEW p \in Pids, InitFails(p) \/ WriteStats(p) PROVE UNCHANGED Contract!vars
  <2>1. \A q \in Pids : IsUntried(q)' <=> IsUntried(q)
    BY <1>7 DEF InitFails, WriteStats, KillReporter, IsUntried, PhaseInv, TypeOK
  <2>. QED
    BY <1>4, <1>7, <2>1 DEF InitFails, WriteStats, fileVars
<1>8. ASSUME NEW p \in Pids, AfterDrop(p) PROVE UNCHANGED Contract!vars
  <2>1. \/ phase' = [phase EXCEPT ![p] = "init"] /\ exit[p] = "restart"
        \/ phase' = [phase EXCEPT ![p] = "stopped"] /\ exit[p] # "restart"
    BY <1>8, Zenon DEF AfterDrop, ToStopped
  <2>2. phase[p] = "wait" /\ UNCHANGED <<handler, exit, attached, statusFile>>
    BY <1>8 DEF AfterDrop
  <2>3. \A q \in Pids : IsUntried(q)' <=> IsUntried(q)
    BY <2>1, <2>2 DEF IsUntried, PhaseInv, TypeOK
  <2>. QED
    BY <1>4, <2>2, <2>3
<1>9. ASSUME NEW p \in Pids, Terminate(p) \/ Arm(p) \/ TestParent(p) \/ Drain(p)
                             \/ ReporterFails(p) \/ ReporterEnds(p)
      PROVE  UNCHANGED Contract!vars
  <2>1. UNCHANGED <<phase, handler, exit, attached, statusFile>>
    BY <1>9 DEF Terminate, Arm, TestParent, Drain, ReporterFails, ReporterEnds, FileFails,
       Abandon, mainVars, fileVars
  <2>2. \A q \in Pids : IsUntried(q)' <=> IsUntried(q)
    BY <2>1 DEF IsUntried
  <2>. QED
    BY <1>4, <2>1, <2>2
<1>10. ASSUME NEW p \in Pids, Attach(p) PROVE Contract!Next
  <2>1. \A q \in Pids : IsUntried(q)' <=> IsUntried(q) /\ q # p
    BY <1>10 DEF Attach, IsUntried, TypeOK
  <2>2. Untried' = Untried \ {p}
    BY <2>1 DEF Untried
  <2>3. Holders = {} /\ Holders' = {p}
    BY <1>10, BeatFacts DEF Attach, Holders
  <2>4. Contract!Attach(p)
    BY <1>2, <1>10, <2>2, <2>3 DEF Attach, fileVars, Contract!Attach
  <2>. QED
    BY <2>4
<1>11. ASSUME NEW p \in Pids, LeaveLoop(p) \/ BpfExits(p) PROVE Contract!Next
  <2>1. \A q \in Pids : IsUntried(q)' <=> IsUntried(q)
    BY <1>11, BeatFacts DEF LeaveLoop, BpfExits, KillReporter, IsUntried, PhaseInv, TypeOK
  <2>2. Detach(p) /\ (phase[p] = "running" \/ attached = p) /\ UNCHANGED statusFile
    BY <1>11 DEF LeaveLoop, BpfExits, Detach, fileVars
  <2>. QED
    BY <1>5, <2>1, <2>2
<1>12. ASSUME NEW p \in Pids, Launch(p) PROVE Contract!Next
  <2>1. \A q \in Pids : IsUntried(q)' <=> IsUntried(q) \/ q = p
    BY <1>12 DEF Launch, IsUntried, TypeOK, PhaseInv
  <2>2. Untried' = Untried \union {p}
    BY <2>1 DEF Untried
  <2>3. phase[p] = "absent" /\ UNCHANGED <<attached, statusFile>>
    BY <1>12 DEF Launch, fileVars
  <2>4. p \notin Untried \union Holders
    BY <2>3, BeatFacts DEF Untried, IsUntried, Holders, PhaseInv
  <2>5. p # Named
    BY <2>3, BeatFacts DEF ServedInv, Named
  <2>6. Contract!Launch(p)
    BY <1>2, <1>3, <2>2, <2>3, <2>4, <2>5 DEF Contract!Launch
  <2>. QED
    BY <2>6
<1>13. ASSUME NEW p \in Pids, Killed(p) PROVE Contract!Next
  <2>1. \A q \in Pids : IsUntried(q)' <=> IsUntried(q) /\ q # p
    BY <1>13 DEF Killed, Vanish, IsUntried, TypeOK
  <2>2. Untried' = Untried \ {p} /\ Holders' = Holders \ {p}
    BY <1>13, <2>1 DEF Killed, Vanish, Detach, Untried, Holders
  <2>3. Named' \in Contract!Truthful
    BY <1>2, <1>13, NamedTruthful DEF Killed, Vanish, Abandon
  <2>4. Contract!End(p)
    BY <2>2, <2>3 DEF Contract!End
  <2>. QED
    BY <2>4
<1>14. ASSUME NEW p \in Pids, WriteStopped(p) PROVE Contract!Next
  <2>1. Named' \in Contract!Truthful
    <3>1. CASE FileStep(Main(p))
      BY <3>1, WrittenTruthful, WriterPairs
    <3>2. CASE FileFails(Main(p))
      BY <1>2, <3>2, NamedTruthful DEF FileFails, Abandon
    <3>. QED
      BY <1>14, <3>1, <3>2 DEF WriteStopped
  <2>2. UNCHANGED attached
    BY <1>14 DEF WriteStopped
  <2>3. CASE UNCHANGED <<phase, handler, heard, exit>>
    <3>1. \A q \in Pids : IsUntried(q)' <=> IsUntried(q)
      BY <2>2, <2>3 DEF IsUntried
    <3>2. Contract!Report
      BY <1>1, <1>3, <2>1, <2>2, <3>1 DEF Contract!Report
    <3>. QED
      BY <3>2
  <2>4. CASE Vanish(p)
    <3>1. \A q \in Pids : IsUntried(q)' <=> IsUntried(q) /\ q # p
      BY <2>4 DEF Vanish, IsUntried, TypeOK
    <3>2. Untried' = Untried \ {p}
      BY <3>1 DEF Untried
    <3>3. p \notin Holders
      BY <1>14, BeatFacts DEF WriteStopped, PhaseInv, Holders
    <3>4. Contract!End(p)
      BY <1>3, <2>1, <2>2, <3>2, <3>3 DEF Contract!End
    <3>. QED
      BY <3>4
  <2>. QED
    BY <1>14, <2>3, <2>4 DEF WriteStopped
<1>15. ASSUME NEW p \in Pids, Publish(p) PROVE Contract!Next
  <2>1. UNCHANGED <<phase, handler, exit, attached>> /\ FileStep(Reporter(p))
    BY <1>15 DEF Publish, mainVars
  <2>2. \A q \in Pids : IsUntried(q)' <=> IsUntried(q)
    BY <2>1 DEF IsUntried
  <2>3. Contract!Report
    BY <1>1, <1>3, <2>1, <2>2, WrittenTruthful, WriterPairs DEF Contract!Report
  <2>. QED
    BY <2>3
<1>16. CASE UNCHANGED vars
  <2>1. UNCHANGED <<phase, handler, exit, attached, statusFile>>
    BY <1>16 DEF vars
  <2>. QED
    BY <1>1, <1>2, <1>3, <2>1 DEF IsUntried
<1>. QED
  BY <1>6, <1>7, <1>8, <1>9, <1>10, <1>11, <1>12, <1>13, <1>14, <1>15, <1>16
     DEF Next, MainStep, ReporterStep

LEMMA ContractInvariant == Spec => []ContractInv
<1>1. Init => ContractInv
  BY BeatFacts DEF Init, ContractInv, PhaseInv, ServedInv, IsUntried, Missing, NoRecord
<1>2. IInv /\ ContractInv /\ [Next]_vars => ContractInv'
  BY PhaseStep, ServedStep DEF IInv, ContractInv
<1>. QED
  BY <1>1, <1>2, InductiveInvariant, PTL DEF Spec

\* cerynth-scx keeps its contract with cerynthd, for any number of schedulers
\* that write the same two files and fail, restart or die at any point: a
\* running record names only who has attached since its launch.
THEOREM ContractKept == Spec => ImplementsContract
<1>1. Init => Contract!Init
  BY BeatFacts DEF Init, Contract!Init, Untried, IsUntried, Holders, Named, Missing, NoRecord
<1>2. IInv /\ ContractInv /\ [Next]_vars => [Contract!Next]_Contract!vars
  BY ContractStep DEF ContractInv
<1>. QED
  BY <1>1, <1>2, InductiveInvariant, ContractInvariant, PTL
     DEF Spec, ImplementsContract, Contract!Spec
=============================================================================
