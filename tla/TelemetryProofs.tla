---------------------------- MODULE TelemetryProofs ----------------------------
(***************************************************************************)
(* Safety of Telemetry for every set of processes and every threshold: the *)
(* previous values always lie between the beginning of the last collection *)
(* that succeeded and the present, so nothing older is ever counted.       *)
(***************************************************************************)
EXTENDS Telemetry, TLAPS

(***************************************************************************)
(* The arithmetic.                                                         *)
(***************************************************************************)
LEMMA MinusBound ==
  ASSUME NEW a \in Nat, NEW b \in Nat
  PROVE  /\ Minus(a, b) \in Nat
         /\ \A c \in Nat : c <= b /\ c <= a => Minus(a, b) <= a - c
  BY DEF Minus

\* Whatever iowait does, no more is busy than what was charged to processes.
LEMMA UsageBound ==
  ASSUME NEW c \in CpuTimes, NEW prev \in CpuTimes
  PROVE  /\ UsageSince(c, prev) \in Nat
         /\ prev.user <= c.user => UsageSince(c, prev) <= c.user - prev.user
<1> DEFINE total == Minus(Total(c), Total(prev))
           idle  == Minus(IdleTotal(c), IdleTotal(prev))
<1>1. c.user \in Nat /\ c.idle \in Nat /\ c.iowait \in Nat
      /\ prev.user \in Nat /\ prev.idle \in Nat /\ prev.iowait \in Nat
  BY DEF CpuTimes
<1>2. UsageSince(c, prev) = Minus(total, idle)
  BY DEF UsageSince
<1>3. total \in Nat /\ idle \in Nat
  BY <1>1 DEF Minus, Total, IdleTotal
<1>4. Minus(total, idle) \in Nat
  BY <1>3, MinusBound
<1>5. prev.user <= c.user => Minus(total, idle) <= c.user - prev.user
  BY <1>1 DEF Minus, Total, IdleTotal
<1> QED
  BY <1>2, <1>3, <1>4, <1>5

(***************************************************************************)
(* Types.                                                                  *)
(***************************************************************************)
LEMMA NowType == TypeOK => Now \in System
  BY DEF TypeOK, Now, System, CpuTimes

LEMMA BlankType == /\ IsMap(Nothing) /\ IsMap(Blank.shares)
                   /\ Blank.busy \in Nat /\ Blank.switches \in Nat
                   /\ Blank.shortLived \subseteq Pids
  BY DEF Blank, Nothing, IsMap

\* One more entry of a map.
LEMMA WithType ==
  ASSUME NEW f, IsMap(f), NEW p \in Pids, NEW v \in Nat
  PROVE  /\ IsMap(With(f, p, v))
         /\ DOMAIN With(f, p, v) = DOMAIN f \union {p}
         /\ With(f, p, v)[p] = v
         /\ \A q \in DOMAIN f : q # p => With(f, p, v)[q] = f[q]
  BY DEF With, IsMap

LEMMA ShareType ==
  ASSUME TypeOK, NEW p \in Pids
  PROVE  Share(p) \in Nat
  BY MinusBound DEF Share, TypeOK, IsMap

LEMMA InitHolds == Init => IInv
<1> SUFFICES ASSUME Init PROVE IInv
  OBVIOUS
<1> USE TelemetryAssumption
<1>1. TypeOK
  <2>1. cpu \in CpuTimes /\ Now \in System
    BY DEF Init, CpuTimes, Now, System
  <2>2. /\ IsMap(prevProc) /\ IsMap(firstSeen) /\ IsMap(seen) /\ IsMap(snapshot.shares)
        /\ snapshot.busy \in Nat /\ snapshot.switches \in Nat
        /\ snapshot.shortLived \subseteq Pids
    BY BlankType DEF Init
  <2>3. /\ time \in Nat /\ ctxt \in Nat /\ alive \subseteq Pids /\ ticks \in [Pids -> Nat]
        /\ phase = "idle" /\ start \in Nat
        /\ prevAt = None /\ prevCpu = None /\ prevCtxt = None
    BY DEF Init
  <2>4. begun \in System /\ mark \in System
    BY <2>1 DEF Init
  <2>5. lag \in BOOLEAN
    BY DEF Init
  <2>7. DOMAIN snapshot = DOMAIN Blank
    BY DEF Init
  <2>6. known \in [Pids -> Nat \union {None}]
    BY DEF Init
  <2> QED
    BY <2>1, <2>2, <2>3, <2>4, <2>5, <2>6, <2>7 DEF TypeOK
<1>2. PreviousInv
  <2>1. begun = Now /\ mark = Now
    BY DEF Init
  <2>2. Ordered(mark, begun) /\ Ordered(begun, Now)
    BY <2>1 DEF Init, Ordered, Now
  <2>3. DOMAIN prevProc = {} /\ DOMAIN seen = {}
    BY DEF Init, Nothing
  <2> QED
    BY <2>2, <2>3 DEF Init, PreviousInv
<1>3. SeenInv
  BY DEF Init, SeenInv, Nothing
<1> QED
  BY <1>1, <1>2, <1>3 DEF IInv

LEMMA TypeStep ==
  ASSUME TypeOK, PreviousInv, [Next]_vars
  PROVE  TypeOK'
<1> USE DEF TypeOK, system, source, sourceAndHistory
<1>1. CASE Rest
  <2>1. cpu' \in CpuTimes
    BY <1>1 DEF Rest, CpuTimes
  <2> QED
    BY <1>1, <2>1 DEF Rest
<1>2. CASE Recount
  <2>1. cpu.iowait \in Nat /\ cpu.iowait > 0
    BY <1>2 DEF Recount, CpuTimes
  <2>2. cpu.iowait - 1 \in Nat
    BY <2>1
  <2>3. cpu' \in CpuTimes
    BY <1>2, <2>2 DEF Recount, CpuTimes
  <2> QED
    BY <1>2, <2>3 DEF Recount
<1>3. CASE Switch
  BY <1>3 DEF Switch
<1>4. ASSUME NEW p \in Pids, Run(p) PROVE TypeOK'
  <2>1. cpu' \in CpuTimes
    BY <1>4 DEF Run, CpuTimes
  <2> QED
    BY <1>4, <2>1 DEF Run
<1>5. ASSUME NEW p \in Pids, Fork(p) PROVE TypeOK'
  <2>1. begun' \in System /\ mark' \in System
    BY <1>5 DEF Fork, System
  <2> QED
    BY <1>5, <2>1 DEF Fork
<1>6. ASSUME NEW p \in Pids, Exit(p) PROVE TypeOK'
  BY <1>6 DEF Exit
<1>7. CASE Begin
  <2>1. begun' \in System
    BY <1>7, NowType DEF Begin
  <2> QED
    BY <1>7, <2>1, BlankType DEF Begin
<1>8. CASE ReadStat
  <2>1. /\ snapshot'.busy \in Nat
        /\ snapshot'.switches \in Nat
        /\ snapshot'.shares = snapshot.shares /\ snapshot'.shortLived = snapshot.shortLived
    BY <1>8, UsageBound, MinusBound DEF ReadStat, Counted
  <2> QED
    BY <1>8, <2>1 DEF ReadStat, Counted
<1>9. CASE ReadMemory
  BY <1>9 DEF ReadMemory
<1>10. CASE ReadFails
  BY <1>10, BlankType DEF ReadFails, Return
<1>11. CASE TopProcesses
  BY <1>11, BlankType DEF TopProcesses
<1>14. ASSUME NEW p \in Pids, ReadProcess(p) PROVE TypeOK'
  <2>1. seen' = With(seen, p, ticks[p])
        /\ snapshot' = [snapshot EXCEPT !.shares = With(snapshot.shares, p, Share(p))]
    BY <1>14 DEF ReadProcess, Seen
  <2>2. IsMap(seen') /\ IsMap(With(snapshot.shares, p, Share(p)))
    BY <2>1, WithType, ShareType
  <2>3. /\ IsMap(snapshot'.shares) /\ DOMAIN snapshot' = DOMAIN Blank
        /\ snapshot'.busy = snapshot.busy /\ snapshot'.switches = snapshot.switches
        /\ snapshot'.shortLived = snapshot.shortLived
    BY <2>1, <2>2 DEF Blank
  <2> QED
    BY <1>14, <2>2, <2>3 DEF ReadProcess
<1>12. CASE Finish
  <2>1. PICK listed \in SUBSET alive :
          /\ snapshot' = [Blank EXCEPT !.shortLived =
               {p \in DOMAIN NoteProcesses(listed) \ listed :
                  start - NoteProcesses(listed)[p] < Threshold}]
          /\ firstSeen' = [p \in listed |-> NoteProcesses(listed)[p]]
          /\ known' = [p \in Pids |-> IF p \in alive \ listed THEN None
                                     ELSE IF p \in listed /\ known[p] = None THEN start
                                     ELSE known[p]]
    BY <1>12 DEF Finish
  <2>2. listed \subseteq Pids /\ DOMAIN firstSeen \subseteq Pids
    BY DEF IsMap
  <2>3. DOMAIN NoteProcesses(listed) = DOMAIN firstSeen \union listed
        /\ \A p \in listed : NoteProcesses(listed)[p] \in Nat
    BY DEF NoteProcesses, IsMap
  <2>4. IsMap(firstSeen')
    BY <2>1, <2>2, <2>3 DEF IsMap
  <2>5. snapshot'.shortLived \subseteq Pids /\ IsMap(snapshot'.shares)
        /\ snapshot'.busy \in Nat /\ snapshot'.switches \in Nat
    BY <2>1, <2>2, <2>3, BlankType DEF Blank
  <2>6. known' \in [Pids -> Nat \union {None}]
    BY <2>1
  <2>7. DOMAIN snapshot' = DOMAIN Blank
    BY <2>1
  <2> QED
    BY <1>12, <2>4, <2>5, <2>6, <2>7 DEF Finish, SampleAt, Return
<1>13. CASE UNCHANGED vars
  BY <1>13 DEF vars
<1> QED
  BY <1>1, <1>2, <1>3, <1>4, <1>5, <1>6, <1>7, <1>8, <1>9, <1>10, <1>11, <1>12, <1>13, <1>14
  DEF Next, SystemStep, Collect

(***************************************************************************)
(* The previous values.                                                    *)
(***************************************************************************)
LEMMA OrderedReflexive == ASSUME NEW a \in System PROVE Ordered(a, a)
  BY DEF Ordered, System

LEMMA OrderedTransitive ==
  ASSUME NEW a \in System, NEW b \in System, NEW c \in System, Ordered(a, b), Ordered(b, c)
  PROVE  Ordered(a, c)
  BY DEF Ordered, System

\* Time only moves the present.
LEMMA SystemPrevious ==
  ASSUME TypeOK, TypeOK', PreviousInv, UNCHANGED <<sourceAndHistory, begun, mark>>,
         Ordered(Now, Now')
  PROVE  PreviousInv'
<1> USE DEF sourceAndHistory, source
<1>1. Now \in System /\ Now' \in System /\ begun \in System
  BY NowType DEF TypeOK, Now, System, CpuTimes
<1>2. Ordered(begun, Now)'
  BY <1>1, OrderedTransitive DEF PreviousInv
<1>3. time <= time' /\ cpu.user <= cpu'.user /\ ctxt <= ctxt'
  BY DEF Ordered, Now
<1>4. Ordered(mark, begun)'
  BY DEF PreviousInv
<1>5. time \in Nat /\ time' \in Nat /\ ctxt \in Nat /\ ctxt' \in Nat
      /\ cpu.user \in Nat /\ cpu'.user \in Nat /\ mark.time \in Nat
      /\ (prevCpu # None => prevCpu.user \in Nat)
  BY DEF TypeOK, CpuTimes, System
<1> QED
  BY <1>2, <1>3, <1>4, <1>5 DEF PreviousInv, TypeOK

LEMMA PreviousStep ==
  ASSUME TypeOK, TypeOK', PreviousInv, [Next]_vars
  PROVE  PreviousInv'
<1> USE DEF system, source
<1>0. /\ time \in Nat /\ ctxt \in Nat /\ cpu.user \in Nat /\ ticks \in [Pids -> Nat]
      /\ mark.time \in Nat /\ begun.time \in Nat
  BY DEF TypeOK, CpuTimes, System
<1>1. CASE Rest \/ Recount \/ Switch
  <2>1. UNCHANGED <<sourceAndHistory, begun, mark>>
    BY <1>1 DEF Rest, Recount, Switch
  <2>2. time <= time' /\ cpu'.user = cpu.user /\ ctxt <= ctxt' /\ ticks' = ticks
    <3>1. cpu'.user = cpu.user
      BY <1>1 DEF Rest, Recount, Switch, TypeOK, CpuTimes
    <3>2. time <= time' /\ ctxt <= ctxt' /\ ticks' = ticks
      BY <1>0, <1>1 DEF Rest, Recount, Switch
    <3> QED
      BY <3>1, <3>2
  <2>3. Ordered(Now, Now')
    BY <1>0, <2>2 DEF Ordered, Now
  <2> QED
    BY <2>1, <2>3, SystemPrevious
<1>2. ASSUME NEW p \in Pids, Run(p) PROVE PreviousInv'
  <2>1. UNCHANGED <<sourceAndHistory, begun, mark>>
    BY <1>2 DEF Run
  <2>2. time <= time' /\ cpu.user <= cpu'.user /\ ctxt' = ctxt
    BY <1>0, <1>2 DEF Run, TypeOK, CpuTimes
  <2>3. \A q \in Pids : ticks[q] <= ticks'[q]
    BY <1>0, <1>2 DEF Run
  <2>4. Ordered(Now, Now')
    BY <1>0, <2>2, <2>3 DEF Ordered, Now
  <2> QED
    BY <2>1, <2>4, SystemPrevious
<1>3. ASSUME NEW p \in Pids, Fork(p) PROVE PreviousInv'
  <2>1. /\ begun' = [begun EXCEPT !.ticks[p] = 0] /\ mark' = [mark EXCEPT !.ticks[p] = 0]
        /\ ticks' = [ticks EXCEPT ![p] = 0]
        /\ UNCHANGED <<time, cpu, ctxt, sourceAndHistory>>
    BY <1>3 DEF Fork
  <2>2. begun \in System /\ mark \in System
    BY DEF TypeOK
  <2>3. /\ begun'.time = begun.time /\ begun'.user = begun.user /\ begun'.ctxt = begun.ctxt
        /\ mark'.time = mark.time /\ mark'.user = mark.user /\ mark'.ctxt = mark.ctxt
    BY <2>1, <2>2 DEF System
  <2>4. /\ begun'.ticks = [begun.ticks EXCEPT ![p] = 0]
        /\ mark'.ticks = [mark.ticks EXCEPT ![p] = 0]
        /\ begun.ticks \in [Pids -> Nat] /\ mark.ticks \in [Pids -> Nat]
    BY <2>1, <2>2 DEF System
  <2>5. Ordered(mark, begun)' /\ Ordered(begun, Now)'
    BY <1>0, <2>1, <2>3, <2>4 DEF PreviousInv, Ordered, Now
  <2>6. /\ \A q \in DOMAIN prevProc : q \in Pids /\ prevProc[q] \in Nat
        /\ \A q \in DOMAIN seen : q \in Pids /\ seen[q] \in Nat
    BY DEF TypeOK, IsMap
  <2>7. /\ ~lag => \A q \in DOMAIN prevProc :
                    /\ mark'.ticks[q] <= prevProc[q]
                    /\ phase = "list" => begun'.ticks[q] <= prevProc[q]
        /\ \A q \in DOMAIN seen : phase = "processes" /\ begun'.ticks[q] <= seen[q]
    BY <2>4, <2>6 DEF PreviousInv
  <2> QED
    BY <2>1, <2>3, <2>5, <2>7 DEF PreviousInv, sourceAndHistory
<1>4. ASSUME NEW p \in Pids, Exit(p) PROVE PreviousInv'
  <2>1. UNCHANGED <<sourceAndHistory, begun, mark>> /\ UNCHANGED <<time, cpu, ctxt, ticks>>
    BY <1>4 DEF Exit
  <2>2. Ordered(Now, Now')
    BY <1>0, <2>1 DEF Ordered, Now
  <2> QED
    BY <2>1, <2>2, SystemPrevious
<1>5. CASE Begin
  <2>1. begun' = Now /\ Now' = Now /\ start' = time /\ UNCHANGED <<time, cpu, ctxt, source, mark, lag, seen>>
        /\ phase' = "stat" /\ phase = "idle"
    BY <1>5 DEF Begin, Now
  <2>2. Now \in System /\ mark \in System /\ begun \in System
    BY NowType DEF TypeOK
  <2>3. Ordered(mark, begun)' /\ Ordered(begun, Now)'
    BY <2>1, <2>2, OrderedTransitive, OrderedReflexive DEF PreviousInv
  <2>4. start' = begun'.time
    BY <2>1 DEF Now
  <2> QED
    BY <2>1, <2>3, <2>4 DEF PreviousInv
<1>6. CASE ReadStat
  <2>1. /\ prevCpu' = cpu /\ prevCtxt' = ctxt /\ phase' = "memory"
        /\ UNCHANGED <<time, cpu, ctxt, ticks, start, prevAt, prevProc, seen, begun, mark, lag>>
        /\ phase = "stat"
    BY <1>6 DEF ReadStat, Counted
  <2>2. /\ mark.user <= begun.user /\ begun.user <= cpu.user
        /\ mark.ctxt <= begun.ctxt /\ begun.ctxt <= ctxt
    BY DEF PreviousInv, Ordered, Now
  <2>3. mark.user \in Nat /\ begun.user \in Nat /\ mark.ctxt \in Nat /\ begun.ctxt \in Nat
    BY DEF TypeOK, System
  <2>4. cpu # None /\ ctxt # None
    BY TelemetryAssumption DEF TypeOK, CpuTimes
  <2>5. Ordered(mark, begun)' /\ Ordered(begun, Now)'
    BY <2>1 DEF PreviousInv, Ordered, Now
  <2> QED
    BY <1>0, <2>1, <2>2, <2>3, <2>4, <2>5 DEF PreviousInv
<1>7. CASE ReadMemory
  <2>1. phase' = "processes" /\ phase = "memory" /\ UNCHANGED <<system, start, source, seen, begun, mark, lag>>
    BY <1>7 DEF ReadMemory
  <2>2. Ordered(mark, begun)' /\ Ordered(begun, Now)'
    BY <2>1 DEF PreviousInv, Ordered, Now
  <2> QED
    BY <2>1, <2>2 DEF PreviousInv
<1>8. CASE ReadFails
  <2>1. phase' = "idle" /\ phase \in {"stat", "memory"} /\ begun' = mark
        /\ UNCHANGED <<system, source, seen, mark, lag>>
    BY <1>8 DEF ReadFails, Return
  <2>2. mark \in System /\ begun \in System /\ Now \in System /\ Now' = Now
    BY <2>1, NowType DEF TypeOK, Now
  <2>3. Ordered(mark, begun)' /\ Ordered(begun, Now)'
    BY <2>1, <2>2, OrderedReflexive, OrderedTransitive DEF PreviousInv
  <2> QED
    BY <2>1, <2>3 DEF PreviousInv
<1>9. CASE TopProcesses
  <2>1. /\ phase' = "list" /\ phase = "processes" /\ DOMAIN seen' = {}
        /\ UNCHANGED <<system, start, prevAt, prevCpu, prevCtxt, begun, mark>>
        /\ prevProc' = seen \/ lag'
    BY <1>9 DEF TopProcesses, Nothing
  <2>2. Ordered(mark, begun)' /\ Ordered(begun, Now)'
    BY <2>1 DEF PreviousInv, Ordered, Now
  <2>3. ~lag' => \A p \in DOMAIN prevProc' : /\ mark.ticks[p] <= prevProc'[p]
                                             /\ begun.ticks[p] <= prevProc'[p]
    <3>1. \A p \in DOMAIN seen : /\ mark.ticks[p] <= begun.ticks[p]
                                 /\ begun.ticks[p] <= seen[p]
      BY DEF PreviousInv, Ordered, TypeOK, IsMap
    <3>2. \A p \in DOMAIN seen : mark.ticks[p] \in Nat /\ begun.ticks[p] \in Nat /\ seen[p] \in Nat
      BY DEF TypeOK, IsMap, System
    <3> QED
      BY <2>1, <3>1, <3>2
  <2> QED
    BY <2>1, <2>2, <2>3 DEF PreviousInv
<1>12. ASSUME NEW p \in Pids, ReadProcess(p) PROVE PreviousInv'
  <2>1. /\ phase' = "processes" /\ phase = "processes" /\ seen' = With(seen, p, ticks[p])
        /\ UNCHANGED <<system, start, source, begun, mark, lag>>
    BY <1>12 DEF ReadProcess, Seen
  <2>2. Ordered(mark, begun)' /\ Ordered(begun, Now)'
    BY <2>1 DEF PreviousInv, Ordered, Now
  <2>3. begun.ticks[p] <= ticks[p]
    BY DEF PreviousInv, Ordered, Now
  <2>4. \A q \in DOMAIN seen' : begun.ticks[q] <= seen'[q]
    <3>1. /\ DOMAIN seen' = DOMAIN seen \union {p} /\ seen'[p] = ticks[p]
          /\ \A q \in DOMAIN seen : q # p => seen'[q] = seen[q]
      <4>1. IsMap(seen) /\ ticks[p] \in Nat
        BY <1>0 DEF TypeOK
      <4> QED
        BY <2>1, <4>1, WithType
    <3>2. \A q \in DOMAIN seen : begun.ticks[q] <= seen[q]
      BY DEF PreviousInv
    <3> QED
      BY <2>3, <3>1, <3>2
  <2> QED
    BY <2>1, <2>2, <2>4 DEF PreviousInv
<1>10. CASE Finish
  <2>1. /\ phase' = "idle" /\ phase = "list" /\ prevAt' = start /\ mark' = begun
        /\ UNCHANGED <<time, cpu, ctxt, ticks, prevCpu, prevCtxt, prevProc, seen, begun, lag>>
    BY <1>10 DEF Finish, SampleAt, Return
  <2>2. Ordered(mark, begun)'
    BY <2>1, OrderedReflexive DEF TypeOK
  <2>3. Ordered(begun, Now)'
    BY <2>1 DEF PreviousInv, Ordered, Now
  <2>4. begun.time <= time
    BY DEF PreviousInv, Ordered, Now
  <2> QED
    BY <2>1, <2>2, <2>3, <2>4 DEF PreviousInv
<1>11. CASE UNCHANGED vars
  <2>1. Ordered(mark, begun)' /\ Ordered(begun, Now)'
    BY <1>11 DEF vars, PreviousInv, Ordered, Now
  <2> QED
    BY <1>11, <2>1 DEF vars, PreviousInv
<1> QED
  BY <1>1, <1>2, <1>3, <1>4, <1>5, <1>6, <1>7, <1>8, <1>9, <1>10, <1>11, <1>12
  DEF Next, SystemStep, Collect

(***************************************************************************)
(* The processes seen before.                                              *)
(***************************************************************************)
LEMMA SeenStep ==
  ASSUME TypeOK, PreviousInv, SeenInv, [Next]_vars
  PROVE  SeenInv'
<1> USE DEF SeenInv, system, source, sourceAndHistory
<1>1. CASE Rest \/ Recount \/ Switch \/ Begin \/ ReadStat \/ ReadMemory \/ ReadFails
           \/ TopProcesses \/ UNCHANGED vars
  <2>1. UNCHANGED <<alive, prevAt, firstSeen, known>>
    BY <1>1 DEF Rest, Recount, Switch, Begin, ReadStat, ReadMemory, ReadFails,
       TopProcesses, vars
  <2> QED
    BY <2>1
<1>2. ASSUME NEW p \in Pids, Run(p) \/ ReadProcess(p) PROVE SeenInv'
  BY <1>2 DEF Run, ReadProcess
<1>3. ASSUME NEW p \in Pids, Fork(p) PROVE SeenInv'
  <2>1. known' = [known EXCEPT ![p] = None] /\ alive' = alive \union {p}
        /\ UNCHANGED <<prevAt, firstSeen>>
    BY <1>3 DEF Fork
  <2>2. known'[p] = None /\ \A q \in Pids : q # p => known'[q] = known[q]
    BY <2>1 DEF TypeOK
  <2> QED
    BY <2>1, <2>2
<1>4. ASSUME NEW p \in Pids, Exit(p) PROVE SeenInv'
  BY <1>4 DEF Exit
<1>5. CASE Finish
  <2>1. PICK listed \in SUBSET alive :
          /\ firstSeen' = [p \in listed |-> NoteProcesses(listed)[p]]
          /\ known' = [p \in Pids |-> IF p \in alive \ listed THEN None
                                     ELSE IF p \in listed /\ known[p] = None THEN start
                                     ELSE known[p]]
    BY <1>5 DEF Finish
  <2>2. UNCHANGED alive /\ prevAt' = start /\ DOMAIN firstSeen' = listed
    BY <1>5, <2>1 DEF Finish, SampleAt
  <2>3. start \in Nat /\ start # None /\ (prevAt # None => prevAt \in Nat /\ prevAt <= start)
    <3>1. phase = "list" /\ start = begun.time /\ (prevAt # None => prevAt = mark.time)
          /\ mark.time <= begun.time
      BY <1>5 DEF Finish, PreviousInv, Ordered
    <3> QED
      BY <3>1, TelemetryAssumption DEF TypeOK
  <2>4. \A p \in listed : p \in Pids /\ firstSeen'[p] =
          IF p \in DOMAIN firstSeen THEN firstSeen[p] ELSE start
    BY <2>1 DEF NoteProcesses, TypeOK
  <2>5. \A p \in DOMAIN firstSeen : firstSeen[p] \in Nat /\ firstSeen[p] <= start
    BY <2>3 DEF TypeOK, IsMap
  <2>10. \A p \in DOMAIN firstSeen' : prevAt' # None /\ firstSeen'[p] <= prevAt'
    BY <2>2, <2>3, <2>4, <2>5
  <2>6. SUFFICES ASSUME NEW p \in Pids, known'[p] # None
                 PROVE  /\ p \in alive => p \in listed
                        /\ p \in listed => firstSeen'[p] <= known'[p]
    BY <2>2, <2>10
  <2>7. p \in alive => p \in listed
    BY <2>1, <2>6, <2>2
  <2>8. ASSUME p \in listed, known[p] = None PROVE firstSeen'[p] <= known'[p]
    <3>1. known'[p] = start
      BY <2>1, <2>8
    <3> QED
      BY <2>3, <2>4, <2>5, <2>8, <3>1
  <2>9. ASSUME p \in listed, known[p] # None PROVE firstSeen'[p] <= known'[p]
    <3>1. known'[p] = known[p]
      BY <2>1, <2>9
    <3>2. p \in DOMAIN firstSeen /\ firstSeen[p] <= known[p]
      BY <2>9
    <3> QED
      BY <2>4, <2>9, <3>1, <3>2
  <2> QED
    BY <2>7, <2>8, <2>9
<1> QED
  BY <1>1, <1>2, <1>3, <1>4, <1>5 DEF Next, SystemStep, Collect

(***************************************************************************)
(* Safety.                                                                 *)
(***************************************************************************)
\* The previous values are ordered in time with the last successful collection,
\* the running one and the present, whatever fails and whichever processes come
\* and go.
THEOREM InductiveInvariant == Spec => []IInv
<1>1. IInv /\ [Next]_vars => IInv'
  BY TypeStep, PreviousStep, SeenStep DEF IInv
<1> QED
  BY InitHolds, <1>1, PTL DEF Spec

\* No difference is negative, although iowait goes back and numbers are reused.
THEOREM TypeCorrect == Spec => []TypeOK
<1>1. IInv => TypeOK
  BY DEF IInv
<1> QED
  BY InductiveInvariant, <1>1, PTL

\* A process that every list has shown for the threshold is not counted as
\* short-lived.
THEOREM ShortLivedAreYoung == Spec => YoungWhenCounted
<1>1. IInv /\ [Next]_vars =>
        [phase = "list" /\ phase' = "idle" =>
           \A p \in snapshot'.shortLived :
             known[p] # None => start - known[p] < Threshold]_vars
  <2>1. SUFFICES ASSUME IInv, [Next]_vars, phase = "list", phase' = "idle",
                        NEW p \in snapshot'.shortLived, known[p] # None
                 PROVE  start - known[p] < Threshold
    OBVIOUS
  <2>2. Finish
    <3>1. ~ UNCHANGED phase
      BY <2>1
    <3> QED
      BY <2>1, <3>1 DEF Next, SystemStep, Collect, Rest, Recount, Switch, Run, Fork, Exit,
         Begin, ReadStat, ReadMemory, ReadFails, ReadProcess, TopProcesses,
         sourceAndHistory, vars
  <2>3. PICK listed \in SUBSET alive :
          snapshot' = [Blank EXCEPT !.shortLived =
            {q \in DOMAIN NoteProcesses(listed) \ listed :
               start - NoteProcesses(listed)[q] < Threshold}]
    BY <2>2 DEF Finish
  <2>4. p \in DOMAIN NoteProcesses(listed) \ listed
        /\ start - NoteProcesses(listed)[p] < Threshold
    BY <2>1, <2>3 DEF Blank
  <2>5. p \in DOMAIN firstSeen /\ p \in Pids /\ NoteProcesses(listed)[p] = firstSeen[p]
    BY <2>1, <2>4 DEF NoteProcesses, IInv, TypeOK, IsMap
  <2>6. firstSeen[p] <= known[p]
    BY <2>1, <2>5 DEF IInv, SeenInv
  <2>7. known[p] \in Nat /\ firstSeen[p] \in Nat /\ start \in Nat
    BY <2>1, <2>5 DEF IInv, TypeOK, IsMap
  <2> QED
    BY <2>4, <2>5, <2>6, <2>7, TelemetryAssumption
<1> QED
  BY InductiveInvariant, <1>1, PTL DEF Spec, YoungWhenCounted

\* What a snapshot counts is not older than the interval it divides by.
THEOREM RatesStayInInterval == Spec => RatesInInterval
<1>1. IInv /\ [Next]_vars =>
        [phase = "stat" /\ phase' = "memory" =>
           /\ prevAt # None => /\ prevAt <= mark.time
                               /\ snapshot'.busy <= cpu.user - mark.user
           /\ snapshot'.switches <= ctxt - mark.ctxt]_vars
  <2>1. SUFFICES ASSUME IInv, [Next]_vars, phase = "stat", phase' = "memory"
                 PROVE  /\ prevAt # None => /\ prevAt <= mark.time
                                            /\ snapshot'.busy <= cpu.user - mark.user
                        /\ snapshot'.switches <= ctxt - mark.ctxt
    OBVIOUS
  <2>2. ReadStat
    <3>1. ~ UNCHANGED phase
      BY <2>1
    <3> QED
      BY <2>1, <3>1 DEF Next, SystemStep, Collect, Rest, Recount, Switch, Run, Fork, Exit,
         Begin, ReadMemory, ReadFails, Return, ReadProcess, TopProcesses, Finish,
         sourceAndHistory, vars
  <2>3. /\ ctxt \in Nat /\ mark.ctxt \in Nat /\ cpu \in CpuTimes /\ cpu.user \in Nat
        /\ mark.user \in Nat /\ mark.time \in Nat
        /\ (prevCtxt # None => prevCtxt \in Nat) /\ (prevCpu # None => prevCpu \in CpuTimes)
    BY <2>1 DEF IInv, TypeOK, System, CpuTimes
  <2>4. /\ prevCtxt # None => mark.ctxt <= prevCtxt /\ prevCtxt <= ctxt
        /\ mark.ctxt <= ctxt
    <3>1. mark.ctxt <= begun.ctxt /\ begun.ctxt <= ctxt /\ begun.ctxt \in Nat
      BY <2>1 DEF IInv, TypeOK, PreviousInv, Ordered, Now, System
    <3> QED
      BY <2>1, <2>3, <3>1 DEF IInv, PreviousInv
  <2>5. snapshot'.switches <= ctxt - mark.ctxt
    <3>1. snapshot'.switches \in {0, Minus(ctxt, prevCtxt)}
          /\ (prevCtxt = None => snapshot'.switches = 0)
      BY <2>1, <2>2 DEF ReadStat, Counted, IInv, TypeOK
    <3>2. CASE snapshot'.switches = 0
      BY <2>3, <2>4, <3>2
    <3>3. CASE prevCtxt # None /\ snapshot'.switches = Minus(ctxt, prevCtxt)
      BY <2>3, <2>4, <3>3 DEF Minus
    <3> QED
      BY <3>1, <3>2, <3>3
  <2>6. ASSUME prevAt # None
        PROVE  prevAt <= mark.time /\ snapshot'.busy <= cpu.user - mark.user
    <3>1. prevAt = mark.time /\ prevCpu # None /\ mark.user <= prevCpu.user /\ prevCpu.user <= cpu.user
      BY <2>1, <2>6 DEF IInv, PreviousInv
    <3>2. snapshot'.busy = UsageSince(cpu, prevCpu)
      BY <2>2, <3>1 DEF ReadStat, Counted, IInv, TypeOK
    <3>3. snapshot'.busy \in Nat /\ snapshot'.busy <= cpu.user - prevCpu.user /\ prevCpu.user \in Nat
      BY <2>3, <3>1, <3>2, UsageBound DEF CpuTimes
    <3> QED
      BY <2>3, <3>1, <3>3
  <2> QED
    BY <2>5, <2>6
<1> QED
  BY InductiveInvariant, <1>1, PTL DEF Spec, RatesInInterval

\* The same for the time of each process.
THEOREM SharesStayInInterval == Spec => SharesInInterval
<1>1. IInv /\ [Next]_vars =>
        [~lag => \A p \in DOMAIN seen' \ DOMAIN seen :
                   snapshot'.shares[p] <= ticks[p] - mark.ticks[p]]_vars
  <2>1. SUFFICES ASSUME IInv, Next, ~lag, NEW p \in DOMAIN seen' \ DOMAIN seen
                 PROVE  snapshot'.shares[p] <= ticks[p] - mark.ticks[p]
    BY DEF vars
  <2>2. ReadProcess(p) /\ p \in Pids
    <3>1. seen' # seen /\ DOMAIN seen' # {}
      BY <2>1
    <3>2. PICK q \in Pids : ReadProcess(q)
      BY <2>1, <3>1 DEF Next, SystemStep, Collect, Rest, Recount, Switch, Run, Fork, Exit,
         Begin, ReadStat, ReadMemory, ReadFails, TopProcesses, Finish, Nothing,
         sourceAndHistory
    <3>3. DOMAIN seen' = DOMAIN seen \union {q}
      BY <3>2 DEF ReadProcess, With
    <3> QED
      BY <2>1, <3>2, <3>3
  <2>3. snapshot'.shares[p] = Share(p)
    <3>1. snapshot'.shares = With(snapshot.shares, p, Share(p))
      BY <2>1, <2>2 DEF ReadProcess, IInv, TypeOK, Blank
    <3> QED
      BY <3>1 DEF With
  <2>4. ticks[p] \in Nat /\ mark.ticks[p] \in Nat /\ mark.ticks[p] <= ticks[p]
    <3>1. mark.ticks[p] <= begun.ticks[p] /\ begun.ticks[p] <= ticks[p] /\ begun.ticks[p] \in Nat
      BY <2>1, <2>2 DEF IInv, TypeOK, PreviousInv, Ordered, Now, System
    <3>2. ticks[p] \in Nat /\ mark.ticks[p] \in Nat
      BY <2>1, <2>2 DEF IInv, TypeOK, System
    <3> QED
      BY <3>1, <3>2
  <2>5. CASE Share(p) = 0
    BY <2>3, <2>4, <2>5
  <2>6. CASE p \in DOMAIN prevProc /\ Share(p) = Minus(ticks[p], prevProc[p])
    <3>1. mark.ticks[p] <= prevProc[p] /\ prevProc[p] \in Nat
      BY <2>1, <2>6 DEF IInv, TypeOK, IsMap, PreviousInv
    <3> QED
      BY <2>3, <2>4, <2>6, <3>1 DEF Minus
  <2> QED
    BY <2>5, <2>6 DEF Share
<1> QED
  BY InductiveInvariant, <1>1, PTL DEF Spec, SharesInInterval
================================================================================
