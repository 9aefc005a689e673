------------------------------- MODULE Telemetry -------------------------------
(***************************************************************************)
(* ProcTelemetrySource: the differences between two looks at /proc.        *)
(*                                                                         *)
(* A collection reads /proc/stat, /proc/loadavg and /proc/meminfo, lists   *)
(* the processes twice, and divides what it finds by the time since the    *)
(* last one that succeeded.  The system goes on between any two of these   *)
(* steps, processes come and go and reuse each other's numbers, and every  *)
(* source may fail when the earlier ones have already replaced their       *)
(* previous values.  Rates are kept as what is divided, not as quotients.  *)
(*                                                                         *)
(* The properties bound how far back a difference reaches.  What happens   *)
(* between the reading of the clock and that of a counter is counted one   *)
(* sample early, which no rate of this code avoids.  A process that a list *)
(* has missed counts as new from then on, for the code and for             *)
(* YoungWhenCounted.                                                       *)
(***************************************************************************)
EXTENDS Integers, FiniteSets

CONSTANTS
  Pids,      \* process numbers
  None,      \* no previous value
  Threshold, \* SHORT_LIVED_THRESHOLD_SECS
  MaxTime,   \* bound on the clock
  MaxWait,   \* bound on iowait
  MaxSwitches \* bound on the context switches

ASSUME TelemetryAssumption ==
  /\ None \notin Nat /\ None \notin [user : Nat, idle : Nat, iowait : Nat]
  /\ Threshold \in Nat

VARIABLES
  time,       \* the monotonic clock
  cpu,        \* the "cpu" line: user stands for all that is not idle or iowait
  ctxt,       \* the "ctxt" line: context switches since boot
  alive,      \* the processes in /proc
  ticks,      \* utime + stime of each
  phase,      \* what the collection does next, "idle" between two
  start,      \* now; zero between two collections
  prevAt,     \* prev_sample_at
  prevCpu,    \* prev_cpu
  prevCtxt,   \* prev_context_switches
  prevProc,   \* prev_proc_cpu
  firstSeen,  \* pid_first_seen
  snapshot,   \* the differences collected so far, and the last count of processes
  seen,       \* what top_processes has read so far
  begun,      \* history: the system when the collection began
  mark,       \* history: the system when the last successful one began
  lag,        \* history: the last list of top_processes failed
  known       \* history: since when each process has been in every list

system == <<time, cpu, ctxt, alive, ticks>>
source == <<prevAt, prevCpu, prevCtxt, prevProc, firstSeen>>
vars == <<time, cpu, ctxt, alive, ticks, phase, start, prevAt, prevCpu, prevCtxt,
          prevProc, firstSeen, snapshot, seen, begun, mark, lag, known>>

CpuTimes == [user : Nat, idle : Nat, iowait : Nat]
System   == [time : Nat, user : Nat, ctxt : Nat, ticks : [Pids -> Nat]]
IsMap(f) == DOMAIN f \subseteq Pids /\ f \in [DOMAIN f -> Nat]

Nothing == [p \in {} |-> 0]
Blank == [busy |-> 0, switches |-> 0, shares |-> Nothing, shortLived |-> {}]

TypeOK ==
  /\ time \in Nat /\ cpu \in CpuTimes /\ ctxt \in Nat
  /\ alive \subseteq Pids /\ ticks \in [Pids -> Nat]
  /\ phase \in {"idle", "stat", "memory", "processes", "list"}
  /\ start \in Nat /\ prevAt \in Nat \union {None}
  /\ prevCpu \in CpuTimes \union {None} /\ prevCtxt \in Nat \union {None}
  /\ IsMap(prevProc) /\ IsMap(firstSeen) /\ IsMap(seen) /\ IsMap(snapshot.shares)
  /\ DOMAIN snapshot = DOMAIN Blank
  /\ snapshot.busy \in Nat /\ snapshot.switches \in Nat
  /\ snapshot.shortLived \subseteq Pids
  /\ begun \in System /\ mark \in System
  /\ lag \in BOOLEAN /\ known \in [Pids -> Nat \union {None}]

Now == [time |-> time, user |-> cpu.user, ctxt |-> ctxt, ticks |-> ticks]

\* collect returns, and what it had in local variables is gone.
Return == phase' = "idle" /\ start' = 0

Init ==
  /\ time = 0 /\ cpu = [user |-> 0, idle |-> 0, iowait |-> 0] /\ ctxt = 0
  /\ alive \in SUBSET Pids /\ ticks = [p \in Pids |-> 0]
  /\ phase = "idle" /\ start = 0
  /\ prevAt = None /\ prevCpu = None /\ prevCtxt = None
  /\ prevProc = Nothing /\ firstSeen = Nothing
  /\ snapshot = Blank /\ seen = Nothing
  /\ begun = Now /\ mark = Now
  /\ lag = FALSE /\ known = [p \in Pids |-> None]

(***************************************************************************)
(* The system, one CPU.                                                    *)
(***************************************************************************)
sourceAndHistory == <<phase, start, source, snapshot, seen, lag>>

\* A clock tick, charged to a process or to nobody.
Run(p) ==
  /\ p \in alive /\ time < MaxTime
  /\ time' = time + 1
  /\ cpu' = [cpu EXCEPT !.user = @ + 1]
  /\ ticks' = [ticks EXCEPT ![p] = @ + 1]
  /\ UNCHANGED <<ctxt, alive, sourceAndHistory, begun, mark, known>>

Rest ==
  /\ time < MaxTime
  /\ time' = time + 1
  /\ \/ cpu' = [cpu EXCEPT !.idle = @ + 1]
     \/ cpu.iowait < MaxWait /\ cpu' = [cpu EXCEPT !.iowait = @ + 1]
  /\ UNCHANGED <<ctxt, alive, ticks, sourceAndHistory, begun, mark, known>>

\* proc(5): iowait is not reliable and may decrease; nothing makes up for it.
Recount ==
  /\ cpu.iowait > 0 /\ time < MaxTime
  /\ time' = time + 1
  /\ cpu' = [cpu EXCEPT !.iowait = @ - 1]
  /\ UNCHANGED <<ctxt, alive, ticks, sourceAndHistory, begun, mark, known>>

Switch ==
  /\ ctxt < MaxSwitches
  /\ ctxt' = ctxt + 1
  /\ UNCHANGED <<time, cpu, alive, ticks, sourceAndHistory, begun, mark, known>>

\* A new process, maybe with the number of a dead one: its ticks start at zero.
Fork(p) ==
  /\ p \notin alive
  /\ alive' = alive \union {p}
  /\ ticks' = [ticks EXCEPT ![p] = 0]
  /\ begun' = [begun EXCEPT !.ticks[p] = 0]
  /\ mark' = [mark EXCEPT !.ticks[p] = 0]
  /\ known' = [known EXCEPT ![p] = None]
  /\ UNCHANGED <<time, cpu, ctxt, sourceAndHistory>>

Exit(p) ==
  /\ p \in alive
  /\ alive' = alive \ {p}
  /\ UNCHANGED <<time, cpu, ctxt, ticks, sourceAndHistory, begun, mark, known>>

(***************************************************************************)
(* A collection.                                                           *)
(***************************************************************************)
\* Seeded fault: a plain subtraction.
MinusPlain(a, b) == a - b

\* saturating_sub
Minus(a, b) == IF a >= b THEN a - b ELSE 0

Total(c) == c.user + c.idle + c.iowait

IdleTotal(c) == c.idle + c.iowait

\* usage_percent_since, the dividend: ticks that were neither idle nor iowait.
\* It is divided by the difference of the totals, never by the time elapsed.
UsageSince(c, prev) ==
  LET total == Minus(Total(c), Total(prev))
      idle  == Minus(IdleTotal(c), IdleTotal(prev))
  IN  Minus(total, idle)

Elapsed == IF prevAt = None THEN 0 ELSE start - prevAt

Begin ==
  /\ phase = "idle"
  /\ phase' = "stat"
  /\ start' = time
  /\ snapshot' = Blank
  /\ begun' = Now
  /\ UNCHANGED <<system, source, mark, lag, known, seen>>

\* Seeded fault: the previous count of context switches is set only once.
CountedOnce == IF prevCtxt = None THEN ctxt ELSE prevCtxt

\* context_switches, the next sample's prev_context_switches
Counted == ctxt

\* /proc/stat: the previous counters are replaced at once.
ReadStat ==
  /\ phase = "stat"
  /\ phase' = "memory"
  /\ snapshot' =
       [snapshot EXCEPT
          !.busy = IF prevCpu = None THEN 0 ELSE UsageSince(cpu, prevCpu),
          !.switches = IF prevCtxt = None \/ Elapsed = 0 THEN 0
                       ELSE Minus(ctxt, prevCtxt)]
  /\ prevCpu' = cpu
  /\ prevCtxt' = Counted
  /\ UNCHANGED <<system, start, prevAt, prevProc, firstSeen, begun, mark, lag, known, seen>>

\* /proc/loadavg and /proc/meminfo: nothing is kept of them.
ReadMemory ==
  /\ phase = "memory"
  /\ phase' = "processes"
  /\ UNCHANGED <<system, start, source, snapshot, begun, mark, lag, known, seen>>

\* One of these files cannot be read; collect returns the error.
ReadFails ==
  /\ phase \in {"stat", "memory"}
  /\ Return
  /\ snapshot' = Blank /\ begun' = mark
  /\ UNCHANGED <<system, source, mark, lag, known, seen>>

\* Seeded fault: a process that is known already keeps its old count.
SeenKept(p) == IF p \in DOMAIN prevProc THEN prevProc[p] ELSE ticks[p]

\* seen.insert(pid, ticks)
Seen(p) == ticks[p]

\* delta_ticks
Share(p) == IF p \in DOMAIN prevProc /\ Elapsed > 0 THEN Minus(ticks[p], prevProc[p]) ELSE 0

With(f, p, v) == [q \in DOMAIN f \union {p} |-> IF q = p THEN v ELSE f[q]]

\* top_processes reads one /proc/<pid>/stat after the other.
ReadProcess(p) ==
  /\ phase = "processes"
  /\ p \in alive \ DOMAIN seen
  /\ seen' = With(seen, p, Seen(p))
  /\ snapshot' = [snapshot EXCEPT !.shares = With(@, p, Share(p))]
  /\ UNCHANGED <<system, phase, start, source, begun, mark, lag, known>>

\* It has read those it could; when /proc cannot be listed it returns before it
\* replaces prev_proc_cpu.
TopProcesses ==
  /\ phase = "processes"
  /\ phase' = "list"
  /\ \/ prevProc' = seen /\ lag' = FALSE
     \/ seen = Nothing /\ lag' = TRUE /\ UNCHANGED prevProc
  /\ seen' = Nothing
  /\ UNCHANGED <<system, start, prevAt, prevCpu, prevCtxt, firstSeen, snapshot, begun,
                 mark, known>>

\* Seeded fault: insert instead of or_insert.
NoteProcessesAgain(listed) ==
  [p \in DOMAIN firstSeen \union listed |->
     IF p \in listed THEN start ELSE firstSeen[p]]

\* pid_first_seen.entry(pid).or_insert(now)
NoteProcesses(listed) ==
  [p \in DOMAIN firstSeen \union listed |->
     IF p \in DOMAIN firstSeen THEN firstSeen[p] ELSE start]

\* now, the next sample's prev_sample_at
SampleAt == start

\* The second list: empty when it fails, and without the entries that cannot be
\* read.  Processes that are not in it have exited, and count when they were first
\* seen a short time ago.
Finish ==
  /\ phase = "list"
  /\ Return
  /\ \E listed \in SUBSET alive :
       LET noted == NoteProcesses(listed) IN
       /\ snapshot' = [Blank EXCEPT !.shortLived =
                         {p \in DOMAIN noted \ listed : start - noted[p] < Threshold}]
       /\ firstSeen' = [p \in listed |-> noted[p]]
       /\ known' = [p \in Pids |-> IF p \in alive \ listed THEN None
                                  ELSE IF p \in listed /\ known[p] = None THEN start
                                  ELSE known[p]]
  /\ prevAt' = SampleAt
  /\ mark' = begun
  /\ UNCHANGED <<system, prevCpu, prevCtxt, prevProc, seen, begun, lag>>

(***************************************************************************)
(* Specification.                                                          *)
(***************************************************************************)
SystemStep ==
  Rest \/ Recount \/ Switch \/ \E p \in Pids : Run(p) \/ Fork(p) \/ Exit(p)

Collect ==
  \/ Begin \/ ReadStat \/ ReadMemory \/ ReadFails \/ TopProcesses \/ Finish
  \/ \E p \in Pids : ReadProcess(p)

Next == SystemStep \/ Collect

Spec == Init /\ [][Next]_vars

(***************************************************************************)
(* Properties.                                                             *)
(***************************************************************************)
\* No context switch and no busy tick of a snapshot is older than the last
\* snapshot, whichever collections failed in between: the interval that a rate
\* divides by reaches back at least as far as what it counts.
RatesInInterval ==
  [][phase = "stat" /\ phase' = "memory" =>
       /\ prevAt # None => /\ prevAt <= mark.time
                           /\ snapshot'.busy <= cpu.user - mark.user
       /\ snapshot'.switches <= ctxt - mark.ctxt]_vars

\* The same for the processor time of each process, dead and reused numbers and
\* unreadable entries included, unless the list before failed as a whole: then the
\* share covers two intervals.
SharesInInterval ==
  [][~lag => \A p \in DOMAIN seen' \ DOMAIN seen :
               snapshot'.shares[p] <= ticks[p] - mark.ticks[p]]_vars

\* A process that has been in every list for the threshold is never counted as
\* short-lived, however many samples failed, not even by a list that misses it,
\* and whoever had its number before.  A process that is missed counts as new.
YoungWhenCounted ==
  [][phase = "list" /\ phase' = "idle" =>
       \A p \in snapshot'.shortLived :
         known[p] # None => start - known[p] < Threshold]_vars

(***************************************************************************)
(* The inductive invariant.                                                *)
(***************************************************************************)
Ordered(a, b) == /\ a.time <= b.time /\ a.user <= b.user /\ a.ctxt <= b.ctxt
                 /\ \A p \in Pids : a.ticks[p] <= b.ticks[p]

\* The previous values lie between the last successful collection and now; while
\* one runs they lie after its beginning as soon as they are replaced.
PreviousInv ==
  /\ Ordered(mark, begun) /\ Ordered(begun, Now)
  /\ prevAt # None => prevAt = mark.time /\ mark.time <= time /\ prevCpu # None /\ prevCtxt # None
  /\ phase # "idle" => start = begun.time
  /\ prevCpu # None => (prevAt # None => mark.user <= prevCpu.user) /\ prevCpu.user <= cpu.user
  /\ prevCtxt # None => mark.ctxt <= prevCtxt /\ prevCtxt <= ctxt
  /\ phase \in {"memory", "processes", "list"} =>
       /\ prevCpu # None /\ begun.user <= prevCpu.user
       /\ prevCtxt # None /\ begun.ctxt <= prevCtxt
  /\ ~lag => \A p \in DOMAIN prevProc :
               /\ mark.ticks[p] <= prevProc[p]
               /\ phase = "list" => begun.ticks[p] <= prevProc[p]
  /\ \A p \in DOMAIN seen : phase = "processes" /\ begun.ticks[p] <= seen[p]

\* pid_first_seen holds the processes of the last list and is never later than
\* the truth.
SeenInv ==
  /\ \A p \in DOMAIN firstSeen : prevAt # None /\ firstSeen[p] <= prevAt
  /\ \A p \in Pids : known[p] # None =>
       /\ p \in alive => p \in DOMAIN firstSeen
       /\ p \in DOMAIN firstSeen => firstSeen[p] <= known[p]

IInv == TypeOK /\ PreviousInv /\ SeenInv
================================================================================
