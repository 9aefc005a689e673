-------------------------- MODULE SchedulerContract --------------------------
(***************************************************************************)
(* What cerynthd and the cerynth-scx processes know of each other: the     *)
(* kernel lets one scheduler attach at a time, and a running record in     *)
(* scheduler.json never names a process that has been launched and has not *)
(* attached since.  The start gate of the daemon is sound because of the   *)
(* second half.                                                            *)
(***************************************************************************)
CONSTANTS
  Pids,  \* process ids
  NoPid  \* no process

VARIABLES
  untried,  \* processes that were launched and have never attached
  holders,  \* processes whose scheduler is attached
  record    \* the process a running record names, or NoPid

vars == <<untried, holders, record>>

\* What a record may say: that nobody runs, or who has attached at least once.
\* A record may outlive its process.
Truthful == {NoPid} \union (Pids \ untried)

Init ==
  /\ untried = {}
  /\ holders = {}
  /\ record = NoPid

Launch(p) ==
  /\ p \notin untried \union holders \union {record}
  /\ untried' = untried \union {p}
  /\ UNCHANGED <<holders, record>>

Attach(p) ==
  /\ holders = {}
  /\ holders' = {p}
  /\ untried' = untried \ {p}
  /\ UNCHANGED record

Detach(p) ==
  /\ holders' = holders \ {p}
  /\ UNCHANGED <<untried, record>>

\* A record is published, withdrawn, spoilt, or gets too old.
Report ==
  /\ record' \in Truthful
  /\ UNCHANGED <<untried, holders>>

\* The process is gone; its stopped record, or one of somebody who writes at the
\* same time, may have replaced the last one.
End(p) ==
  /\ untried' = untried \ {p}
  /\ holders' = holders \ {p}
  /\ record' \in Truthful

Next ==
  \/ Report
  \/ \E p \in Pids : Launch(p) \/ Attach(p) \/ Detach(p) \/ End(p)

Spec == Init /\ [][Next]_vars
=============================================================================
