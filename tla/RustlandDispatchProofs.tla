----------------------- MODULE RustlandDispatchProofs -----------------------
(* Proofs, for every value of the constants, about RustlandDispatch. *)
EXTENDS RustlandDispatch, SequenceTheorems, TLAPS

USE DispatchAssumption

(***************************************************************************)
(* Facts about sequences.                                                  *)
(***************************************************************************)
\* Removing one position of a sequence leaves a sequence over the same set.
LEMMA RemoveAtType ==
  ASSUME NEW S, NEW s \in Seq(S), NEW i \in DOMAIN s
  PROVE  RemoveAt(s, i) \in Seq(S)
<1>1. \A j \in DOMAIN s : s[j] \in S
  BY ElementOfSeq
<1>2. SubSeq(s, 1, i - 1) \in Seq(S)
  BY <1>1, SubSeqProperties
<1>3. SubSeq(s, i + 1, Len(s)) \in Seq(S)
  BY <1>1, SubSeqProperties
<1> QED
  BY <1>2, <1>3, ConcatProperties DEF RemoveAt

\* Dropping the last element keeps the others in place.
LEMMA FrontProperties ==
  ASSUME NEW S, NEW s \in Seq(S), s # <<>>
  PROVE  /\ Front(s) \in Seq(S)
         /\ Len(Front(s)) = Len(s) - 1
         /\ \A i \in 1 .. Len(s) - 1 : Front(s)[i] = s[i]
<1>1. \A j \in DOMAIN s : s[j] \in S
  BY ElementOfSeq
<1>2. Len(s) \in Nat /\ Len(s) >= 1 /\ DOMAIN s = 1 .. Len(s)
  BY EmptySeq
<1>3. \A j \in 1 .. Len(s) - 1 : s[j] \in S
  BY <1>1, <1>2
<1> QED
  BY <1>2, <1>3, SubSeqProperties DEF Front

\* The queues stay well typed when a task leaves them, or joins one.
LEMMA LeaveType ==
  ASSUME QueueTypes, NEW t \in Tasks
  PROVE  Leave(t) \in [Queues -> Seq(Tasks)]
<1> SUFFICES ASSUME NEW d \in Queues
             PROVE  (IF \E i \in DOMAIN dsq[d] : dsq[d][i] = t
                     THEN RemoveAt(dsq[d], CHOOSE i \in DOMAIN dsq[d] : dsq[d][i] = t)
                     ELSE dsq[d]) \in Seq(Tasks)
  BY DEF Leave
<1>1. dsq[d] \in Seq(Tasks)
  BY DEF QueueTypes
<1>2. CASE \E i \in DOMAIN dsq[d] : dsq[d][i] = t
  <2> DEFINE k == CHOOSE i \in DOMAIN dsq[d] : dsq[d][i] = t
  <2>1. k \in DOMAIN dsq[d]
    BY <1>2
  <2> HIDE DEF k
  <2>2. RemoveAt(dsq[d], k) \in Seq(Tasks)
    BY <1>1, <2>1, RemoveAtType
  <2> QED
    BY <1>2, <2>2 DEF k
<1>3. CASE ~\E i \in DOMAIN dsq[d] : dsq[d][i] = t
  BY <1>1, <1>3
<1> QED
  BY <1>2, <1>3

LEMMA PlaceType ==
  ASSUME QueueTypes, NEW t \in Tasks, NEW d \in Queues, Place(t, d)
  PROVE  QueueTypes'
<1>1. Append(dsq[d], t) \in Seq(Tasks)
  BY AppendProperties DEF QueueTypes
<1> QED
  BY <1>1 DEF Place, QueueTypes

\* A kick only sets reschedule flags.
LEMMA KickType ==
  ASSUME NEW ks, Kick(ks)
  PROVE  kicked' \in [CPUs -> BOOLEAN]
BY DEF Kick

\* The CPUs of a task's mask are CPUs.
LEMMA MaskCPUs ==
  ASSUME TaskTypes, NEW t \in Tasks
  PROVE  allowed[t] \subseteq CPUs
BY DEF TaskTypes

\* The three ends of ops.enqueue: a record, a direct insert, or nothing at all for
\* a task that is pinned to a CPU it is not on.
LEMMA EnqueueCases ==
  ASSUME TaskTypes, NEW t \in Tasks, Enqueue(t)
  PROVE  \/ \E c \in CPUs : QueueToUserspace(t, c) \/ DirectDispatch(t, c)
         \/ IgnoreEnqueue(t) /\ MayBeIgnored(t)
<1>1. tcpu[t] \in CPUs /\ allowed[t] \subseteq CPUs
  BY MaskCPUs DEF TaskTypes
<1>2. ASSUME NEW c \in PickIdle(t), EnqueueIdle(t, c)
      PROVE  \/ \E k \in CPUs : QueueToUserspace(t, k) \/ DirectDispatch(t, k)
             \/ IgnoreEnqueue(t) /\ MayBeIgnored(t)
  <2>1. c \in CPUs
    BY <1>1, <1>2 DEF PickIdle
  <2>2. ~Usable(t, c) => MayBeIgnored(t)
    BY <1>2 DEF Usable, PickIdle, MayBeIgnored, Misplaced
  <2> QED
    BY <1>2, <2>1, <2>2 DEF EnqueueIdle
<1> QED
  BY <1>1, <1>2 DEF Enqueue

(***************************************************************************)
(* Types.                                                                  *)
(***************************************************************************)
LEMMA TypeInit == Init => TypeOK
<1> SUFFICES ASSUME Init PROVE TypeOK
  OBVIOUS
<1>1. TaskTypes
  BY DEF Init, TaskTypes, States
<1>2. RingTypes
  BY DEF Init, RingTypes
<1>3. UserTypes
  BY DEF Init, UserTypes
<1>4. CPUTypes
  BY DEF Init, CPUTypes, Steps
<1>5. FlagTypes
  BY DEF Init, FlagTypes
<1>6. QueueTypes
  BY DEF Init, QueueTypes
<1> QED
  BY <1>1, <1>2, <1>3, <1>4, <1>5, <1>6 DEF TypeOK

\* Entering ops.dispatch keeps the CPU variables it writes well typed.
LEMMA EntryType ==
  ASSUME CPUTypes, NEW c \in CPUs, DispatchEntry(c)
  PROVE  /\ buf' \in [CPUs -> Seq(Entry)]
         /\ pc' \in [CPUs -> Steps]
         /\ drainer' \in CPUs \union {Nobody}
<1>1. buf' \in [CPUs -> Seq(Entry)]
  BY DEF DispatchEntry, CPUTypes
<1>2. pc' \in [CPUs -> Steps]
  BY DEF DispatchEntry, CPUTypes, Steps
<1>3. drainer' \in CPUs \union {Nobody}
  BY DEF DispatchEntry, CPUTypes
<1> QED
  BY <1>1, <1>2, <1>3

\* Switching keeps every variable it writes well typed.
LEMMA SwitchType ==
  ASSUME TypeOK, NEW c \in CPUs, NEW n \in Tasks \union {Sched, Idle},
         SwitchTo(c, n)
  PROVE  /\ TaskTypes' /\ RingTypes' /\ UserTypes' /\ CPUTypes'
         /\ pend' \in [CPUs -> BOOLEAN]
         /\ again' \in [CPUs -> BOOLEAN]
         /\ kicked' \in [CPUs -> BOOLEAN]
<1> USE DEF TypeOK
<1>1. st' \in [Tasks -> States]
  BY DEF SwitchTo, TaskTypes, States, Enqueueing
<1>2. qseq' \in [Tasks -> Nat]
  BY DEF SwitchTo, TaskTypes
<1>3. tcpu' \in [Tasks \union {Sched} -> CPUs]
  BY DEF SwitchTo, TaskTypes
<1>4. TaskTypes'
  BY <1>1, <1>2, <1>3 DEF SwitchTo, TaskTypes
<1>5. RingTypes' /\ UserTypes'
  BY DEF SwitchTo, RingTypes, ringVars, UserTypes, userVars
<1>6. CPUTypes'
  BY DEF SwitchTo, CPUTypes, Steps
<1>7. pend' \in [CPUs -> BOOLEAN] /\ again' \in [CPUs -> BOOLEAN]
  BY DEF SwitchTo, FlagTypes
<1>8. kicked' \in [CPUs -> BOOLEAN]
  BY DEF SwitchTo
<1> QED
  BY <1>4, <1>5, <1>6, <1>7, <1>8

\* A task is moved to a CPU of its mask.
LEMMA MoveType ==
  ASSUME TaskTypes, NEW t \in Tasks, Move(t)
  PROVE  TaskTypes'
<1>1. PICK c \in allowed[t] : tcpu' = [tcpu EXCEPT ![t] = c]
  BY DEF Move
<1>2. c \in CPUs
  BY MaskCPUs
<1> QED
  BY <1>1, <1>2 DEF Move, TaskTypes, States, Enqueueing

LEMMA TypeStep == TypeOK /\ DrainInv /\ [Next]_vars => TypeOK'
<1> SUFFICES ASSUME TypeOK, DrainInv, [Next]_vars PROVE TypeOK'
  OBVIOUS
<1> USE DEF TypeOK
<1>1. ASSUME NEW t \in Tasks, SelectDirect(t) PROVE TypeOK'
  <2>1. TaskTypes'
    BY <1>1, MaskCPUs DEF SelectDirect, PickIdle, TaskTypes, States, Enqueueing, taskVars
  <2>2. FlagTypes'
    BY <1>1, KickType DEF SelectDirect, FlagTypes, cpuVars
  <2>3. QueueTypes'
    BY <1>1, MaskCPUs, PlaceType DEF SelectDirect, PickIdle, QueueTypes, Queues
  <2>4. RingTypes' /\ UserTypes' /\ CPUTypes'
    BY <1>1 DEF SelectDirect, RingTypes, UserTypes, CPUTypes, cpuVars, ringVars, userVars
  <2> QED
    BY <2>1, <2>2, <2>3, <2>4
<1>2. ASSUME NEW t \in Tasks, SelectEnqueue(t) PROVE TypeOK'
  <2>1. TaskTypes'
    BY <1>2, MaskCPUs
      DEF SelectEnqueue, PickIdle, TaskTypes, EnqueueBegin, States, Enqueueing, taskVars
  <2>2. RingTypes' /\ UserTypes' /\ CPUTypes' /\ FlagTypes' /\ QueueTypes'
    BY <1>2 DEF SelectEnqueue, RingTypes, UserTypes, CPUTypes, FlagTypes, QueueTypes, cpuVars,
       ringVars, userVars
  <2> QED
    BY <2>1, <2>2
<1>3. ASSUME NEW t \in Tasks, RemoteWake(t) PROVE TypeOK'
  <2>1. TaskTypes'
    BY <1>3 DEF RemoteWake, TaskTypes, EnqueueBegin, States, Enqueueing, taskVars
  <2>2. RingTypes' /\ UserTypes' /\ CPUTypes' /\ FlagTypes' /\ QueueTypes'
    BY <1>3 DEF RemoteWake, RingTypes, UserTypes, CPUTypes, FlagTypes, QueueTypes, cpuVars,
       ringVars, userVars
  <2> QED
    BY <2>1, <2>2
<1>4. ASSUME NEW t \in Tasks, Requeue(t) PROVE TypeOK'
  <2>1. TaskTypes'
    BY <1>4 DEF Requeue, TaskTypes, EnqueueBegin, States, Enqueueing, taskVars
  <2>2. QueueTypes'
    BY <1>4, LeaveType DEF Requeue, QueueTypes
  <2>3. RingTypes' /\ UserTypes' /\ CPUTypes' /\ FlagTypes'
    BY <1>4 DEF Requeue, RingTypes, UserTypes, CPUTypes, FlagTypes, cpuVars, ringVars, userVars
  <2> QED
    BY <2>1, <2>2, <2>3
<1>5. ASSUME NEW c \in CPUs, DequeueTask(c) PROVE TypeOK'
  <2>1. RingTypes'
    BY <1>5, HeadTailProperties DEF DequeueTask, RingTypes, ringVars
  <2>2. UserTypes'
    BY <1>5, HeadTailProperties DEF DequeueTask, UserTypes, RingTypes, userVars
  <2>3. TaskTypes' /\ CPUTypes' /\ FlagTypes' /\ QueueTypes'
    BY <1>5 DEF DequeueTask, TaskTypes, CPUTypes, FlagTypes, QueueTypes, cpuVars, taskVars
  <2> QED
    BY <2>1, <2>2, <2>3
<1>6. ASSUME NEW c \in CPUs, DequeueDone(c) PROVE TypeOK'
  <2>1. UserTypes'
    BY <1>6 DEF DequeueDone, UserTypes, userVars
  <2>2. TaskTypes' /\ RingTypes' /\ CPUTypes' /\ FlagTypes' /\ QueueTypes'
    BY <1>6 DEF DequeueDone, TaskTypes, RingTypes, CPUTypes, FlagTypes, QueueTypes, cpuVars,
       ringVars, taskVars
  <2> QED
    BY <2>1, <2>2
<1>7. ASSUME NEW c \in CPUs, DispatchTask(c) PROVE TypeOK'
  <2>1. RingTypes'
    <3>1. PICK r \in batch : IF Len(dispatched) < DispatchedCap
                             THEN dispatched' = Append(dispatched, r)
                             ELSE UNCHANGED dispatched
      BY <1>7 DEF DispatchTask
    <3>2. r \in Record
      BY DEF UserTypes
    <3>3. Append(dispatched, r) \in Seq(Record)
      BY <3>2, AppendProperties DEF RingTypes
    <3> QED
      BY <1>7, <3>1, <3>3 DEF DispatchTask, RingTypes
  <2>2. UserTypes'
    BY <1>7 DEF DispatchTask, UserTypes, userVars
  <2>3. TaskTypes' /\ CPUTypes' /\ FlagTypes' /\ QueueTypes'
    BY <1>7 DEF DispatchTask, TaskTypes, CPUTypes, FlagTypes, QueueTypes, cpuVars, taskVars
  <2> QED
    BY <2>1, <2>2, <2>3
<1>8. ASSUME NEW c \in CPUs, NotifyComplete(c) PROVE TypeOK'
  <2>1. UserTypes'
    BY <1>8 DEF NotifyComplete, UserTypes, userVars
  <2>2. CPUTypes'
    BY <1>8, EntryType DEF NotifyComplete, CPUTypes, cpuVars
  <2>3. TaskTypes' /\ RingTypes' /\ FlagTypes' /\ QueueTypes'
    BY <1>8 DEF NotifyComplete, TaskTypes, RingTypes, FlagTypes, QueueTypes, cpuVars,
       ringVars, taskVars
  <2> QED
    BY <2>1, <2>2, <2>3
<1>9. ASSUME NEW c \in CPUs, SliceEnds(c) PROVE TypeOK'
  <2>1. CPUTypes'
    BY <1>9, EntryType DEF SliceEnds, CPUTypes, cpuVars
  <2>2. TaskTypes' /\ RingTypes' /\ UserTypes' /\ FlagTypes' /\ QueueTypes'
    BY <1>9 DEF SliceEnds, TaskTypes, RingTypes, UserTypes, FlagTypes, QueueTypes, cpuVars,
       ringVars, taskVars, userVars
  <2> QED
    BY <2>1, <2>2
<1>10. ASSUME NEW c \in CPUs, Block(c) PROVE TypeOK'
  <2>1. TaskTypes'
    BY <1>10 DEF Block, TaskTypes, States, taskVars
  <2>2. CPUTypes'
    BY <1>10, EntryType DEF Block, CPUTypes, cpuVars
  <2>3. RingTypes' /\ UserTypes' /\ FlagTypes' /\ QueueTypes'
    BY <1>10 DEF Block, RingTypes, UserTypes, FlagTypes, QueueTypes, cpuVars, ringVars, userVars
  <2> QED
    BY <2>1, <2>2, <2>3
<1>11. ASSUME NEW c \in CPUs, IdleWakes(c) PROVE TypeOK'
  <2>1. CPUTypes'
    BY <1>11, EntryType DEF IdleWakes, CPUTypes, cpuVars
  <2>2. FlagTypes'
    BY <1>11 DEF IdleWakes, FlagTypes, cpuVars
  <2>3. TaskTypes' /\ RingTypes' /\ UserTypes' /\ QueueTypes'
    BY <1>11 DEF IdleWakes, TaskTypes, RingTypes, UserTypes, QueueTypes, ringVars, taskVars,
       userVars
  <2> QED
    BY <2>1, <2>2, <2>3
<1>12. ASSUME NEW c \in CPUs, DrainEmpty(c) \/ ReleaseRing(c) PROVE TypeOK'
  <2>1. CPUTypes'
    BY <1>12 DEF DrainEmpty, ReleaseRing, CPUTypes, StopDraining, Steps, cpuVars
  <2>2. TaskTypes' /\ RingTypes' /\ UserTypes' /\ FlagTypes' /\ QueueTypes'
    BY <1>12 DEF DrainEmpty, ReleaseRing, TaskTypes, RingTypes, UserTypes, FlagTypes,
       QueueTypes, cpuVars, ringVars, taskVars, userVars
  <2> QED
    BY <2>1, <2>2
<1>13. ASSUME NEW t \in Tasks, Enqueue(t) PROVE TypeOK'
  <2>1. ASSUME NEW c \in CPUs, QueueToUserspace(t, c)
        PROVE  /\ st' \in [Tasks -> States]
               /\ enq_cnt' \in [Tasks -> Nat]
               /\ queued' \in Seq(Record)
               /\ QueueTypes'
    <3>1. CASE Len(queued) < QueuedCap
      <4> DEFINE r == [pid |-> t, cpu |-> c, enq_cnt |-> enq_cnt[t] + 1]
      <4>1. r \in Record
        BY DEF Record, TaskTypes
      <4> HIDE DEF r
      <4>2. Append(queued, r) \in Seq(Record)
        BY <4>1, AppendProperties DEF RingTypes
      <4>3. queued' = Append(queued, r)
        BY <2>1, <3>1 DEF QueueToUserspace, r
      <4>4. st' \in [Tasks -> States]
        BY <2>1, <3>1 DEF QueueToUserspace, TaskTypes, States
      <4>6. enq_cnt' \in [Tasks -> Nat]
        <5>1. enq_cnt' = [enq_cnt EXCEPT ![t] = @ + 1] /\ enq_cnt \in [Tasks -> Nat]
          BY <2>1, <3>1 DEF QueueToUserspace, TaskTypes
        <5> QED
          BY <5>1
      <4>5. QueueTypes'
        BY <2>1, <3>1 DEF QueueToUserspace, QueueTypes
      <4> QED
        BY <4>2, <4>3, <4>4, <4>5, <4>6
    <3>2. CASE ~(Len(queued) < QueuedCap)
      <4>1. QueueTypes'
        BY <2>1, <3>2, PlaceType DEF QueueToUserspace, Queues
      <4> QED
        BY <2>1, <3>2, <4>1 DEF QueueToUserspace, TaskTypes, RingTypes, States
    <3> QED
      BY <3>1, <3>2
  <2>2. ASSUME NEW c \in CPUs, DirectDispatch(t, c)
        PROVE  /\ st' \in [Tasks -> States]
               /\ enq_cnt' \in [Tasks -> Nat]
               /\ queued' \in Seq(Record)
               /\ QueueTypes'
    <3>1. QueueTypes'
      BY <2>2, PlaceType DEF DirectDispatch, Queues
    <3> QED
      BY <2>2, <3>1 DEF DirectDispatch, TaskTypes, RingTypes, States
  <2>3. ASSUME IgnoreEnqueue(t)
        PROVE  /\ st' \in [Tasks -> States]
               /\ enq_cnt' \in [Tasks -> Nat]
               /\ queued' \in Seq(Record)
               /\ QueueTypes'
    BY <2>3 DEF IgnoreEnqueue, TaskTypes, RingTypes, QueueTypes, States
  <2>4. kicked' \in [CPUs -> BOOLEAN]
    BY <1>13 DEF Enqueue, EnqueueIdle, Kick
  <2>5. TaskTypes' /\ RingTypes' /\ QueueTypes'
    BY <1>13, <2>1, <2>2, <2>3, EnqueueCases DEF Enqueue, TaskTypes, RingTypes
  <2>6. UserTypes' /\ CPUTypes' /\ FlagTypes'
    BY <1>13, <2>4 DEF Enqueue, UserTypes, CPUTypes, FlagTypes, userVars, cpuVars
  <2> QED
    BY <2>5, <2>6
<1>14. ASSUME NEW c \in CPUs, TestAffinity(c) PROVE TypeOK'
  <2> DEFINE v == Target(Head(dispatched), tgt[c])
  <2>1. Head(dispatched) \in Record
    BY <1>14, HeadTailProperties DEF TestAffinity, DrainInv, RingTypes
  <2>2. v \in CPUs
    BY <2>1 DEF Record, CPUTypes, Target
  <2>3. tgt' = [tgt EXCEPT ![c] = v]
    BY <1>14 DEF TestAffinity
  <2> HIDE DEF v
  <2>4. CPUTypes'
    BY <1>14, <2>2, <2>3 DEF TestAffinity, CPUTypes, Steps
  <2>5. TaskTypes' /\ RingTypes' /\ UserTypes' /\ FlagTypes' /\ QueueTypes'
    BY <1>14 DEF TestAffinity, TaskTypes, RingTypes, UserTypes, FlagTypes, QueueTypes,
                 taskVars, ringVars, userVars
  <2> QED
    BY <2>4, <2>5
<1>15. ASSUME NEW c \in CPUs, InsertVtime(c) PROVE TypeOK'
  <2> DEFINE r == Head(dispatched)
             e == [pid |-> r.pid, cpu |-> tgt[c], qseq |-> qseq[r.pid],
                   enq_cnt |-> r.enq_cnt, overlap |-> st[r.pid] \in Enqueueing]
  <2>1. r \in Record
    BY <1>15, HeadTailProperties DEF InsertVtime, DrainInv, RingTypes
  <2> HIDE DEF r
  <2>2. e \in Entry
    BY <2>1 DEF Record, Entry, TaskTypes, CPUTypes
  <2> HIDE DEF e
  <2>3. Append(buf[c], e) \in Seq(Entry)
    BY <2>2, AppendProperties DEF CPUTypes
  <2>4. buf' = [buf EXCEPT ![c] = Append(@, e)]
    BY <1>15 DEF InsertVtime, r, e
  <2>5. CPUTypes'
    BY <1>15, <2>3, <2>4 DEF InsertVtime, CPUTypes, Steps
  <2>6. TaskTypes' /\ RingTypes' /\ UserTypes' /\ FlagTypes' /\ QueueTypes'
    BY <1>15 DEF InsertVtime, TaskTypes, RingTypes, UserTypes, FlagTypes,
                 QueueTypes, taskVars, ringVars, userVars
  <2> QED
    BY <2>5, <2>6
<1>16. ASSUME NEW c \in CPUs, CheckGeneration(c) PROVE TypeOK'
  <2>1. buf[c] # <<>> /\ dispatched # <<>>
    BY <1>16 DEF CheckGeneration, DrainInv
  <2>2. Tail(dispatched) \in Seq(Record)
    BY <2>1, HeadTailProperties DEF RingTypes
  <2>3. Front(buf[c]) \in Seq(Entry)
    BY <2>1, FrontProperties DEF CPUTypes
  <2>4. tgt[c] \in CPUs
    BY DEF CPUTypes
  <2>5. buf' \in [CPUs -> Seq(Entry)]
    BY <1>16, <2>3 DEF CheckGeneration, CPUTypes
  <2>6. pc' \in [CPUs -> Steps] /\ drainer' \in CPUs \union {Nobody}
    <3>1. /\ \E x \in {"pending", "drain"} : pc' = [pc EXCEPT ![c] = x]
          /\ drainer' \in {drainer, Nobody}
      BY <1>16 DEF CheckGeneration, StopDraining
    <3> QED
      BY <3>1 DEF CPUTypes, Steps
  <2>7. kicks' \in [CPUs -> SUBSET CPUs] /\ tgt' \in [CPUs -> CPUs]
    BY <1>16, <2>4 DEF CheckGeneration, CPUTypes, WokenBy
  <2>8. CPUTypes' /\ RingTypes'
    BY <1>16, <2>2, <2>5, <2>6, <2>7 DEF CheckGeneration, CPUTypes, RingTypes
  <2>9. TaskTypes' /\ UserTypes' /\ FlagTypes' /\ QueueTypes'
    BY <1>16 DEF CheckGeneration, TaskTypes, UserTypes, FlagTypes, QueueTypes,
                 taskVars, userVars
  <2> QED
    BY <2>8, <2>9
<1>17. ASSUME NEW c \in CPUs, TestPending(c) PROVE TypeOK'
  <2>1. pend' \in [CPUs -> BOOLEAN] /\ again' \in [CPUs -> BOOLEAN]
    BY <1>17 DEF TestPending, FlagTypes, HasPending, UserTypes
  <2>2. FlagTypes' /\ CPUTypes'
    BY <1>17, <2>1 DEF TestPending, FlagTypes, CPUTypes, Steps
  <2>3. TaskTypes' /\ RingTypes' /\ UserTypes' /\ QueueTypes'
    BY <1>17 DEF TestPending, TaskTypes, RingTypes, UserTypes, QueueTypes,
                 taskVars, ringVars, userVars
  <2> QED
    BY <2>2, <2>3
<1>18. ASSUME NEW c \in CPUs, FinishDispatch(c) PROVE TypeOK'
  <2> DEFINE e == Head(buf[c])
  <2>1. e \in Entry /\ Tail(buf[c]) \in Seq(Entry)
    BY <1>18, HeadTailProperties DEF FinishDispatch, CPUTypes
  <2> HIDE DEF e
  <2>2. e.pid \in Tasks /\ e.cpu \in Queues
    BY <2>1 DEF Entry, Queues
  <2>3. QueueTypes'
    <3>1. CASE Claims(e)
      BY <1>18, <2>2, <3>1, PlaceType DEF FinishDispatch, e
    <3>2. CASE ~Claims(e)
      BY <1>18, <3>2 DEF FinishDispatch, QueueTypes, e
    <3> QED
      BY <3>1, <3>2
  <2>4. st' \in [Tasks -> States]
    BY <1>18 DEF FinishDispatch, TaskTypes, States
  <2>5. TaskTypes' /\ CPUTypes'
    BY <1>18, <2>1, <2>4 DEF FinishDispatch, TaskTypes, CPUTypes
  <2>6. RingTypes' /\ UserTypes' /\ FlagTypes'
    BY <1>18 DEF FinishDispatch, RingTypes, UserTypes, FlagTypes, ringVars, userVars
  <2> QED
    BY <2>3, <2>5, <2>6
<1>19. ASSUME NEW c \in CPUs, RunScheduler(c) PROVE TypeOK'
  <2>1. TaskTypes' /\ RingTypes' /\ UserTypes' /\ CPUTypes' /\ FlagTypes'
    BY <1>19, SwitchType DEF RunScheduler, FlagTypes
  <2> QED
    BY <1>19, <2>1 DEF RunScheduler, QueueTypes
<1>20. ASSUME NEW c \in CPUs, RunTask(c) PROVE TypeOK'
  <2>0. PICK d \in {c, Shared} : \E i \in Runnable(d, c) :
          /\ SwitchTo(c, dsq[d][i])
          /\ dsq' = [dsq EXCEPT ![d] = RemoveAt(@, i)]
    BY <1>20 DEF RunTask
  <2>1. PICK i \in Runnable(d, c) :
          /\ SwitchTo(c, dsq[d][i])
          /\ dsq' = [dsq EXCEPT ![d] = RemoveAt(@, i)]
    BY <2>0
  <2>2. d \in Queues /\ dsq[d] \in Seq(Tasks) /\ i \in DOMAIN dsq[d]
    BY DEF Queues, QueueTypes, Runnable
  <2>3. dsq[d][i] \in Tasks
    BY <2>2, ElementOfSeq
  <2>4. RemoveAt(dsq[d], i) \in Seq(Tasks)
    BY <2>2, RemoveAtType
  <2>5. QueueTypes'
    BY <2>1, <2>2, <2>4 DEF QueueTypes
  <2>6. TaskTypes' /\ RingTypes' /\ UserTypes' /\ CPUTypes' /\ FlagTypes'
    BY <1>20, <2>1, <2>3, SwitchType DEF RunTask, FlagTypes
  <2> QED
    BY <2>5, <2>6
<1>21. ASSUME NEW c \in CPUs, KeepPrev(c) PROVE TypeOK'
  <2>1. curr[c] \in Tasks \union {Sched, Idle}
    BY DEF CPUTypes
  <2>2. TaskTypes' /\ RingTypes' /\ UserTypes' /\ CPUTypes' /\ FlagTypes'
    BY <1>21, <2>1, SwitchType DEF KeepPrev, FlagTypes
  <2> QED
    BY <1>21, <2>2 DEF KeepPrev, QueueTypes
<1>22. ASSUME NEW c \in CPUs, DispatchAgain(c) PROVE TypeOK'
  <2>1. CPUTypes'
    BY <1>22, EntryType DEF DispatchAgain, CPUTypes
  <2>2. TaskTypes' /\ RingTypes' /\ UserTypes' /\ FlagTypes' /\ QueueTypes'
    BY <1>22 DEF DispatchAgain, TaskTypes, RingTypes, UserTypes, FlagTypes,
                 QueueTypes, taskVars, ringVars, userVars
  <2> QED
    BY <2>1, <2>2
<1>23. ASSUME NEW c \in CPUs, GoIdle(c) PROVE TypeOK'
  <2>1. TaskTypes' /\ RingTypes' /\ UserTypes' /\ CPUTypes' /\ FlagTypes'
    BY <1>23, SwitchType DEF GoIdle, FlagTypes
  <2> QED
    BY <1>23, <2>1 DEF GoIdle, QueueTypes
<1>24. ASSUME TimerFires PROVE TypeOK'
  <2>1. FlagTypes'
    BY <1>24, KickType DEF TimerFires, FlagTypes, cpuVars
  <2> QED
    BY <1>24, <2>1 DEF TimerFires, TaskTypes, RingTypes, UserTypes, CPUTypes,
                       QueueTypes, taskVars, ringVars, userVars, cpuVars
<1>25. ASSUME UNCHANGED vars PROVE TypeOK'
  BY <1>25 DEF vars, TaskTypes, RingTypes, UserTypes, CPUTypes, FlagTypes, QueueTypes
<1>26. ASSUME NEW t \in Tasks, ChangeMask(t) PROVE TypeOK'
  <2>1. TaskTypes'
    BY <1>26 DEF ChangeMask, TaskTypes
  <2>2. RingTypes' /\ UserTypes' /\ CPUTypes' /\ FlagTypes' /\ QueueTypes'
    BY <1>26 DEF ChangeMask, RingTypes, UserTypes, CPUTypes, FlagTypes, QueueTypes,
                 cpuVars, ringVars, userVars
  <2> QED
    BY <2>1, <2>2
<1>27. ASSUME NEW t \in Tasks, MoveWaiting(t) PROVE TypeOK'
  <2>1. TaskTypes'
    BY <1>27, MoveType DEF MoveWaiting
  <2>2. QueueTypes'
    BY <1>27, LeaveType DEF MoveWaiting, QueueTypes
  <2>3. RingTypes' /\ UserTypes' /\ CPUTypes' /\ FlagTypes'
    BY <1>27 DEF MoveWaiting, RingTypes, UserTypes, CPUTypes, FlagTypes, cpuVars,
                 ringVars, userVars
  <2> QED
    BY <2>1, <2>2, <2>3
<1>28. ASSUME NEW c \in CPUs, MoveRunning(c) PROVE TypeOK'
  <2>1. TaskTypes'
    BY <1>28, MoveType DEF MoveRunning
  <2>2. CPUTypes'
    BY <1>28, EntryType DEF MoveRunning, CPUTypes
  <2>3. RingTypes' /\ UserTypes' /\ FlagTypes' /\ QueueTypes'
    BY <1>28 DEF MoveRunning, RingTypes, UserTypes, FlagTypes, QueueTypes, ringVars,
                 userVars
  <2> QED
    BY <2>1, <2>2, <2>3
<1>29. ASSUME NEW c \in CPUs, LookupTask(c) PROVE TypeOK'
  <2> DEFINE r == Head(dispatched)
  <2>1. r \in Record /\ Tail(dispatched) \in Seq(Record)
    BY <1>29, HeadTailProperties DEF LookupTask, RingTypes
  <2>2. RingTypes'
    BY <1>29, <2>1 DEF LookupTask, RingTypes
  <2> DEFINE v == tcpu[r.pid]
  <2>3. v \in CPUs
    BY <2>1 DEF Record, TaskTypes
  <2>4. CPUTypes'
    <3>1. tgt' = tgt \/ tgt' = [tgt EXCEPT ![c] = v]
      BY <1>29 DEF LookupTask
    <3> HIDE DEF v
    <3>2. tgt' \in [CPUs -> CPUs]
      <4>1. tgt \in [CPUs -> CPUs]
        BY DEF CPUTypes
      <4> QED
        BY <2>3, <3>1, <4>1
    <3>3. pc' \in [CPUs -> Steps]
      <4>1. \E x \in {"test", "pending"} : pc' = pc \/ pc' = [pc EXCEPT ![c] = x]
        BY <1>29 DEF LookupTask, StopDraining
      <4> QED
        BY <4>1 DEF CPUTypes, Steps
    <3> QED
      BY <1>29, <3>2, <3>3 DEF LookupTask, StopDraining, CPUTypes
  <2>5. TaskTypes' /\ UserTypes' /\ FlagTypes' /\ QueueTypes'
    BY <1>29 DEF LookupTask, StopDraining, TaskTypes, UserTypes, FlagTypes, QueueTypes,
                 taskVars, userVars
  <2> QED
    BY <2>2, <2>4, <2>5
<1> QED
  BY <1>1, <1>2, <1>3, <1>4, <1>5, <1>6, <1>7, <1>8, <1>9, <1>10, <1>11, <1>12,
     <1>13, <1>14, <1>15, <1>16, <1>17, <1>18, <1>19, <1>20, <1>21, <1>22,
     <1>23, <1>24, <1>25, <1>26, <1>27, <1>28, <1>29
     DEF Next, UserStep, DispatchStep

(***************************************************************************)
(* What a step can do to a task.                                           *)
(***************************************************************************)
\* Nothing, its mask and CPU included while it waits in the hands of the BPF side;
\* the start of an enqueue; the end of one, which may have ignored the task; or a
\* move that leaves the task outside the hands of the BPF side.
TaskMoves(t) ==
  \/ /\ st'[t] = st[t] /\ qseq'[t] = qseq[t] /\ enq_cnt'[t] = enq_cnt[t]
     /\ st[t] = "queued" => tcpu'[t] = tcpu[t] /\ allowed'[t] = allowed[t]
  \/ /\ st'[t] \in Enqueueing
     /\ qseq'[t] = qseq[t] + 1
     /\ enq_cnt'[t] = enq_cnt[t]
  \/ /\ st[t] \in Enqueueing
     /\ qseq'[t] = qseq[t]
     /\ \/ st'[t] = "queued" /\ enq_cnt'[t] = enq_cnt[t] + 1
        \/ st'[t] = "dsq" /\ enq_cnt'[t] = enq_cnt[t]
        \/ st'[t] = "queued" /\ enq_cnt'[t] = enq_cnt[t] /\ MayBeIgnored(t)'
  \/ /\ st'[t] \notin Enqueueing \union {"queued"}
     /\ qseq'[t] = qseq[t]
     /\ enq_cnt'[t] = enq_cnt[t]

LEMMA EnqueueBeginMoves ==
  ASSUME TaskTypes, NEW x \in Tasks, NEW m \in Enqueueing,
         st' = [st EXCEPT ![x] = m], qseq' = [qseq EXCEPT ![x] = @ + 1],
         UNCHANGED enq_cnt, NEW t \in Tasks,
         t # x => tcpu'[t] = tcpu[t] /\ allowed'[t] = allowed[t]
  PROVE  TaskMoves(t)
BY DEF TaskTypes, TaskMoves

LEMMA SwitchMoves ==
  ASSUME TaskTypes, CPUTypes, NEW c \in CPUs, NEW n, SwitchTo(c, n), NEW t \in Tasks
  PROVE  TaskMoves(t)
<1>1. UNCHANGED enq_cnt
  BY DEF SwitchTo
<1>2. CASE t = n
  <2>1. st'[t] = "running" /\ qseq'[t] = qseq[t]
    BY <1>2 DEF SwitchTo, TaskTypes
  <2> QED
    BY <1>1, <2>1 DEF TaskMoves, Enqueueing
<1>3. CASE t # n /\ t = curr[c]
  <2>1. st'[t] = "preempted" /\ qseq'[t] = qseq[t] + 1
    BY <1>3 DEF SwitchTo, TaskTypes
  <2> QED
    BY <1>1, <2>1 DEF TaskMoves, Enqueueing
<1>4. CASE t # n /\ t # curr[c]
  <2>1. /\ st'[t] = st[t] /\ qseq'[t] = qseq[t]
        /\ tcpu'[t] = tcpu[t] /\ allowed'[t] = allowed[t]
    BY <1>4 DEF SwitchTo, TaskTypes
  <2> QED
    BY <1>1, <2>1 DEF TaskMoves
<1> QED
  BY <1>2, <1>3, <1>4

\* Every step moves every task in one of the four ways.
LEMMA EveryTaskMoves ==
  ASSUME TypeOK, [Next]_vars, NEW t \in Tasks
  PROVE  TaskMoves(t)
<1> USE DEF TypeOK
<1>1. ASSUME UNCHANGED taskVars PROVE TaskMoves(t)
  BY <1>1 DEF TaskMoves, taskVars
<1>2. ASSUME NEW x \in Tasks,
             SelectEnqueue(x) \/ RemoteWake(x) \/ Requeue(x) \/ MoveWaiting(x)
      PROVE  TaskMoves(t)
  <2>1. \E m \in Enqueueing : st' = [st EXCEPT ![x] = m]
    BY <1>2 DEF SelectEnqueue, RemoteWake, Requeue, MoveWaiting, Move, EnqueueBegin,
                Enqueueing
  <2>2. qseq' = [qseq EXCEPT ![x] = @ + 1] /\ UNCHANGED enq_cnt
    BY <1>2 DEF SelectEnqueue, RemoteWake, Requeue, MoveWaiting, Move, EnqueueBegin
  <2>3. t # x => tcpu'[t] = tcpu[t]
    <3>1. tcpu' = tcpu \/ \E c : tcpu' = [tcpu EXCEPT ![x] = c]
      BY <1>2 DEF SelectEnqueue, RemoteWake, Requeue, MoveWaiting, Move
    <3> QED
      BY <3>1 DEF TaskTypes
  <2>4. t # x => allowed'[t] = allowed[t]
    <3>1. allowed' = allowed \/ \E m : allowed' = [allowed EXCEPT ![x] = m]
      BY <1>2 DEF SelectEnqueue, RemoteWake, Requeue, MoveWaiting, Move
    <3> QED
      BY <3>1 DEF TaskTypes
  <2> QED
    BY <2>1, <2>2, <2>3, <2>4, EnqueueBeginMoves
<1>3. ASSUME NEW x \in Tasks, SelectDirect(x) PROVE TaskMoves(t)
  <2>1. \E c : tcpu' = [tcpu EXCEPT ![x] = c]
    BY <1>3 DEF SelectDirect
  <2> QED
    BY <1>3, <2>1 DEF SelectDirect, TaskMoves, TaskTypes, Enqueueing
<1>4. ASSUME NEW x \in Tasks, Enqueue(x) PROVE TaskMoves(t)
  <2>1. /\ st[x] \in Enqueueing
        /\ UNCHANGED <<qseq, tcpu, allowed>>
        /\ \/ /\ st' = [st EXCEPT ![x] = "queued"]
              /\ enq_cnt' = [enq_cnt EXCEPT ![x] = @ + 1]
           \/ /\ st' = [st EXCEPT ![x] = "dsq"]
              /\ UNCHANGED enq_cnt
           \/ /\ st' = [st EXCEPT ![x] = "queued"]
              /\ UNCHANGED enq_cnt
              /\ MayBeIgnored(x)'
    <3>1. st[x] \in Enqueueing /\ UNCHANGED <<qseq, tcpu, allowed>>
      BY <1>4 DEF Enqueue
    <3>2. MayBeIgnored(x) => MayBeIgnored(x)'
      BY <3>1 DEF MayBeIgnored, Pinned, Misplaced
    <3> QED
      BY <1>4, <3>1, <3>2, EnqueueCases DEF QueueToUserspace, DirectDispatch, IgnoreEnqueue
  <2>2. CASE t = x
    BY <2>1, <2>2 DEF TaskMoves, TaskTypes
  <2>3. CASE t # x
    BY <2>1, <2>3 DEF TaskMoves, TaskTypes
  <2> QED
    BY <2>2, <2>3
<1>5. ASSUME NEW c \in CPUs, Block(c) PROVE TaskMoves(t)
  <2>1. PICK s \in {"sleeping", "gone"} : st' = [st EXCEPT ![curr[c]] = s]
    BY <1>5 DEF Block
  <2> QED
    BY <1>5, <2>1 DEF Block, TaskMoves, TaskTypes, Enqueueing
<1>6. ASSUME NEW c \in CPUs, FinishDispatch(c) PROVE TaskMoves(t)
  <2>1. /\ UNCHANGED <<qseq, enq_cnt, tcpu, allowed>>
        /\ st' = st \/ st' = [st EXCEPT ![Head(buf[c]).pid] = "dsq"]
    BY <1>6 DEF FinishDispatch
  <2> QED
    BY <2>1 DEF TaskMoves, TaskTypes, Enqueueing
<1>7. ASSUME NEW c \in CPUs,
             RunScheduler(c) \/ RunTask(c) \/ KeepPrev(c) \/ GoIdle(c)
      PROVE  TaskMoves(t)
  <2>1. PICK n : SwitchTo(c, n)
    BY <1>7 DEF RunScheduler, RunTask, KeepPrev, GoIdle
  <2> QED
    BY <2>1, SwitchMoves
<1>8. ASSUME NEW c \in CPUs,
             \/ DequeueTask(c) \/ DequeueDone(c) \/ DispatchTask(c)
             \/ NotifyComplete(c) \/ SliceEnds(c) \/ IdleWakes(c)
             \/ DrainEmpty(c) \/ ReleaseRing(c) \/ LookupTask(c) \/ TestAffinity(c) \/ InsertVtime(c)
             \/ CheckGeneration(c) \/ TestPending(c) \/ DispatchAgain(c)
      PROVE  TaskMoves(t)
  BY <1>1, <1>8 DEF DequeueTask, DequeueDone, DispatchTask, NotifyComplete,
     SliceEnds, IdleWakes, DrainEmpty, ReleaseRing, LookupTask, TestAffinity, InsertVtime,
     CheckGeneration, TestPending, DispatchAgain
<1>9. ASSUME TimerFires \/ UNCHANGED vars PROVE TaskMoves(t)
  BY <1>1, <1>9 DEF TimerFires, taskVars, vars
<1>10. ASSUME NEW x \in Tasks, ChangeMask(x) PROVE TaskMoves(t)
  <2>1. /\ st[x] # "queued" /\ UNCHANGED <<st, qseq, enq_cnt, tcpu>>
        /\ \E m : allowed' = [allowed EXCEPT ![x] = m]
    BY <1>10 DEF ChangeMask
  <2> QED
    BY <2>1 DEF TaskMoves, TaskTypes
<1>11. ASSUME NEW c \in CPUs, MoveRunning(c) PROVE TaskMoves(t)
  <2> DEFINE x == curr[c]
  <2>1. x \in Tasks /\ Move(x)
    BY <1>11 DEF MoveRunning
  <2> HIDE DEF x
  <2>2. /\ st' = [st EXCEPT ![x] = "wakeup"] /\ qseq' = [qseq EXCEPT ![x] = @ + 1]
        /\ UNCHANGED <<enq_cnt, allowed>>
        /\ \E k : tcpu' = [tcpu EXCEPT ![x] = k]
    BY <2>1 DEF Move
  <2>3. t # x => tcpu'[t] = tcpu[t]
    BY <2>2 DEF TaskTypes
  <2> QED
    BY <2>1, <2>2, <2>3, EnqueueBeginMoves DEF Enqueueing
<1> QED
  BY <1>2, <1>3, <1>4, <1>5, <1>6, <1>7, <1>8, <1>9, <1>10, <1>11
     DEF Next, UserStep, DispatchStep

(***************************************************************************)
(* The drain.                                                              *)
(***************************************************************************)
\* Entering ops.dispatch claims the ring only when nobody drains it.
LEMMA EntryDrain ==
  ASSUME TypeOK, DrainInv, NEW c \in CPUs, pc[c] \in {"run", "flush"},
         DispatchEntry(c), UNCHANGED dispatched
  PROVE  DrainInv'
<1> USE DEF TypeOK
<1>1. pc \in [CPUs -> Steps] /\ buf \in [CPUs -> Seq(Entry)]
  BY DEF CPUTypes
<1>2. \A k \in CPUs : drainer' = k <=> pc'[k] \in Draining
  BY <1>1 DEF DispatchEntry, DrainInv, Draining, Looping
<1>3. \A k \in CPUs : pc'[k] \in {"test", "insert", "check"} =>
        k # c /\ pc'[k] = pc[k] /\ buf'[k] = buf[k]
  BY <1>1 DEF DispatchEntry
<1> QED
  BY <1>2, <1>3 DEF DrainInv

\* Leaving the drain, or ops.dispatch, releases nothing another CPU holds.
LEMMA SwitchDrain ==
  ASSUME TypeOK, DrainInv, NEW c \in CPUs, pc[c] = "flush", NEW n, SwitchTo(c, n)
  PROVE  DrainInv'
<1> USE DEF TypeOK
<1>1. pc \in [CPUs -> Steps] /\ pc' = [pc EXCEPT ![c] = "run"]
  BY DEF CPUTypes, SwitchTo
<1>2. UNCHANGED <<drainer, dispatched, buf>>
  BY DEF SwitchTo, ringVars
<1> QED
  BY <1>1, <1>2 DEF DrainInv, Draining, Looping

LEMMA DrainStep == TypeOK /\ DrainInv /\ [Next]_vars => DrainInv'
<1> SUFFICES ASSUME TypeOK, DrainInv, [Next]_vars PROVE DrainInv'
  OBVIOUS
<1> USE DEF TypeOK
<1>a. /\ pc \in [CPUs -> Steps]
      /\ buf \in [CPUs -> Seq(Entry)]
      /\ dispatched \in Seq(Record)
  BY DEF CPUTypes, RingTypes
<1>1. ASSUME UNCHANGED <<pc, drainer, buf, dispatched>> PROVE DrainInv'
  BY <1>1 DEF DrainInv
<1>2. ASSUME NEW t \in Tasks,
             \/ SelectDirect(t) \/ SelectEnqueue(t) \/ RemoteWake(t)
             \/ ChangeMask(t) \/ Requeue(t) \/ MoveWaiting(t)
      PROVE  DrainInv'
  BY <1>1, <1>2 DEF SelectDirect, SelectEnqueue, RemoteWake, ChangeMask, Requeue,
     MoveWaiting, cpuVars,
                    ringVars
<1>3. ASSUME NEW t \in Tasks, Enqueue(t) PROVE DrainInv'
  BY <1>1, <1>3 DEF Enqueue, cpuVars
<1>4. ASSUME NEW c \in CPUs, DequeueTask(c) \/ DequeueDone(c) PROVE DrainInv'
  BY <1>1, <1>4 DEF DequeueTask, DequeueDone, cpuVars, ringVars
<1>5. ASSUME NEW c \in CPUs, DispatchTask(c) PROVE DrainInv'
  <2>1. UNCHANGED <<pc, drainer, buf>>
    BY <1>5 DEF DispatchTask, cpuVars
  <2>2. PICK r \in batch : dispatched' = dispatched \/ dispatched' = Append(dispatched, r)
    BY <1>5 DEF DispatchTask
  <2>3. r \in Record
    BY DEF UserTypes
  <2>4. dispatched # <<>> => /\ dispatched' # <<>>
                             /\ Head(dispatched') = Head(dispatched)
    <3> SUFFICES ASSUME dispatched # <<>>, dispatched' = Append(dispatched, r)
                 PROVE  dispatched' # <<>> /\ Head(dispatched') = Head(dispatched)
      BY <2>2
    <3>1. 1 \in 1 .. Len(dispatched)
      BY <1>a, EmptySeq
    <3>2. dispatched' # <<>> /\ dispatched' \in Seq(Record) /\ dispatched'[1] = dispatched[1]
      BY <1>a, <2>3, <3>1, AppendProperties
    <3> QED
      BY <1>a, <3>2, HeadTailProperties
  <2> QED
    BY <2>1, <2>4 DEF DrainInv
<1>6. ASSUME NEW c \in CPUs,
             \/ NotifyComplete(c) \/ SliceEnds(c) \/ Block(c) \/ MoveRunning(c) \/ IdleWakes(c)
             \/ DispatchAgain(c)
      PROVE  DrainInv'
  <2>1. pc[c] \in {"run", "flush"} /\ DispatchEntry(c) /\ UNCHANGED dispatched
    BY <1>6 DEF NotifyComplete, SliceEnds, Block, MoveRunning, IdleWakes, DispatchAgain,
                OnCPU, Picking, ringVars
  <2> QED
    BY <2>1, EntryDrain
<1>7. ASSUME NEW c \in CPUs, DrainEmpty(c) \/ ReleaseRing(c) PROVE DrainInv'
  BY <1>7, <1>a DEF DrainEmpty, ReleaseRing, StopDraining, DrainInv, Draining, Looping,
     CPUTypes, ringVars
<1>8. ASSUME NEW c \in CPUs, LookupTask(c) \/ TestAffinity(c) PROVE DrainInv'
  <2>1. \A k \in CPUs : k # c => pc[k] \notin Draining
    BY <1>8 DEF LookupTask, TestAffinity, DrainInv, Draining, Looping
  <2>2. UNCHANGED buf /\ dispatched # <<>> /\ pc[c] \in {"drain", "test"}
    BY <1>8 DEF LookupTask, TestAffinity, DrainInv
  <2>3. \/ pc' = pc /\ UNCHANGED drainer /\ pc[c] = "drain"
        \/ /\ \E x \in {"test", "insert"} : pc' = [pc EXCEPT ![c] = x]
           /\ UNCHANGED <<dispatched, drainer>>
        \/ pc' = [pc EXCEPT ![c] = "pending"] /\ drainer' = Nobody
    BY <1>8 DEF LookupTask, TestAffinity, StopDraining, ringVars
  <2>4. CASE pc' = pc /\ UNCHANGED drainer /\ pc[c] = "drain"
    BY <1>a, <2>1, <2>2, <2>4 DEF DrainInv, Draining, Looping
  <2>5. CASE /\ \E x \in {"test", "insert"} : pc' = [pc EXCEPT ![c] = x]
             /\ UNCHANGED <<dispatched, drainer>>
    BY <1>a, <2>1, <2>2, <2>5 DEF DrainInv, Draining, Looping
  <2>6. CASE pc' = [pc EXCEPT ![c] = "pending"] /\ drainer' = Nobody
    BY <1>a, <2>1, <2>2, <2>6 DEF DrainInv, Draining, Looping
  <2> QED
    BY <2>3, <2>4, <2>5, <2>6
<1>9. ASSUME NEW c \in CPUs, InsertVtime(c) PROVE DrainInv'
  <2>1. \A k \in CPUs : k # c => pc[k] \notin Draining
    BY <1>9 DEF InsertVtime, DrainInv, Draining, Looping
  <2>2. /\ UNCHANGED <<drainer, dispatched>> /\ dispatched # <<>>
        /\ pc' = [pc EXCEPT ![c] = "check"] /\ pc[c] = "insert"
    BY <1>9 DEF InsertVtime, DrainInv, ringVars
  <2> DEFINE r == Head(dispatched)
             e == [pid |-> r.pid, cpu |-> tgt[c], qseq |-> qseq[r.pid],
                   enq_cnt |-> r.enq_cnt, overlap |-> st[r.pid] \in Enqueueing]
  <2>3. r \in Record
    BY <1>a, <2>2, HeadTailProperties
  <2>4. e \in Entry
    BY <2>3 DEF Record, Entry, TaskTypes, CPUTypes
  <2>5. e.pid = r.pid /\ e.enq_cnt = r.enq_cnt
    OBVIOUS
  <2>6. buf' = [buf EXCEPT ![c] = Append(buf[c], e)]
    BY <1>9 DEF InsertVtime
  <2> HIDE DEF e, r
  <2>7. Append(buf[c], e) # <<>> /\ Last(Append(buf[c], e)) = e
    BY <1>a, <2>4, AppendProperties DEF Last
  <2>8. buf'[c] # <<>> /\ Last(buf'[c]) = e
    BY <1>a, <2>6, <2>7
  <2> QED
    BY <1>a, <2>1, <2>2, <2>5, <2>8 DEF DrainInv, Draining, Looping, r
<1>10. ASSUME NEW c \in CPUs, CheckGeneration(c) PROVE DrainInv'
  <2>1. /\ \A k \in CPUs : k # c => pc[k] \notin Draining
        /\ pc[c] = "check" /\ drainer = c
    BY <1>10 DEF CheckGeneration, DrainInv, Draining, Looping
  <2>2. \/ drainer' = Nobody /\ pc' = [pc EXCEPT ![c] = "pending"]
        \/ UNCHANGED drainer /\ pc' = [pc EXCEPT ![c] = "drain"]
    BY <1>10 DEF CheckGeneration, StopDraining
  <2>3. \A k \in CPUs : k # c => pc'[k] = pc[k] /\ drainer' # k
    BY <1>a, <2>1, <2>2
  <2>4. pc'[c] \in {"pending", "drain"} /\ (drainer' = c <=> pc'[c] = "drain")
    BY <1>a, <2>1, <2>2
  <2> QED
    BY <2>1, <2>3, <2>4 DEF DrainInv, Draining, Looping
<1>11. ASSUME NEW c \in CPUs, TestPending(c) PROVE DrainInv'
  BY <1>11, <1>a DEF TestPending, DrainInv, Draining, Looping, ringVars
<1>12. ASSUME NEW c \in CPUs, FinishDispatch(c) PROVE DrainInv'
  <2>1. pc[c] = "flush" /\ UNCHANGED <<pc, drainer, dispatched>>
    BY <1>12 DEF FinishDispatch, ringVars
  <2>2. \A k \in CPUs : k # c => buf'[k] = buf[k]
    BY <1>12, <1>a DEF FinishDispatch
  <2> QED
    BY <2>1, <2>2 DEF DrainInv
<1>13. ASSUME NEW c \in CPUs,
              RunScheduler(c) \/ RunTask(c) \/ KeepPrev(c) \/ GoIdle(c)
       PROVE  DrainInv'
  <2>1. pc[c] = "flush" /\ \E n : SwitchTo(c, n)
    BY <1>13 DEF RunScheduler, RunTask, KeepPrev, GoIdle, Picking
  <2> QED
    BY <2>1, SwitchDrain
<1>14. ASSUME TimerFires \/ UNCHANGED vars PROVE DrainInv'
  BY <1>1, <1>14 DEF TimerFires, vars, cpuVars, ringVars
<1> QED
  BY <1>2, <1>3, <1>4, <1>5, <1>6, <1>7, <1>8, <1>9, <1>10, <1>11, <1>12,
     <1>13, <1>14 DEF Next, UserStep, DispatchStep

(***************************************************************************)
(* Records.                                                                *)
(***************************************************************************)
\* The elements of a tail, and of an extended sequence, in terms of the old ones.
LEMMA TailElements ==
  ASSUME NEW S, NEW s \in Seq(S), s # <<>>, NEW i \in DOMAIN Tail(s)
  PROVE  i + 1 \in DOMAIN s /\ Tail(s)[i] = s[i + 1]
<1>1. Len(s) \in Nat /\ DOMAIN s = 1 .. Len(s) /\ Len(s) # 0
  BY EmptySeq
<1> QED
  BY <1>1, HeadTailProperties

LEMMA AppendElements ==
  ASSUME NEW S, NEW s \in Seq(S), NEW x \in S, NEW u, u = Append(s, x)
  PROVE  \A i \in DOMAIN u : u[i] = x \/ (i \in DOMAIN s /\ u[i] = s[i])
BY AppendProperties

\* The generation counter of a task never goes back.
LEMMA CounterGrows ==
  ASSUME TypeOK, [Next]_vars, NEW t \in Tasks
  PROVE  enq_cnt'[t] >= enq_cnt[t]
<1>1. enq_cnt[t] \in Nat
  BY DEF TypeOK, TaskTypes
<1> QED
  BY <1>1, EveryTaskMoves DEF TaskMoves

LEMMA RecordStep == TypeOK /\ DrainInv /\ RecordInv /\ [Next]_vars => RecordInv'
<1> SUFFICES ASSUME TypeOK, DrainInv, RecordInv, [Next]_vars PROVE RecordInv'
  OBVIOUS
<1> USE DEF TypeOK
<1>a. queued \in Seq(Record) /\ dispatched \in Seq(Record) /\ batch \in SUBSET Record
  BY DEF RingTypes, UserTypes
<1> DEFINE Below(r) == r.enq_cnt <= enq_cnt'[r.pid]
<1>b. \A r \in Record : NotAhead(r) => Below(r)
  <2> TAKE r \in Record
  <2>1. r.pid \in Tasks /\ r.enq_cnt \in Nat
    BY DEF Record
  <2>2. enq_cnt[r.pid] \in Nat /\ enq_cnt'[r.pid] \in Nat
    BY <2>1, TypeStep DEF TaskTypes
  <2> QED
    BY <2>1, <2>2, CounterGrows DEF NotAhead
<1>c. /\ \A i \in DOMAIN queued : queued[i] \in Record /\ Below(queued[i])
      /\ \A r \in batch : r \in Record /\ Below(r)
      /\ \A i \in DOMAIN dispatched : dispatched[i] \in Record /\ Below(dispatched[i])
  <2>1. /\ \A i \in DOMAIN queued : queued[i] \in Record
        /\ \A i \in DOMAIN dispatched : dispatched[i] \in Record
    BY <1>a, ElementOfSeq
  <2> QED
    BY <1>a, <1>b, <2>1 DEF RecordInv
<1>d. ASSUME \A i \in DOMAIN queued' : Below(queued'[i]),
             \A r \in batch' : Below(r),
             \A i \in DOMAIN dispatched' : Below(dispatched'[i])
      PROVE  RecordInv'
  BY <1>d DEF RecordInv, NotAhead
<1> HIDE DEF Below
<1>1. ASSUME UNCHANGED <<queued, batch, dispatched>> PROVE RecordInv'
  BY <1>1, <1>c, <1>d
<1>2. ASSUME NEW t \in Tasks, Enqueue(t) PROVE RecordInv'
  <2>1. UNCHANGED <<batch, dispatched>>
    BY <1>2 DEF Enqueue, userVars
  <2>2. CASE UNCHANGED queued
    BY <1>1, <2>1, <2>2
  <2>3. CASE ~UNCHANGED queued
    <3>0. PICK c \in CPUs : QueueToUserspace(t, c)
      BY <1>2, <2>3, EnqueueCases DEF DirectDispatch, IgnoreEnqueue
    <3> DEFINE r == [pid |-> t, cpu |-> c, enq_cnt |-> enq_cnt[t] + 1]
    <3>1. /\ queued' = Append(queued, r)
          /\ enq_cnt' = [enq_cnt EXCEPT ![t] = @ + 1]
      BY <2>3, <3>0 DEF QueueToUserspace
    <3>2. r \in Record
      BY DEF Record, TaskTypes
    <3>3. enq_cnt'[t] = enq_cnt[t] + 1
      BY <3>1 DEF TaskTypes
    <3>4. Below(r)
      <4>1. r.pid = t /\ r.enq_cnt = enq_cnt[t] + 1 /\ enq_cnt[t] \in Nat
        BY DEF TaskTypes
      <4> HIDE DEF r
      <4> QED
        BY <3>3, <4>1 DEF Below
    <3> HIDE DEF r
    <3>5. \A i \in DOMAIN queued' :
            queued'[i] = r \/ (i \in DOMAIN queued /\ queued'[i] = queued[i])
      BY <1>a, <3>1, <3>2, AppendElements
    <3> QED
      BY <1>c, <1>d, <2>1, <3>4, <3>5
  <2> QED
    BY <2>2, <2>3
<1>3. ASSUME NEW c \in CPUs, DequeueTask(c) PROVE RecordInv'
  <2>1. /\ queued # <<>> /\ queued' = Tail(queued)
        /\ batch' = batch \union {Head(queued)} /\ UNCHANGED dispatched
    BY <1>3 DEF DequeueTask
  <2>2. 1 \in DOMAIN queued /\ Head(queued) = queued[1]
    BY <1>a, <2>1, EmptySeq, HeadTailProperties
  <2>3. \A i \in DOMAIN queued' : i + 1 \in DOMAIN queued /\ queued'[i] = queued[i + 1]
    BY <1>a, <2>1, TailElements
  <2> QED
    BY <1>c, <1>d, <2>1, <2>2, <2>3
<1>4. ASSUME NEW c \in CPUs, DispatchTask(c) PROVE RecordInv'
  <2>1. PICK r \in batch : /\ batch' = batch \ {r} /\ UNCHANGED queued
                           /\ \/ UNCHANGED dispatched
                              \/ dispatched' = Append(dispatched, r)
    BY <1>4 DEF DispatchTask
  <2>2. r \in Record /\ Below(r)
    BY <1>a, <1>c
  <2>3. \A i \in DOMAIN dispatched' :
          dispatched'[i] = r \/ (i \in DOMAIN dispatched /\ dispatched'[i] = dispatched[i])
    <3>1. CASE dispatched' = dispatched
      BY <3>1
    <3>2. CASE dispatched' = Append(dispatched, r)
      BY <1>a, <2>2, <3>2, AppendElements
    <3> QED
      BY <2>1, <3>1, <3>2
  <2> QED
    BY <1>c, <1>d, <2>1, <2>2, <2>3
<1>5. ASSUME NEW c \in CPUs, LookupTask(c) \/ CheckGeneration(c) PROVE RecordInv'
  <2>1. /\ dispatched # <<>> /\ UNCHANGED <<queued, batch>>
        /\ dispatched' = dispatched \/ dispatched' = Tail(dispatched)
    BY <1>5 DEF LookupTask, CheckGeneration, DrainInv, userVars
  <2>2. \A i \in DOMAIN dispatched' :
          \/ i \in DOMAIN dispatched /\ dispatched'[i] = dispatched[i]
          \/ i + 1 \in DOMAIN dispatched /\ dispatched'[i] = dispatched[i + 1]
    BY <1>a, <2>1, TailElements
  <2> QED
    BY <1>c, <1>d, <2>1, <2>2
<1>6. ASSUME NEW t \in Tasks,
             \/ SelectDirect(t) \/ SelectEnqueue(t) \/ RemoteWake(t)
             \/ ChangeMask(t) \/ Requeue(t) \/ MoveWaiting(t)
      PROVE  RecordInv'
  BY <1>1, <1>6 DEF SelectDirect, SelectEnqueue, RemoteWake, ChangeMask, Requeue,
     MoveWaiting, ringVars, userVars
<1>7. ASSUME NEW c \in CPUs,
             \/ DequeueDone(c) \/ NotifyComplete(c) \/ SliceEnds(c) \/ Block(c) \/ MoveRunning(c)
             \/ IdleWakes(c) \/ DrainEmpty(c) \/ ReleaseRing(c) \/ TestAffinity(c) \/ InsertVtime(c)
             \/ TestPending(c) \/ FinishDispatch(c) \/ DispatchAgain(c)
      PROVE  RecordInv'
  BY <1>1, <1>7 DEF DequeueDone, NotifyComplete, SliceEnds, Block, MoveRunning, IdleWakes,
     DrainEmpty, ReleaseRing, TestAffinity, InsertVtime, TestPending, FinishDispatch,
     DispatchAgain, ringVars, userVars
<1>8. ASSUME NEW c \in CPUs,
             RunScheduler(c) \/ RunTask(c) \/ KeepPrev(c) \/ GoIdle(c)
      PROVE  RecordInv'
  <2>1. PICK n : SwitchTo(c, n)
    BY <1>8 DEF RunScheduler, RunTask, KeepPrev, GoIdle
  <2> QED
    BY <1>1, <2>1 DEF SwitchTo, ringVars, userVars
<1>9. ASSUME TimerFires \/ UNCHANGED vars PROVE RecordInv'
  BY <1>1, <1>9 DEF TimerFires, vars, ringVars, userVars
<1> QED
  BY <1>2, <1>3, <1>4, <1>5, <1>6, <1>7, <1>8, <1>9 DEF Next, UserStep, DispatchStep

(***************************************************************************)
(* What a step can do to a dispatch buffer.                                *)
(***************************************************************************)
\* The newest insert of CPU c, between the insert and the generation test.
Untested(c, i) == pc[c] = "check" /\ i = Len(buf[c])

\* Entry i of the new buffer was already there.  If its generation test was
\* still to come and is now done, the record was not superseded.
Kept(c, i) ==
  \E j \in DOMAIN buf[c] :
    /\ buf'[c][i] = buf[c][j]
    /\ Untested(c, j) /\ ~Untested(c, i)' =>
         /\ UNCHANGED <<st, qseq, enq_cnt>>
         /\ ~Superseded(buf[c][j])

\* Entry i has just been inserted.
Inserted(c, i) ==
  LET e == buf'[c][i] IN
    /\ UNCHANGED <<st, qseq, enq_cnt>>
    /\ e \in Entry
    /\ NotAhead(e)
    /\ e.qseq = qseq[e.pid]
    /\ st[e.pid] \in Enqueueing => e.overlap
    /\ Untested(c, i)'

LEMMA SameBuffer ==
  ASSUME NEW c, buf'[c] = buf[c], pc[c] # "check" \/ pc'[c] = pc[c]
  PROVE  \A i \in DOMAIN buf'[c] : Kept(c, i)
BY DEF Kept, Untested

LEMMA EntryBuffer ==
  ASSUME TypeOK, NEW k \in CPUs, DispatchEntry(k), NEW c \in CPUs
  PROVE  \A i \in DOMAIN buf'[c] : Kept(c, i)
<1>1. buf' = [buf EXCEPT ![k] = <<>>] /\ DOMAIN buf = CPUs /\ DOMAIN pc = CPUs
  BY DEF DispatchEntry, TypeOK, CPUTypes
<1>2. \E x : pc' = [pc EXCEPT ![k] = x]
  BY DEF DispatchEntry
<1>3. CASE c = k
  <2>1. buf'[c] = <<>>
    BY <1>1, <1>3
  <2> QED
    BY <2>1
<1>4. CASE c # k
  BY <1>1, <1>2, <1>4, SameBuffer
<1> QED
  BY <1>3, <1>4

LEMMA InsertBuffer ==
  ASSUME TypeOK, DrainInv, RecordInv, NEW k \in CPUs, InsertVtime(k), NEW c \in CPUs
  PROVE  \A i \in DOMAIN buf'[c] : Kept(c, i) \/ Inserted(c, i)
<1> USE DEF TypeOK
<1> DEFINE r == Head(dispatched)
           e == [pid |-> r.pid, cpu |-> tgt[k], qseq |-> qseq[r.pid],
                 enq_cnt |-> r.enq_cnt, overlap |-> st[r.pid] \in Enqueueing]
<1>1. /\ buf \in [CPUs -> Seq(Entry)] /\ pc \in [CPUs -> Steps]
      /\ dispatched \in Seq(Record) /\ dispatched # <<>> /\ pc[k] = "insert"
      /\ pc' = [pc EXCEPT ![k] = "check"]
      /\ UNCHANGED <<st, qseq, enq_cnt>>
  BY DEF InsertVtime, CPUTypes, RingTypes, DrainInv, taskVars
<1>2. r \in Record /\ r = dispatched[1] /\ 1 \in DOMAIN dispatched
  BY <1>1, EmptySeq, HeadTailProperties
<1>3. r.pid \in Tasks /\ r.enq_cnt <= enq_cnt[r.pid]
  BY <1>2 DEF Record, RecordInv, NotAhead
<1>4. e \in Entry
  BY <1>2 DEF Record, Entry, TaskTypes, CPUTypes
<1>5. /\ NotAhead(e)
      /\ e.qseq = qseq[e.pid]
      /\ st[e.pid] \in Enqueueing => e.overlap
  BY <1>3 DEF NotAhead
<1>6. buf' = [buf EXCEPT ![k] = Append(buf[k], e)]
  BY DEF InsertVtime
<1> HIDE DEF e, r
<1>7. CASE c # k
  BY <1>1, <1>6, <1>7, SameBuffer
<1>8. CASE c = k
  <2>1. buf'[c] = Append(buf[c], e) /\ buf[c] \in Seq(Entry) /\ pc'[c] = "check"
    BY <1>1, <1>6, <1>8
  <2>2. Len(buf'[c]) = Len(buf[c]) + 1 /\ Len(buf[c]) \in Nat
        /\ DOMAIN buf[c] = 1 .. Len(buf[c]) /\ DOMAIN buf'[c] = 1 .. Len(buf[c]) + 1
        /\ buf'[c][Len(buf[c]) + 1] = e
        /\ \A i \in 1 .. Len(buf[c]) : buf'[c][i] = buf[c][i]
    BY <1>4, <2>1, AppendProperties
  <2>3. ASSUME NEW i \in DOMAIN buf'[c], i \in 1 .. Len(buf[c])
        PROVE  Kept(c, i)
    BY <1>1, <1>8, <2>2, <2>3 DEF Kept, Untested
  <2>4. ASSUME NEW i \in DOMAIN buf'[c], i = Len(buf[c]) + 1
        PROVE  Inserted(c, i)
    <3>1. buf'[c][i] = e
      BY <2>2, <2>4
    <3>2. Untested(c, i)'
      BY <2>1, <2>2, <2>4 DEF Untested
    <3> QED
      BY <1>1, <1>4, <1>5, <3>1, <3>2 DEF Inserted
  <2> QED
    BY <2>2, <2>3, <2>4
<1> QED
  BY <1>7, <1>8

LEMMA CheckBuffer ==
  ASSUME TypeOK, DrainInv, NEW k \in CPUs, CheckGeneration(k), NEW c \in CPUs
  PROVE  \A i \in DOMAIN buf'[c] : Kept(c, i)
<1> USE DEF TypeOK
<1> DEFINE r == Head(dispatched)
           b == IF Superseded(r) THEN Front(buf[k]) ELSE buf[k]
<1>1. /\ buf \in [CPUs -> Seq(Entry)] /\ pc \in [CPUs -> Steps]
      /\ pc[k] = "check" /\ buf[k] # <<>>
      /\ Last(buf[k]).pid = r.pid /\ Last(buf[k]).enq_cnt = r.enq_cnt
      /\ UNCHANGED <<st, qseq, enq_cnt>>
  BY DEF CheckGeneration, CPUTypes, DrainInv, taskVars
<1>2. buf' = [buf EXCEPT ![k] = b]
  BY DEF CheckGeneration
<1>3. CASE c # k
  <2>1. \E x : pc' = [pc EXCEPT ![k] = x]
    BY DEF CheckGeneration, StopDraining
  <2> QED
    BY <1>1, <1>2, <1>3, <2>1, SameBuffer
<1>4. CASE c = k /\ Superseded(r)
  <2>1. buf'[c] = Front(buf[c]) /\ buf[c] \in Seq(Entry)
    BY <1>1, <1>2, <1>4
  <2>2. /\ Len(buf[c]) \in Nat /\ DOMAIN buf[c] = 1 .. Len(buf[c])
        /\ DOMAIN buf'[c] = 1 .. Len(buf[c]) - 1
        /\ \A i \in 1 .. Len(buf[c]) - 1 : buf'[c][i] = buf[c][i]
    BY <1>1, <1>4, <2>1, FrontProperties
  <2> QED
    BY <2>2 DEF Kept, Untested
<1>5. CASE c = k /\ ~Superseded(r)
  <2>1. buf'[c] = buf[c]
    BY <1>1, <1>2, <1>5
  <2>2. ~Superseded(Last(buf[c]))
    BY <1>1, <1>5 DEF Superseded
  <2>3. \A i \in DOMAIN buf'[c] : Untested(c, i) => buf[c][i] = Last(buf[c])
    BY DEF Untested, Last
  <2> QED
    BY <1>1, <2>1, <2>2, <2>3 DEF Kept
<1> QED
  BY <1>3, <1>4, <1>5

LEMMA FinishBuffer ==
  ASSUME TypeOK, NEW k \in CPUs, FinishDispatch(k), NEW c \in CPUs
  PROVE  \A i \in DOMAIN buf'[c] : Kept(c, i)
<1>1. /\ buf \in [CPUs -> Seq(Entry)] /\ pc[k] = "flush" /\ UNCHANGED pc
      /\ buf[k] # <<>> /\ buf' = [buf EXCEPT ![k] = Tail(@)]
  BY DEF FinishDispatch, TypeOK, CPUTypes
<1>2. CASE c # k
  BY <1>1, <1>2, SameBuffer
<1>3. CASE c = k
  <2>1. buf'[c] = Tail(buf[c]) /\ buf[c] \in Seq(Entry) /\ buf[c] # <<>>
    BY <1>1, <1>3
  <2>2. \A i \in DOMAIN Tail(buf[c]) :
          i + 1 \in DOMAIN buf[c] /\ Tail(buf[c])[i] = buf[c][i + 1]
    BY <2>1, TailElements
  <2> QED
    BY <1>1, <1>3, <2>1, <2>2 DEF Kept, Untested
<1> QED
  BY <1>2, <1>3

\* Every entry of a buffer was kept or has just been inserted.
LEMMA BufferStep ==
  ASSUME TypeOK, DrainInv, RecordInv, [Next]_vars, NEW c \in CPUs
  PROVE  \A i \in DOMAIN buf'[c] : Kept(c, i) \/ Inserted(c, i)
<1> USE DEF TypeOK
<1>a. pc \in [CPUs -> Steps]
  BY DEF CPUTypes
<1>1. ASSUME UNCHANGED <<pc, buf>> PROVE \A i \in DOMAIN buf'[c] : Kept(c, i)
  BY <1>1, SameBuffer
<1>2. ASSUME NEW t \in Tasks,
             \/ SelectDirect(t) \/ SelectEnqueue(t) \/ RemoteWake(t)
             \/ ChangeMask(t) \/ Requeue(t) \/ MoveWaiting(t) \/ Enqueue(t)
      PROVE  \A i \in DOMAIN buf'[c] : Kept(c, i)
  BY <1>1, <1>2 DEF SelectDirect, SelectEnqueue, RemoteWake, ChangeMask, Requeue,
     MoveWaiting, Enqueue, cpuVars
<1>3. ASSUME NEW k \in CPUs, DequeueTask(k) \/ DequeueDone(k) \/ DispatchTask(k)
      PROVE  \A i \in DOMAIN buf'[c] : Kept(c, i)
  BY <1>1, <1>3 DEF DequeueTask, DequeueDone, DispatchTask, cpuVars
<1>4. ASSUME NEW k \in CPUs,
             \/ NotifyComplete(k) \/ SliceEnds(k) \/ Block(k) \/ MoveRunning(k) \/ IdleWakes(k)
             \/ DispatchAgain(k)
      PROVE  \A i \in DOMAIN buf'[c] : Kept(c, i)
  BY <1>4, EntryBuffer
    DEF NotifyComplete, SliceEnds, Block, MoveRunning, IdleWakes, DispatchAgain
<1>5. ASSUME NEW k \in CPUs, DrainEmpty(k) \/ ReleaseRing(k) \/ LookupTask(k) \/ TestAffinity(k) \/ TestPending(k)
      PROVE  \A i \in DOMAIN buf'[c] : Kept(c, i)
  <2>1. UNCHANGED buf /\ pc[k] # "check"
    BY <1>5 DEF DrainEmpty, ReleaseRing, LookupTask, TestAffinity, TestPending
  <2>2. pc' = pc \/ \E x : pc' = [pc EXCEPT ![k] = x]
    BY <1>5 DEF DrainEmpty, ReleaseRing, LookupTask, TestAffinity, TestPending, StopDraining
  <2>3. pc[c] # "check" \/ pc'[c] = pc[c]
    BY <1>a, <2>1, <2>2
  <2> QED
    BY <2>1, <2>3, SameBuffer
<1>6. ASSUME NEW k \in CPUs, InsertVtime(k)
      PROVE  \A i \in DOMAIN buf'[c] : Kept(c, i) \/ Inserted(c, i)
  BY <1>6, InsertBuffer
<1>7. ASSUME NEW k \in CPUs, CheckGeneration(k)
      PROVE  \A i \in DOMAIN buf'[c] : Kept(c, i)
  BY <1>7, CheckBuffer
<1>8. ASSUME NEW k \in CPUs, FinishDispatch(k)
      PROVE  \A i \in DOMAIN buf'[c] : Kept(c, i)
  BY <1>8, FinishBuffer
<1>9. ASSUME NEW k \in CPUs,
             RunScheduler(k) \/ RunTask(k) \/ KeepPrev(k) \/ GoIdle(k)
      PROVE  \A i \in DOMAIN buf'[c] : Kept(c, i)
  <2>1. pc[k] = "flush" /\ \E n : SwitchTo(k, n)
    BY <1>9 DEF RunScheduler, RunTask, KeepPrev, GoIdle, Picking
  <2>2. UNCHANGED buf /\ pc' = [pc EXCEPT ![k] = "run"]
    BY <2>1 DEF SwitchTo
  <2>3. pc[c] # "check" \/ pc'[c] = pc[c]
    BY <1>a, <2>1, <2>2
  <2> QED
    BY <2>2, <2>3, SameBuffer
<1>10. ASSUME TimerFires \/ UNCHANGED vars
       PROVE  \A i \in DOMAIN buf'[c] : Kept(c, i)
  BY <1>1, <1>10 DEF TimerFires, vars, cpuVars
<1> QED
  BY <1>2, <1>3, <1>4, <1>5, <1>6, <1>7, <1>8, <1>9, <1>10
     DEF Next, UserStep, DispatchStep

LEMMA BufferTypes ==
  ASSUME TypeOK, NEW c \in CPUs, NEW i \in DOMAIN buf[c]
  PROVE  buf[c][i] \in Entry
<1>1. buf[c] \in Seq(Entry)
  BY DEF TypeOK, CPUTypes
<1> QED
  BY <1>1, ElementOfSeq

LEMMA EntryStep ==
  TypeOK /\ DrainInv /\ RecordInv /\ EntryInv /\ [Next]_vars => EntryInv'
<1> SUFFICES ASSUME TypeOK, DrainInv, RecordInv, EntryInv, [Next]_vars,
                    NEW c \in CPUs, NEW i \in DOMAIN buf'[c], NEW e, e = buf'[c][i]
             PROVE  /\ e.enq_cnt <= enq_cnt'[e.pid]
                    /\ e.qseq <= qseq'[e.pid]
                    /\ e.qseq = qseq'[e.pid] /\ st'[e.pid] \in Enqueueing => e.overlap
  BY DEF EntryInv, NotAhead
<1>1. CASE Kept(c, i)
  <2>1. PICK j \in DOMAIN buf[c] : e = buf[c][j]
    BY <1>1 DEF Kept
  <2>2. e.pid \in Tasks /\ e.qseq \in Nat /\ e.enq_cnt \in Nat
    BY <2>1, BufferTypes DEF Entry
  <2>3. /\ e.enq_cnt <= enq_cnt[e.pid] /\ e.qseq <= qseq[e.pid]
        /\ e.qseq = qseq[e.pid] /\ st[e.pid] \in Enqueueing => e.overlap
    BY <2>1 DEF EntryInv, NotAhead
  <2>4. /\ enq_cnt[e.pid] \in Nat /\ enq_cnt'[e.pid] \in Nat
        /\ qseq[e.pid] \in Nat /\ qseq'[e.pid] \in Nat
    BY <2>2, TypeStep DEF TypeOK, TaskTypes
  <2>5. e.enq_cnt <= enq_cnt'[e.pid]
    BY <2>2, <2>3, <2>4, CounterGrows
  <2>6. TaskMoves(e.pid)
    BY <2>2, EveryTaskMoves
  <2>7. e.qseq <= qseq'[e.pid]
    BY <2>2, <2>3, <2>4, <2>6 DEF TaskMoves
  <2>8. e.qseq = qseq'[e.pid] /\ st'[e.pid] \in Enqueueing =>
          e.qseq = qseq[e.pid] /\ st[e.pid] \in Enqueueing
    BY <2>2, <2>3, <2>4, <2>6 DEF TaskMoves, Enqueueing
  <2> QED
    BY <2>3, <2>5, <2>7, <2>8
<1>2. CASE Inserted(c, i)
  <2>1. /\ UNCHANGED <<st, qseq, enq_cnt>> /\ e \in Entry /\ e.qseq = qseq[e.pid]
        /\ e.enq_cnt <= enq_cnt[e.pid]
        /\ st[e.pid] \in Enqueueing => e.overlap
    BY <1>2 DEF Inserted, NotAhead
  <2>2. qseq[e.pid] \in Nat
    BY <2>1 DEF Entry, TypeOK, TaskTypes
  <2> QED
    BY <2>1, <2>2
<1> QED
  BY <1>1, <1>2, BufferStep

\* An insert that passed its test stays current: a later enqueue of the task
\* changes the sequence number before it changes the counter.
LEMMA FreshStep ==
  /\ TypeOK /\ DrainInv /\ RecordInv /\ EntryInv /\ FreshClaims /\ [Next]_vars
  => FreshClaims'
<1> SUFFICES ASSUME TypeOK, DrainInv, RecordInv, EntryInv, FreshClaims, [Next]_vars,
                    NEW c \in CPUs, NEW i \in DOMAIN buf'[c], NEW e, e = buf'[c][i],
                    st'[e.pid] = "queued", qseq'[e.pid] = e.qseq, ~e.overlap,
                    ~Untested(c, i)'
             PROVE  e.enq_cnt = enq_cnt'[e.pid]
  BY DEF FreshClaims, Claims, Untested
<1>1. PICK j \in DOMAIN buf[c] :
        /\ e = buf[c][j]
        /\ Untested(c, j) => UNCHANGED <<st, qseq, enq_cnt>> /\ ~Superseded(e)
  BY BufferStep DEF Kept, Inserted
<1>2. e.pid \in Tasks /\ e.qseq \in Nat /\ e.enq_cnt \in Nat
  BY <1>1, BufferTypes DEF Entry
<1>3. /\ e.enq_cnt <= enq_cnt[e.pid] /\ e.qseq <= qseq[e.pid]
      /\ e.qseq = qseq[e.pid] /\ st[e.pid] \in Enqueueing => e.overlap
  BY <1>1 DEF EntryInv, NotAhead
<1>4. enq_cnt[e.pid] \in Nat /\ qseq[e.pid] \in Nat
  BY <1>2 DEF TypeOK, TaskTypes
<1>5. CASE Untested(c, j)
  BY <1>1, <1>2, <1>3, <1>4, <1>5 DEF Superseded
<1>6. CASE ~Untested(c, j)
  <2>1. /\ st'[e.pid] = st[e.pid] /\ qseq'[e.pid] = qseq[e.pid]
        /\ enq_cnt'[e.pid] = enq_cnt[e.pid]
    BY <1>2, <1>3, EveryTaskMoves DEF TaskMoves, Enqueueing
  <2>2. e.enq_cnt = enq_cnt[e.pid]
    BY <1>1, <1>6, <2>1 DEF FreshClaims, Claims, Untested
  <2> QED
    BY <2>1, <2>2
<1> QED
  BY <1>5, <1>6

(***************************************************************************)
(* Dispatch slots.                                                         *)
(***************************************************************************)
LEMMA SlotsStep == TypeOK /\ DrainInv /\ SlotsRespected /\ [Next]_vars => SlotsRespected'
<1> SUFFICES ASSUME TypeOK, DrainInv, SlotsRespected, [Next]_vars PROVE SlotsRespected'
  OBVIOUS
<1> USE DEF TypeOK
<1> DEFINE Fits(c) == /\ Len(buf[c]) <= Slots
                      /\ pc[c] \in {"drain", "test", "insert"} => Len(buf[c]) < Slots
<1>a. buf \in [CPUs -> Seq(Entry)] /\ pc \in [CPUs -> Steps] /\ Slots \in Nat /\ Slots > 0
  BY DEF CPUTypes
<1>b. \A c \in CPUs : Fits(c) /\ Len(buf[c]) \in Nat
  BY <1>a, EmptySeq DEF SlotsRespected
<1>1. ASSUME \A c \in CPUs :
               buf'[c] = buf[c] /\ (pc'[c] \in {"drain", "test", "insert"} =>
                                      pc[c] \in {"drain", "test", "insert"})
      PROVE  SlotsRespected'
  BY <1>b, <1>1 DEF SlotsRespected
<1>2. ASSUME UNCHANGED <<pc, buf>> PROVE SlotsRespected'
  BY <1>1, <1>2
<1>3. ASSUME NEW t \in Tasks,
             \/ SelectDirect(t) \/ SelectEnqueue(t) \/ RemoteWake(t)
             \/ ChangeMask(t) \/ Requeue(t) \/ MoveWaiting(t) \/ Enqueue(t)
      PROVE  SlotsRespected'
  BY <1>2, <1>3 DEF SelectDirect, SelectEnqueue, RemoteWake, ChangeMask, Requeue,
     MoveWaiting, Enqueue, cpuVars
<1>4. ASSUME NEW k \in CPUs, DequeueTask(k) \/ DequeueDone(k) \/ DispatchTask(k)
      PROVE  SlotsRespected'
  BY <1>2, <1>4 DEF DequeueTask, DequeueDone, DispatchTask, cpuVars
<1>5. ASSUME NEW k \in CPUs,
             \/ NotifyComplete(k) \/ SliceEnds(k) \/ Block(k) \/ MoveRunning(k) \/ IdleWakes(k)
             \/ DispatchAgain(k)
      PROVE  SlotsRespected'
  <2>1. DispatchEntry(k)
    BY <1>5 DEF NotifyComplete, SliceEnds, Block, MoveRunning, IdleWakes, DispatchAgain
  <2>2. buf' = [buf EXCEPT ![k] = <<>>] /\ \E x : pc' = [pc EXCEPT ![k] = x]
    BY <2>1 DEF DispatchEntry
  <2>3. \A c \in CPUs : \/ buf'[c] = <<>>
                        \/ buf'[c] = buf[c] /\ pc'[c] = pc[c]
    BY <1>a, <2>2
  <2>4. Len(<<>>) = 0
    BY EmptySeq
  <2> QED
    BY <1>a, <1>b, <2>3, <2>4 DEF SlotsRespected
<1>6. ASSUME NEW k \in CPUs, DrainEmpty(k) \/ ReleaseRing(k) \/ TestPending(k) PROVE SlotsRespected'
  <2>1. UNCHANGED buf /\ \E x \in {"empty", "pending", "flush"} : pc' = [pc EXCEPT ![k] = x]
    BY <1>6 DEF DrainEmpty, ReleaseRing, TestPending, StopDraining
  <2> QED
    BY <1>1, <1>a, <2>1
<1>7. ASSUME NEW k \in CPUs, LookupTask(k) \/ TestAffinity(k) PROVE SlotsRespected'
  <2>1. /\ UNCHANGED buf /\ pc[k] \in {"drain", "test"}
        /\ \/ pc' = pc
           \/ \E x \in {"test", "insert", "pending"} : pc' = [pc EXCEPT ![k] = x]
    BY <1>7 DEF LookupTask, TestAffinity, StopDraining
  <2> QED
    BY <1>1, <1>a, <2>1
<1>8. ASSUME NEW k \in CPUs, InsertVtime(k) PROVE SlotsRespected'
  <2>1. PICK e : buf' = [buf EXCEPT ![k] = Append(buf[k], e)]
    BY <1>8 DEF InsertVtime
  <2>2. pc[k] = "insert" /\ pc' = [pc EXCEPT ![k] = "check"]
    BY <1>8 DEF InsertVtime
  <2>3. Len(Append(buf[k], e)) = Len(buf[k]) + 1 /\ Len(buf[k]) < Slots
    BY <1>a, <1>b, <2>2
  <2>4. \A c \in CPUs : \/ c = k /\ buf'[c] = Append(buf[k], e) /\ pc'[c] = "check"
                        \/ buf'[c] = buf[c] /\ pc'[c] = pc[c]
    BY <1>a, <2>1, <2>2
  <2> QED
    BY <1>a, <1>b, <2>3, <2>4 DEF SlotsRespected
<1>9. ASSUME NEW k \in CPUs, CheckGeneration(k) PROVE SlotsRespected'
  <2>1. buf[k] # <<>> /\ pc[k] = "check"
    BY <1>9 DEF CheckGeneration, DrainInv
  <2>2. PICK b : /\ b \in {buf[k], Front(buf[k])}
                 /\ buf' = [buf EXCEPT ![k] = b]
                 /\ \/ pc' = [pc EXCEPT ![k] = "pending"]
                    \/ pc' = [pc EXCEPT ![k] = "drain"] /\ Len(b) # Slots
    BY <1>9 DEF CheckGeneration, NoSlotLeft, StopDraining
  <2>3. Len(b) \in Nat /\ Len(b) <= Slots
    BY <1>a, <1>b, <2>1, <2>2, FrontProperties
  <2>4. \A c \in CPUs : \/ buf'[c] = b /\ (pc'[c] = "pending" \/ Len(b) # Slots)
                        \/ buf'[c] = buf[c] /\ pc'[c] = pc[c]
    BY <1>a, <2>2
  <2> QED
    BY <1>a, <1>b, <2>3, <2>4 DEF SlotsRespected
<1>10. ASSUME NEW k \in CPUs, FinishDispatch(k) PROVE SlotsRespected'
  <2>1. /\ UNCHANGED pc /\ buf[k] # <<>> /\ buf' = [buf EXCEPT ![k] = Tail(buf[k])]
    BY <1>10 DEF FinishDispatch
  <2>2. Len(Tail(buf[k])) \in Nat /\ Len(Tail(buf[k])) < Len(buf[k])
    BY <1>a, <1>b, <2>1, HeadTailProperties, EmptySeq
  <2>3. \A c \in CPUs : \/ c = k /\ buf'[c] = Tail(buf[k])
                        \/ buf'[c] = buf[c]
    BY <1>a, <2>1
  <2> QED
    BY <1>a, <1>b, <2>1, <2>2, <2>3 DEF SlotsRespected
<1>11. ASSUME NEW k \in CPUs,
              RunScheduler(k) \/ RunTask(k) \/ KeepPrev(k) \/ GoIdle(k)
       PROVE  SlotsRespected'
  <2>1. PICK n : SwitchTo(k, n)
    BY <1>11 DEF RunScheduler, RunTask, KeepPrev, GoIdle
  <2>2. UNCHANGED buf /\ pc' = [pc EXCEPT ![k] = "run"]
    BY <2>1 DEF SwitchTo
  <2> QED
    BY <1>1, <1>a, <2>2
<1>12. ASSUME TimerFires \/ UNCHANGED vars PROVE SlotsRespected'
  BY <1>2, <1>12 DEF TimerFires, vars, cpuVars
<1> QED
  BY <1>3, <1>4, <1>5, <1>6, <1>7, <1>8, <1>9, <1>10, <1>11, <1>12
     DEF Next, UserStep, DispatchStep

(***************************************************************************)
(* The end of a drain.                                                     *)
(***************************************************************************)
\* A drain ends because the ring is empty or the slots are used up.
LEMMA DrainEnds ==
  ASSUME TypeOK, DrainInv, [Next]_vars, NEW c \in CPUs,
         pc[c] \in Looping, pc'[c] \notin Looping
  PROVE  dispatched' = <<>> \/ Len(buf'[c]) = Slots
<1>0. pc \in [CPUs -> Steps] /\ buf \in [CPUs -> Seq(Entry)]
  BY DEF TypeOK, CPUTypes
<1>1. ASSUME UNCHANGED pc PROVE FALSE
  BY <1>1
<1>2. ASSUME NEW k \in CPUs, pc[k] \notin Looping, \E x : pc' = [pc EXCEPT ![k] = x]
      PROVE  FALSE
  BY <1>0, <1>2
<1>3. ASSUME NEW t \in Tasks,
             \/ SelectDirect(t) \/ SelectEnqueue(t) \/ RemoteWake(t)
             \/ ChangeMask(t) \/ Requeue(t) \/ MoveWaiting(t) \/ Enqueue(t)
      PROVE  FALSE
  BY <1>1, <1>3 DEF SelectDirect, SelectEnqueue, RemoteWake, ChangeMask, Requeue,
     MoveWaiting, Enqueue, cpuVars
<1>4. ASSUME NEW k \in CPUs,
             DequeueTask(k) \/ DequeueDone(k) \/ DispatchTask(k) \/ FinishDispatch(k)
      PROVE  FALSE
  BY <1>1, <1>4 DEF DequeueTask, DequeueDone, DispatchTask, FinishDispatch, cpuVars
<1>5. ASSUME NEW k \in CPUs,
             \/ NotifyComplete(k) \/ SliceEnds(k) \/ Block(k) \/ MoveRunning(k)
             \/ IdleWakes(k) \/ DispatchAgain(k)
      PROVE  FALSE
  <2>1. DispatchEntry(k) /\ pc[k] \in {"run", "flush"}
    BY <1>5 DEF NotifyComplete, OnCPU, SliceEnds, Block, MoveRunning, IdleWakes,
                DispatchAgain, Picking
  <2> QED
    BY <1>2, <2>1 DEF DispatchEntry, Looping
<1>6. ASSUME NEW k \in CPUs,
             RunScheduler(k) \/ RunTask(k) \/ KeepPrev(k) \/ GoIdle(k)
      PROVE  FALSE
  <2>1. pc[k] = "flush" /\ \E n : SwitchTo(k, n)
    BY <1>6 DEF RunScheduler, RunTask, KeepPrev, GoIdle, Picking
  <2> QED
    BY <1>2, <2>1 DEF SwitchTo, Looping
<1>7. ASSUME NEW k \in CPUs, ReleaseRing(k) \/ TestPending(k) PROVE FALSE
  BY <1>2, <1>7 DEF ReleaseRing, StopDraining, TestPending, Looping
<1>8. ASSUME NEW k \in CPUs, TestAffinity(k) \/ InsertVtime(k) PROVE FALSE
  <2>1. \E x \in Looping : pc' = [pc EXCEPT ![k] = x]
    BY <1>8 DEF TestAffinity, InsertVtime, Looping
  <2> QED
    BY <1>0, <2>1
<1>9. ASSUME NEW k \in CPUs, DrainEmpty(k) PROVE dispatched' = <<>>
  BY <1>9 DEF DrainEmpty, ringVars
<1>10. ASSUME NEW k \in CPUs, CheckGeneration(k) PROVE Len(buf'[c]) = Slots
  <2>1. /\ \/ pc' = [pc EXCEPT ![k] = "drain"]
           \/ pc' = [pc EXCEPT ![k] = "pending"]
        /\ \E b : /\ buf' = [buf EXCEPT ![k] = b]
                  /\ NoSlotLeft(b) \/ pc' = [pc EXCEPT ![k] = "drain"]
    BY <1>10 DEF CheckGeneration, StopDraining
  <2>2. k = c
    BY <1>0, <2>1
  <2> QED
    BY <1>0, <2>1, <2>2 DEF NoSlotLeft, Looping
<1>11. ASSUME NEW k \in CPUs, LookupTask(k) PROVE Len(buf'[c]) = Slots
  <2>1. /\ UNCHANGED buf
        /\ \/ NoSlotLeft(buf[k]) /\ pc' = [pc EXCEPT ![k] = "pending"]
           \/ UNCHANGED pc
           \/ pc' = [pc EXCEPT ![k] = "test"]
    BY <1>11 DEF LookupTask, StopDraining
  <2> QED
    BY <1>0, <1>1, <2>1 DEF NoSlotLeft, Looping
<1>12. ASSUME TimerFires \/ UNCHANGED vars PROVE FALSE
  BY <1>1, <1>12 DEF TimerFires, cpuVars, vars
<1> QED
  BY <1>3, <1>4, <1>5, <1>6, <1>7, <1>8, <1>9, <1>10, <1>11, <1>12
     DEF Next, UserStep, DispatchStep

(***************************************************************************)
(* No task is forgotten.                                                   *)
(***************************************************************************)
LEMMA CurrentStep ==
  ASSUME TypeOK, DrainInv, RecordInv, EntryInv, CurrentInv, [Next]_vars
  PROVE  CurrentInv'
<1> SUFFICES ASSUME NEW c \in CPUs, NEW i \in DOMAIN buf'[c], NEW e, e = buf'[c][i],
                    st'[e.pid] = "queued", e.enq_cnt = enq_cnt'[e.pid],
                    ~MayBeIgnored(e.pid)'
             PROVE  e.qseq = qseq'[e.pid]
  BY DEF CurrentInv
<1>1. CASE Kept(c, i)
  <2>1. PICK j \in DOMAIN buf[c] : e = buf[c][j]
    BY <1>1 DEF Kept
  <2>2. e.pid \in Tasks /\ e.enq_cnt \in Nat /\ e.enq_cnt <= enq_cnt[e.pid]
    BY <2>1, BufferTypes DEF Entry, EntryInv, NotAhead
  <2>3. enq_cnt[e.pid] \in Nat
    BY <2>2 DEF TypeOK, TaskTypes
  <2>4. /\ st'[e.pid] = st[e.pid] /\ qseq'[e.pid] = qseq[e.pid]
        /\ enq_cnt'[e.pid] = enq_cnt[e.pid]
        /\ tcpu'[e.pid] = tcpu[e.pid] /\ allowed'[e.pid] = allowed[e.pid]
    BY <2>2, <2>3, EveryTaskMoves DEF TaskMoves, Enqueueing
  <2>5. ~MayBeIgnored(e.pid)
    BY <2>4 DEF MayBeIgnored, Pinned, Misplaced
  <2> QED
    BY <2>1, <2>4, <2>5 DEF CurrentInv
<1>2. CASE Inserted(c, i)
  BY <1>2 DEF Inserted
<1> QED
  BY <1>1, <1>2, BufferStep

\* A CPU that runs a task or idles after the step ran it before and touched no
\* buffer, or has an empty buffer.
LEMMA EmptyStep ==
  ASSUME TypeOK, EmptyInv, [Next]_vars
  PROVE  EmptyInv'
<1> SUFFICES ASSUME NEW c \in CPUs
             PROVE  \/ pc'[c] = pc[c] /\ buf'[c] = buf[c]
                    \/ pc'[c] # "run"
                    \/ buf'[c] = <<>>
  BY DEF EmptyInv
<1>a. pc \in [CPUs -> Steps] /\ buf \in [CPUs -> Seq(Entry)]
  BY DEF TypeOK, CPUTypes
<1>1. ASSUME NEW t \in Tasks,
             \/ SelectDirect(t) \/ SelectEnqueue(t) \/ RemoteWake(t)
             \/ ChangeMask(t) \/ Requeue(t) \/ MoveWaiting(t) \/ Enqueue(t)
      PROVE  UNCHANGED <<pc, buf>>
  BY <1>1 DEF SelectDirect, SelectEnqueue, RemoteWake, ChangeMask, Requeue,
     MoveWaiting, Enqueue, cpuVars
<1>2. ASSUME NEW k \in CPUs, DequeueTask(k) \/ DequeueDone(k) \/ DispatchTask(k)
      PROVE  UNCHANGED <<pc, buf>>
  BY <1>2 DEF DequeueTask, DequeueDone, DispatchTask, cpuVars
<1>3. ASSUME NEW k \in CPUs,
             \/ NotifyComplete(k) \/ SliceEnds(k) \/ Block(k) \/ MoveRunning(k) \/ IdleWakes(k)
             \/ DispatchAgain(k)
      PROVE  (pc'[c] = pc[c] /\ buf'[c] = buf[c]) \/ buf'[c] = <<>>
  <2>1. DispatchEntry(k)
    BY <1>3 DEF NotifyComplete, SliceEnds, Block, MoveRunning, IdleWakes, DispatchAgain
  <2>2. buf' = [buf EXCEPT ![k] = <<>>] /\ \E x : pc' = [pc EXCEPT ![k] = x]
    BY <2>1 DEF DispatchEntry
  <2> QED
    BY <1>a, <2>2
<1>4. ASSUME NEW k \in CPUs,
             \/ DrainEmpty(k) \/ ReleaseRing(k) \/ LookupTask(k) \/ TestAffinity(k) \/ InsertVtime(k)
             \/ CheckGeneration(k) \/ TestPending(k) \/ FinishDispatch(k)
      PROVE  (pc'[c] = pc[c] /\ buf'[c] = buf[c]) \/ pc'[c] # "run"
  <2>1. pc[k] # "run" /\ \E b : buf' = [buf EXCEPT ![k] = b]
    <3>1. CASE DrainEmpty(k) \/ ReleaseRing(k) \/ LookupTask(k) \/ TestAffinity(k) \/ TestPending(k)
      <4>1. buf' = [buf EXCEPT ![k] = buf[k]]
        BY <1>a, <3>1 DEF DrainEmpty, ReleaseRing, LookupTask, TestAffinity, TestPending
      <4> QED
        BY <3>1, <4>1 DEF DrainEmpty, ReleaseRing, LookupTask, TestAffinity, TestPending
    <3>2. CASE InsertVtime(k)
      BY <3>2 DEF InsertVtime
    <3>3. CASE CheckGeneration(k)
      BY <3>3 DEF CheckGeneration
    <3>4. CASE FinishDispatch(k)
      BY <3>4 DEF FinishDispatch
    <3> QED
      BY <1>4, <3>1, <3>2, <3>3, <3>4
  <2>2. pc' = pc \/ \E x \in {"test", "insert", "check", "drain", "empty", "pending", "flush"} :
                      pc' = [pc EXCEPT ![k] = x]
    BY <1>4 DEF DrainEmpty, ReleaseRing, LookupTask, TestAffinity, InsertVtime, CheckGeneration,
                TestPending, FinishDispatch, StopDraining
  <2>3. CASE c = k
    <3>1. CASE pc' = pc
      BY <2>1, <2>3, <3>1
    <3>2. CASE \E x \in {"test", "insert", "check", "drain", "empty", "pending", "flush"} :
                 pc' = [pc EXCEPT ![k] = x]
      BY <1>a, <2>3, <3>2
    <3> QED
      BY <2>2, <3>1, <3>2
  <2>4. CASE c # k
    BY <1>a, <2>1, <2>2, <2>4
  <2> QED
    BY <2>3, <2>4
<1>5. ASSUME NEW k \in CPUs,
             RunScheduler(k) \/ RunTask(k) \/ KeepPrev(k) \/ GoIdle(k)
      PROVE  (pc'[c] = pc[c] /\ buf'[c] = buf[c]) \/ buf'[c] = <<>>
  <2>1. buf[k] = <<>> /\ \E n : SwitchTo(k, n)
    BY <1>5 DEF RunScheduler, RunTask, KeepPrev, GoIdle, Picking
  <2>2. UNCHANGED buf /\ pc' = [pc EXCEPT ![k] = "run"]
    BY <2>1 DEF SwitchTo
  <2> QED
    BY <1>a, <2>1, <2>2
<1>6. ASSUME TimerFires \/ UNCHANGED vars PROVE UNCHANGED <<pc, buf>>
  BY <1>6 DEF TimerFires, vars, cpuVars
<1> QED
  BY <1>1, <1>2, <1>3, <1>4, <1>5, <1>6 DEF Next, UserStep, DispatchStep

\* A record of task t, or an insert, that is of its current enqueue.
Recorded(t) == \E r \in Underway : r.pid = t /\ r.enq_cnt = enq_cnt[t]

Buffered(t) ==
  \E c \in CPUs : \E i \in DOMAIN buf[c] :
    buf[c][i].pid = t /\ buf[c][i].enq_cnt = enq_cnt[t]

\* What the step does to the records and inserts of the current enqueue of t.
RecordsStay(t) ==
  \A r \in Underway : r.pid = t /\ r.enq_cnt = enq_cnt[t] => r \in Underway'

InsertsStay(t) ==
  \A c \in CPUs : \A i \in DOMAIN buf[c] :
    buf[c][i].pid = t /\ buf[c][i].enq_cnt = enq_cnt[t] =>
      \E j \in DOMAIN buf'[c] : buf'[c][j] = buf[c][i]

LEMMA StillHeld ==
  ASSUME TypeOK, HeldInv, [Next]_vars, NEW t \in Tasks, st'[t] = "queued",
         ~MayBeIgnored(t)', enq_cnt'[t] = enq_cnt[t], ~dispatch_errors,
         RecordsStay(t), InsertsStay(t)
  PROVE  Recorded(t)' \/ Buffered(t)'
<1>1. st[t] = "queued" /\ ~MayBeIgnored(t)
  <2>1. enq_cnt[t] \in Nat
    BY DEF TypeOK, TaskTypes
  <2>2. st[t] = "queued" /\ tcpu'[t] = tcpu[t] /\ allowed'[t] = allowed[t]
    BY <2>1, EveryTaskMoves DEF TaskMoves, Enqueueing
  <2> QED
    BY <2>2 DEF MayBeIgnored, Pinned, Misplaced
<1>2. CASE Recorded(t)
  BY <1>2 DEF Recorded, RecordsStay
<1>3. CASE Buffered(t)
  BY <1>3 DEF Buffered, InsertsStay
<1> QED
  BY <1>1, <1>2, <1>3 DEF HeldInv, Recorded, Buffered

\* The elements of the sequences the steps make.
LEMMA TailSet ==
  ASSUME NEW S, NEW s \in Seq(S), s # <<>>
  PROVE  ToSet(s) \subseteq ToSet(Tail(s)) \union {Head(s)}
<1>1. Len(s) \in Nat /\ DOMAIN s = 1 .. Len(s) /\ Len(s) # 0
  BY EmptySeq
<1>2. /\ Len(Tail(s)) = Len(s) - 1 /\ Tail(s) \in Seq(S) /\ Head(s) = s[1]
      /\ \A i \in 1 .. Len(s) - 1 : Tail(s)[i] = s[i + 1]
  BY HeadTailProperties
<1>3. DOMAIN Tail(s) = 1 .. Len(s) - 1
  BY <1>2
<1>4. ASSUME NEW i \in DOMAIN s, i # 1
      PROVE  s[i] \in ToSet(Tail(s))
  <2>1. i - 1 \in DOMAIN Tail(s) /\ Tail(s)[i - 1] = s[i]
    BY <1>1, <1>2, <1>3, <1>4
  <2> QED
    BY <2>1 DEF ToSet
<1>5. \A i \in DOMAIN s : s[i] \in ToSet(Tail(s)) \union {Head(s)}
  BY <1>2, <1>4
<1> QED
  BY <1>5 DEF ToSet

LEMMA AppendSet ==
  ASSUME NEW S, NEW s \in Seq(S), NEW x \in S
  PROVE  /\ \A i \in DOMAIN s : i \in DOMAIN Append(s, x) /\ Append(s, x)[i] = s[i]
         /\ ToSet(s) \subseteq ToSet(Append(s, x))
         /\ x \in ToSet(Append(s, x))
<1>1. /\ Len(s) \in Nat /\ DOMAIN s = 1 .. Len(s)
      /\ DOMAIN Append(s, x) = 1 .. Len(s) + 1
      /\ Append(s, x)[Len(s) + 1] = x
      /\ \A i \in 1 .. Len(s) : Append(s, x)[i] = s[i]
  BY AppendProperties
<1>2. \A i \in DOMAIN s : i \in DOMAIN Append(s, x) /\ Append(s, x)[i] = s[i]
  BY <1>1
<1>3. Len(s) + 1 \in DOMAIN Append(s, x)
  BY <1>1
<1> QED
  BY <1>1, <1>2, <1>3 DEF ToSet

LEMMA EnqueueHolds ==
  ASSUME TypeOK, HeldInv, [Next]_vars, NEW x \in Tasks, Enqueue(x), NEW t \in Tasks,
         st'[t] = "queued", ~dispatch_errors', ~MayBeIgnored(t)'
  PROVE  Recorded(t)' \/ Buffered(t)'
<1> USE DEF TypeOK
<1>1. /\ UNCHANGED <<batch, dispatched, dispatch_errors, buf>>
      /\ queued \in Seq(Record) /\ enq_cnt \in [Tasks -> Nat]
  BY DEF Enqueue, userVars, cpuVars, RingTypes, TaskTypes
<1>3. InsertsStay(t)
  BY <1>1 DEF InsertsStay
<1>4. CASE UNCHANGED <<queued, enq_cnt>>
  <2>1. RecordsStay(t)
    BY <1>1, <1>4 DEF RecordsStay, Underway
  <2> QED
    BY <1>1, <1>3, <1>4, <2>1, StillHeld
<1>5. CASE ~UNCHANGED <<queued, enq_cnt>>
  <2>0. PICK c \in CPUs : QueueToUserspace(x, c)
    BY <1>5, EnqueueCases DEF DirectDispatch, IgnoreEnqueue
  <2> DEFINE r == [pid |-> x, cpu |-> c, enq_cnt |-> enq_cnt[x] + 1]
  <2>1. queued' = Append(queued, r) /\ enq_cnt' = [enq_cnt EXCEPT ![x] = @ + 1]
    BY <1>5, <2>0 DEF QueueToUserspace
  <2>2. r \in Record /\ r.pid = x /\ r.enq_cnt = enq_cnt'[x]
    BY <1>1, <2>1 DEF Record
  <2> HIDE DEF r
  <2>3. ToSet(queued) \subseteq ToSet(queued') /\ r \in ToSet(queued')
    BY <1>1, <2>1, <2>2, AppendSet
  <2>4. Underway \subseteq Underway' /\ r \in Underway'
    BY <1>1, <2>3 DEF Underway
  <2>5. CASE t = x
    BY <2>2, <2>4, <2>5 DEF Recorded
  <2>6. CASE t # x
    <3>1. enq_cnt'[t] = enq_cnt[t]
      BY <1>1, <2>1, <2>6
    <3>2. RecordsStay(t)
      BY <2>4 DEF RecordsStay
    <3> QED
      BY <1>1, <1>3, <3>1, <3>2, StillHeld
  <2> QED
    BY <2>5, <2>6
<1> QED
  BY <1>4, <1>5

\* The record that leaves the ring has become an insert, or is not of the current
\* enqueue.
LEMMA CheckHolds ==
  ASSUME TypeOK, DrainInv, RecordInv, HeldInv, [Next]_vars, NEW k \in CPUs,
         CheckGeneration(k), NEW t \in Tasks, st'[t] = "queued", ~dispatch_errors', ~MayBeIgnored(t)'
  PROVE  Recorded(t)' \/ Buffered(t)'
<1> USE DEF TypeOK
<1> DEFINE r == Head(dispatched)
           b == IF Superseded(r) THEN Front(buf[k]) ELSE buf[k]
<1>1. /\ buf \in [CPUs -> Seq(Entry)] /\ dispatched \in Seq(Record)
      /\ dispatched # <<>> /\ buf[k] # <<>>
      /\ Last(buf[k]).pid = r.pid /\ Last(buf[k]).enq_cnt = r.enq_cnt
  BY DEF CheckGeneration, CPUTypes, RingTypes, DrainInv
<1>2. /\ UNCHANGED <<enq_cnt, queued, batch, dispatch_errors>>
      /\ dispatched' = Tail(dispatched) /\ buf' = [buf EXCEPT ![k] = b]
  BY DEF CheckGeneration, taskVars, userVars
<1>3. Underway \subseteq Underway' \union {r}
  <2>1. ToSet(dispatched) \subseteq ToSet(dispatched') \union {r}
    BY <1>1, <1>2, TailSet
  <2> QED
    BY <1>2, <2>1 DEF Underway
<1>4. Len(buf[k]) \in DOMAIN buf[k] /\ Last(buf[k]) = buf[k][Len(buf[k])]
  BY <1>1, EmptySeq DEF Last
<1> HIDE DEF r
<1>5. CASE Superseded(r)
  <2>1. enq_cnt[r.pid] # r.enq_cnt
    <3>1. r \in Record
      BY <1>1, HeadTailProperties DEF r
    <3>2. r.enq_cnt \in Nat /\ enq_cnt[r.pid] \in Nat
      BY <3>1 DEF Record, TaskTypes
    <3> QED
      BY <1>5, <3>2 DEF Superseded
  <2>2. RecordsStay(t)
    BY <1>3, <2>1 DEF RecordsStay
  <2>3. buf' = [buf EXCEPT ![k] = Front(buf[k])]
    BY <1>2, <1>5
  <2>4. InsertsStay(t)
    <3> SUFFICES ASSUME NEW c \in CPUs, NEW i \in DOMAIN buf[c],
                        buf[c][i].pid = t, buf[c][i].enq_cnt = enq_cnt[t]
                 PROVE  \E j \in DOMAIN buf'[c] : buf'[c][j] = buf[c][i]
      BY DEF InsertsStay
    <3>1. CASE c = k
      <4>1. i # Len(buf[c])
        BY <1>1, <1>4, <2>1, <3>1
      <4>2. /\ Len(buf[c]) \in Nat /\ DOMAIN buf[c] = 1 .. Len(buf[c])
            /\ buf'[c] = Front(buf[c])
        BY <1>1, <2>3, <3>1
      <4>3. /\ DOMAIN Front(buf[c]) = 1 .. Len(buf[c]) - 1
            /\ \A j \in 1 .. Len(buf[c]) - 1 : Front(buf[c])[j] = buf[c][j]
        BY <1>1, <3>1, FrontProperties
      <4> QED
        BY <4>1, <4>2, <4>3
    <3>2. CASE c # k
      BY <1>1, <2>3, <3>2
    <3> QED
      BY <3>1, <3>2
  <2> QED
    BY <1>2, <2>2, <2>4, StillHeld
<1>6. CASE ~Superseded(r)
  <2>1. UNCHANGED buf
    BY <1>1, <1>2, <1>6
  <2>2. CASE r.pid = t /\ r.enq_cnt = enq_cnt[t]
    BY <1>1, <1>2, <1>4, <2>1, <2>2 DEF Buffered
  <2>3. CASE ~(r.pid = t /\ r.enq_cnt = enq_cnt[t])
    <3>1. RecordsStay(t) /\ InsertsStay(t)
      BY <1>3, <2>1, <2>3 DEF RecordsStay, InsertsStay
    <3> QED
      BY <1>2, <3>1, StillHeld
  <2> QED
    BY <2>2, <2>3
<1> QED
  BY <1>5, <1>6


\* The core drops only inserts that are not of the current enqueue.
LEMMA FinishHolds ==
  ASSUME TypeOK, HeldInv, CurrentInv, [Next]_vars, NEW k \in CPUs, FinishDispatch(k),
         NEW t \in Tasks, st'[t] = "queued", ~dispatch_errors', ~MayBeIgnored(t)'
  PROVE  Recorded(t)' \/ Buffered(t)'
<1> USE DEF TypeOK
<1> DEFINE e == Head(buf[k])
<1>1. /\ buf \in [CPUs -> Seq(Entry)] /\ buf[k] # <<>> /\ st \in [Tasks -> States]
      /\ UNCHANGED <<qseq, enq_cnt, queued, batch, dispatched, dispatch_errors>>
      /\ buf' = [buf EXCEPT ![k] = Tail(buf[k])]
      /\ IF Claims(e) THEN st' = [st EXCEPT ![e.pid] = "dsq"] ELSE UNCHANGED st
  BY DEF FinishDispatch, CPUTypes, TaskTypes, ringVars, userVars
<1>2. RecordsStay(t)
  BY <1>1 DEF RecordsStay, Underway
<1>3. ~(e.pid = t /\ e.enq_cnt = enq_cnt[t])
  <2> SUFFICES ASSUME e.pid = t, e.enq_cnt = enq_cnt[t] PROVE FALSE
    OBVIOUS
  <2>1. 1 \in DOMAIN buf[k] /\ e = buf[k][1]
    BY <1>1, EmptySeq, HeadTailProperties
  <2>2. CASE Claims(e)
    BY <1>1, <2>2
  <2>3. CASE ~Claims(e)
    <3>1. st[e.pid] = "queued"
      BY <1>1, <2>3
    <3>2. ~MayBeIgnored(e.pid)
      BY DEF FinishDispatch, MayBeIgnored, Pinned, Misplaced
    <3> QED
      BY <2>1, <2>3, <3>1, <3>2 DEF CurrentInv, Claims
  <2> QED
    BY <2>2, <2>3
<1>4. InsertsStay(t)
  <2> SUFFICES ASSUME NEW c \in CPUs, NEW i \in DOMAIN buf[c],
                      buf[c][i].pid = t, buf[c][i].enq_cnt = enq_cnt[t]
               PROVE  \E j \in DOMAIN buf'[c] : buf'[c][j] = buf[c][i]
    BY DEF InsertsStay
  <2>1. CASE c = k
    <3>1. /\ Len(buf[c]) \in Nat /\ DOMAIN buf[c] = 1 .. Len(buf[c])
          /\ buf'[c] = Tail(buf[c])
      BY <1>1, <2>1
    <3>2. /\ DOMAIN Tail(buf[c]) = 1 .. Len(buf[c]) - 1 /\ Head(buf[c]) = buf[c][1]
          /\ \A j \in 1 .. Len(buf[c]) - 1 : Tail(buf[c])[j] = buf[c][j + 1]
      BY <1>1, <2>1, HeadTailProperties
    <3>3. i # 1
      BY <1>3, <2>1, <3>2
    <3>4. i - 1 \in 1 .. Len(buf[c]) - 1 /\ i - 1 + 1 = i
      BY <3>1, <3>3
    <3> QED
      BY <3>1, <3>2, <3>4
  <2>2. CASE c # k
    BY <1>1, <2>2
  <2> QED
    BY <2>1, <2>2
<1> QED
  BY <1>1, <1>2, <1>4, StillHeld

LEMMA HeldStep ==
  ASSUME TypeOK, DrainInv, RecordInv, CurrentInv, EmptyInv, HeldInv, [Next]_vars
  PROVE  HeldInv'
<1> SUFFICES ASSUME NEW t \in Tasks, st'[t] = "queued", ~dispatch_errors', ~MayBeIgnored(t)'
             PROVE  Recorded(t)' \/ Buffered(t)'
  BY DEF HeldInv, Recorded, Buffered
<1> USE DEF TypeOK
<1>a. /\ pc \in [CPUs -> Steps] /\ buf \in [CPUs -> Seq(Entry)]
      /\ queued \in Seq(Record) /\ dispatched \in Seq(Record) /\ batch \in SUBSET Record
  BY DEF CPUTypes, RingTypes, UserTypes
<1>b. ASSUME UNCHANGED <<queued, batch, dispatched>> PROVE RecordsStay(t)
  BY <1>b DEF RecordsStay, Underway
<1>c. ASSUME UNCHANGED buf PROVE InsertsStay(t)
  BY <1>c DEF InsertsStay
<1>1. ASSUME NEW x \in Tasks,
             \/ SelectDirect(x) \/ SelectEnqueue(x) \/ RemoteWake(x)
             \/ ChangeMask(x) \/ Requeue(x) \/ MoveWaiting(x)
      PROVE  Recorded(t)' \/ Buffered(t)'
  <2>1. UNCHANGED <<queued, batch, dispatched, buf, enq_cnt, dispatch_errors>>
    BY <1>1 DEF SelectDirect, SelectEnqueue, RemoteWake, ChangeMask, Requeue,
     MoveWaiting, Move, ringVars, userVars, cpuVars
  <2> QED
    BY <1>b, <1>c, <2>1, StillHeld
<1>2. ASSUME NEW x \in Tasks, Enqueue(x) PROVE Recorded(t)' \/ Buffered(t)'
  BY <1>2, EnqueueHolds
<1>3. ASSUME NEW k \in CPUs, DequeueTask(k) PROVE Recorded(t)' \/ Buffered(t)'
  <2>1. /\ queued # <<>> /\ queued' = Tail(queued)
        /\ batch' = batch \union {Head(queued)}
        /\ UNCHANGED <<dispatched, buf, enq_cnt, dispatch_errors>>
    BY <1>3 DEF DequeueTask, taskVars, cpuVars
  <2>2. ToSet(queued) \subseteq ToSet(Tail(queued)) \union {Head(queued)}
    BY <1>a, <2>1, TailSet
  <2>3. RecordsStay(t)
    BY <2>1, <2>2 DEF RecordsStay, Underway
  <2> QED
    BY <1>c, <2>1, <2>3, StillHeld
<1>4. ASSUME NEW k \in CPUs, DispatchTask(k) PROVE Recorded(t)' \/ Buffered(t)'
  <2>1. PICK r \in batch : /\ batch' = batch \ {r}
                           /\ IF Len(dispatched) < DispatchedCap
                              THEN /\ dispatched' = Append(dispatched, r)
                                   /\ UNCHANGED dispatch_errors
                              ELSE /\ dispatch_errors' = TRUE
                                   /\ UNCHANGED dispatched
    BY <1>4 DEF DispatchTask
  <2>2. dispatched' = Append(dispatched, r) /\ ~dispatch_errors
    BY <2>1
  <2>3. UNCHANGED <<queued, buf, enq_cnt>>
    BY <1>4 DEF DispatchTask, taskVars, cpuVars
  <2>4. ToSet(dispatched) \subseteq ToSet(dispatched') /\ r \in ToSet(dispatched')
    BY <1>a, <2>2, AppendSet
  <2>5. RecordsStay(t)
    BY <2>1, <2>3, <2>4 DEF RecordsStay, Underway
  <2> QED
    BY <1>c, <2>2, <2>3, <2>5, StillHeld
<1>5. ASSUME NEW k \in CPUs,
             \/ NotifyComplete(k) \/ SliceEnds(k) \/ Block(k) \/ MoveRunning(k) \/ IdleWakes(k)
             \/ DispatchAgain(k)
      PROVE  Recorded(t)' \/ Buffered(t)'
  <2>1. buf[k] = <<>> /\ DispatchEntry(k)
    BY <1>5 DEF NotifyComplete, OnCPU, SliceEnds, Block, MoveRunning, IdleWakes, DispatchAgain,
                Picking, EmptyInv
  <2>2. buf' = buf
    BY <1>a, <2>1 DEF DispatchEntry
  <2>3. UNCHANGED <<queued, batch, dispatched, enq_cnt, dispatch_errors>>
    BY <1>5 DEF NotifyComplete, SliceEnds, Block, MoveRunning, Move, IdleWakes, DispatchAgain,
                taskVars, ringVars, userVars
  <2> QED
    BY <1>b, <1>c, <2>2, <2>3, StillHeld
<1>6. ASSUME NEW k \in CPUs,
             DequeueDone(k) \/ DrainEmpty(k) \/ ReleaseRing(k) \/ TestAffinity(k) \/ TestPending(k)
      PROVE  Recorded(t)' \/ Buffered(t)'
  <2>1. UNCHANGED <<queued, batch, dispatched, buf, enq_cnt, dispatch_errors>>
    BY <1>6 DEF DequeueDone, DrainEmpty, ReleaseRing, TestAffinity, TestPending, taskVars,
       ringVars,
                userVars, cpuVars
  <2> QED
    BY <1>b, <1>c, <2>1, StillHeld
<1>7. ASSUME NEW k \in CPUs, LookupTask(k) PROVE Recorded(t)' \/ Buffered(t)'
  <2>1. /\ UNCHANGED <<st, queued, batch, buf, enq_cnt, dispatch_errors>>
        /\ dispatched # <<>>
        /\ \/ UNCHANGED dispatched
           \/ st[Head(dispatched).pid] = "gone" /\ dispatched' = Tail(dispatched)
    BY <1>7 DEF LookupTask, taskVars, userVars
  <2>2. ToSet(dispatched) \subseteq ToSet(Tail(dispatched)) \union {Head(dispatched)}
    BY <1>a, <2>1, TailSet
  <2>3. RecordsStay(t)
    BY <2>1, <2>2 DEF RecordsStay, Underway
  <2> QED
    BY <1>c, <2>1, <2>3, StillHeld
<1>8. ASSUME NEW k \in CPUs, InsertVtime(k) PROVE Recorded(t)' \/ Buffered(t)'
  <2>1. PICK e : buf' = [buf EXCEPT ![k] = Append(buf[k], e)]
    BY <1>8 DEF InsertVtime
  <2>2. UNCHANGED <<queued, batch, dispatched, enq_cnt, dispatch_errors>>
    BY <1>8 DEF InsertVtime, taskVars, ringVars, userVars
  <2>3. ASSUME NEW c \in CPUs, NEW i \in DOMAIN buf[c]
        PROVE  i \in DOMAIN buf'[c] /\ buf'[c][i] = buf[c][i]
    BY <1>a, <2>1, AppendProperties
  <2>4. InsertsStay(t)
    BY <2>3 DEF InsertsStay
  <2> QED
    BY <1>b, <2>2, <2>4, StillHeld
<1>9. ASSUME NEW k \in CPUs, CheckGeneration(k) PROVE Recorded(t)' \/ Buffered(t)'
  BY <1>9, CheckHolds
<1>10. ASSUME NEW k \in CPUs, FinishDispatch(k) PROVE Recorded(t)' \/ Buffered(t)'
  BY <1>10, FinishHolds
<1>11. ASSUME NEW k \in CPUs,
              RunScheduler(k) \/ RunTask(k) \/ KeepPrev(k) \/ GoIdle(k)
       PROVE  Recorded(t)' \/ Buffered(t)'
  <2>1. PICK n : SwitchTo(k, n)
    BY <1>11 DEF RunScheduler, RunTask, KeepPrev, GoIdle
  <2>2. UNCHANGED <<queued, batch, dispatched, buf, enq_cnt, dispatch_errors>>
    BY <2>1 DEF SwitchTo, ringVars, userVars
  <2> QED
    BY <1>b, <1>c, <2>2, StillHeld
<1>12. ASSUME TimerFires \/ UNCHANGED vars PROVE Recorded(t)' \/ Buffered(t)'
  <2>1. UNCHANGED <<queued, batch, dispatched, buf, enq_cnt, dispatch_errors>>
    BY <1>12 DEF TimerFires, vars, taskVars, ringVars, userVars, cpuVars
  <2> QED
    BY <1>b, <1>c, <2>1, StillHeld
<1> QED
  BY <1>1, <1>2, <1>3, <1>4, <1>5, <1>6, <1>7, <1>8, <1>9, <1>10, <1>11, <1>12
     DEF Next, UserStep, DispatchStep

(***************************************************************************)
(* The theorems.                                                           *)
(***************************************************************************)
LEMMA InvInit == Init => IInv
<1> SUFFICES ASSUME Init PROVE IInv
  OBVIOUS
<1>1. TypeOK
  BY TypeInit
<1>2. /\ queued = <<>> /\ dispatched = <<>> /\ batch = {} /\ drainer = Nobody
      /\ \A c \in CPUs : pc[c] = "run" /\ buf[c] = <<>>
  BY DEF Init
<1>3. DrainInv
  BY <1>2 DEF DrainInv, Draining, Looping
<1>4. RecordInv
  BY <1>2 DEF RecordInv
<1>5. EntryInv /\ FreshClaims
  BY <1>2 DEF EntryInv, FreshClaims
<1>6. Len(<<>>) = 0
  BY EmptySeq
<1>7. SlotsRespected
  BY <1>2, <1>6 DEF SlotsRespected
<1>8. CurrentInv /\ EmptyInv
  BY <1>2 DEF CurrentInv, EmptyInv
<1>9. HeldInv
  BY DEF Init, HeldInv
<1> QED
  BY <1>1, <1>3, <1>4, <1>5, <1>7, <1>8, <1>9 DEF IInv

LEMMA InvStep == IInv /\ [Next]_vars => IInv'
BY TypeStep, DrainStep, RecordStep, EntryStep, CurrentStep, EmptyStep, HeldStep,
   FreshStep, SlotsStep DEF IInv

\* The inductive invariant holds in every behaviour of the data path, for every
\* number of tasks, CPUs and records and every size of the rings.
THEOREM InductiveInvariant == Spec => []IInv
BY InvInit, InvStep, PTL DEF Spec

\* Every variable of the data path keeps its type (main.bpf.c, bpf.rs, main.rs).
THEOREM TypeCorrect == Spec => []TypeOK
<1>1. IInv => TypeOK
  BY DEF IInv
<1> QED
  BY <1>1, InductiveInvariant, PTL

\* The generation test of dispatch_task and the core's sequence number together
\* stop every record of an earlier enqueue, except in the enqueue window.
THEOREM StaleRecordsStopped == Spec => []FreshClaims
<1>1. IInv => FreshClaims
  BY DEF IInv
<1> QED
  BY <1>1, InductiveInvariant, PTL

\* Whatever drains, cancelled inserts and new enqueues overlap, a task the core has
\* given to the BPF side has a record or an insert of its current enqueue, unless
\* main.rs dropped one because the dispatched ring was full, or the core is about
\* to move the task, as ops.enqueue expects of one it ignores.
THEOREM TasksRemembered == Spec => []NoTaskForgotten
<1>1. IInv => NoTaskForgotten
  <2> SUFFICES ASSUME IInv, NEW t \in Tasks, st[t] = "queued", ~dispatch_errors,
                      ~MayBeIgnored(t), ~\E r \in Underway : r.pid = t /\ r.enq_cnt = enq_cnt[t]
               PROVE  \E c \in CPUs : \E i \in DOMAIN buf[c] :
                        buf[c][i].pid = t /\ Claims(buf[c][i])
    BY DEF NoTaskForgotten
  <2>1. PICK c \in CPUs : \E i \in DOMAIN buf[c] :
          buf[c][i].pid = t /\ buf[c][i].enq_cnt = enq_cnt[t]
    BY DEF IInv, HeldInv
  <2>2. PICK i \in DOMAIN buf[c] : buf[c][i].pid = t /\ buf[c][i].enq_cnt = enq_cnt[t]
    BY <2>1
  <2>3. buf[c][i].qseq = qseq[t]
    BY <2>2 DEF IInv, CurrentInv
  <2> QED
    BY <2>2, <2>3 DEF Claims
<1> QED
  BY <1>1, InductiveInvariant, PTL

\* handle_dispatched_task never lets a drain buffer more than dispatch_max_batch.
THEOREM BatchBounded == Spec => []SlotsRespected
<1>1. IInv => SlotsRespected
  BY DEF IInv
<1> QED
  BY <1>1, InductiveInvariant, PTL

\* handle_dispatched_task never ends a drain that has records and slots left.
THEOREM DrainsUntilFull == Spec => DrainUntilFull
<1>1. IInv /\ [Next]_vars =>
        [\A c \in CPUs :
           pc[c] \in Looping /\ pc'[c] \notin Looping
             => dispatched' = <<>> \/ Len(buf'[c]) = Slots]_vars
  BY DrainEnds DEF IInv
<1> QED
  BY <1>1, InductiveInvariant, PTL DEF Spec, DrainUntilFull
====
