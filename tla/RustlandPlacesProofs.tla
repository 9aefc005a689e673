------------------------ MODULE RustlandPlacesProofs ------------------------
(* Proofs, for every value of the constants, about where the tasks of         *)
(* RustlandDispatch wait and run: the affinity of the queues they are put on, *)
(* and the kicks that wake the CPUs of those queues.                          *)
EXTENDS RustlandDispatchProofs

USE DispatchAssumption

(***************************************************************************)
(* What leaves a queue, and what joins one.                                *)
(***************************************************************************)
\* Removing position k keeps the order and the identity of the others.
LEMMA RemoveAtElements ==
  ASSUME NEW S, NEW s \in Seq(S), NEW k \in DOMAIN s, NEW u, u = RemoveAt(s, k)
  PROVE  /\ DOMAIN u = 1 .. Len(s) - 1
         /\ \A i \in 1 .. Len(s) - 1 : u[i] = IF i < k THEN s[i] ELSE s[i + 1]
<1>1. /\ Len(s) \in Nat /\ DOMAIN s = 1 .. Len(s) /\ k \in 1 .. Len(s)
      /\ \A j \in 1 .. Len(s) : s[j] \in S
  BY ElementOfSeq
<1> DEFINE a == SubSeq(s, 1, k - 1)
           b == SubSeq(s, k + 1, Len(s))
<1>2. a \in Seq(S) /\ Len(a) = k - 1 /\ \A i \in 1 .. k - 1 : a[i] = s[i]
  BY <1>1, SubSeqProperties
<1>3. /\ b \in Seq(S) /\ Len(b) = Len(s) - k
      /\ \A i \in 1 .. Len(s) - k : b[i] = s[k + i]
  BY <1>1, SubSeqProperties
<1>4. u = a \o b
  BY DEF RemoveAt
<1> HIDE DEF a, b
<1>5. /\ u \in Seq(S) /\ Len(u) = Len(a) + Len(b)
      /\ \A i \in 1 .. Len(a) + Len(b) : u[i] = IF i <= Len(a) THEN a[i] ELSE b[i - Len(a)]
  BY <1>2, <1>3, <1>4, ConcatProperties
<1>6. ASSUME NEW i \in 1 .. Len(s) - 1, i < k PROVE u[i] = s[i]
  <2>1. i \in 1 .. Len(a) + Len(b) /\ i <= Len(a) /\ i \in 1 .. k - 1
    BY <1>1, <1>2, <1>3, <1>6
  <2> QED
    BY <1>2, <1>5, <2>1
<1>7. ASSUME NEW i \in 1 .. Len(s) - 1, ~(i < k) PROVE u[i] = s[i + 1]
  <2>1. /\ i \in 1 .. Len(a) + Len(b) /\ ~(i <= Len(a))
        /\ i - Len(a) \in 1 .. Len(s) - k /\ k + (i - Len(a)) = i + 1
    BY <1>1, <1>2, <1>3, <1>7
  <2> QED
    BY <1>3, <1>5, <2>1
<1>8. DOMAIN u = 1 .. Len(s) - 1
  BY <1>1, <1>2, <1>3, <1>5
<1> QED
  BY <1>6, <1>7, <1>8

\* Task t has left the queue it was in, if any.
Left(t) ==
  \A d \in Queues :
    \/ dsq'[d] = dsq[d] /\ \A i \in DOMAIN dsq[d] : dsq[d][i] # t
    \/ \E k \in DOMAIN dsq[d] : dsq[d][k] = t /\ dsq'[d] = RemoveAt(dsq[d], k)

LEMMA LeaveLeft ==
  ASSUME QueueTypes, NEW t \in Tasks, dsq' = Leave(t)
  PROVE  Left(t)
<1> SUFFICES ASSUME NEW d \in Queues
             PROVE  \/ dsq'[d] = dsq[d] /\ \A i \in DOMAIN dsq[d] : dsq[d][i] # t
                    \/ \E k \in DOMAIN dsq[d] : dsq[d][k] = t /\ dsq'[d] = RemoveAt(dsq[d], k)
  BY DEF Left
<1>1. CASE \E i \in DOMAIN dsq[d] : dsq[d][i] = t
  <2> DEFINE k == CHOOSE i \in DOMAIN dsq[d] : dsq[d][i] = t
  <2>1. k \in DOMAIN dsq[d] /\ dsq[d][k] = t
    BY <1>1
  <2>2. dsq'[d] = RemoveAt(dsq[d], k)
    BY <1>1 DEF Leave
  <2> HIDE DEF k
  <2> QED
    BY <2>1, <2>2
<1>2. CASE ~\E i \in DOMAIN dsq[d] : dsq[d][i] = t
  BY <1>2 DEF Leave
<1> QED
  BY <1>1, <1>2

\* What is left of the queues: every element was there before, at a position of
\* its own, and is not the task that left.
LEMMA LeftElements ==
  ASSUME TypeOK, WaitsOnce, NEW t \in Tasks, Left(t), NEW d \in Queues
  PROVE  \E at \in [DOMAIN dsq'[d] -> DOMAIN dsq[d]] :
           \A i \in DOMAIN dsq'[d] :
             /\ dsq'[d][i] = dsq[d][at[i]] /\ dsq'[d][i] # t
             /\ \A j \in DOMAIN dsq'[d] : at[i] = at[j] => i = j
<1>1. dsq[d] \in Seq(Tasks)
  BY DEF TypeOK, QueueTypes
<1>2. CASE dsq'[d] = dsq[d] /\ \A i \in DOMAIN dsq[d] : dsq[d][i] # t
  <2> DEFINE at == [i \in DOMAIN dsq'[d] |-> i]
  <2>1. at \in [DOMAIN dsq'[d] -> DOMAIN dsq[d]]
    BY <1>2
  <2>2. \A i \in DOMAIN dsq'[d] :
          /\ dsq'[d][i] = dsq[d][at[i]] /\ dsq'[d][i] # t
          /\ \A j \in DOMAIN dsq'[d] : at[i] = at[j] => i = j
    BY <1>2
  <2> QED
    BY <2>1, <2>2
<1>3. CASE \E k \in DOMAIN dsq[d] : dsq[d][k] = t /\ dsq'[d] = RemoveAt(dsq[d], k)
  <2>1. PICK k \in DOMAIN dsq[d] : dsq[d][k] = t /\ dsq'[d] = RemoveAt(dsq[d], k)
    BY <1>3
  <2>2. /\ Len(dsq[d]) \in Nat /\ DOMAIN dsq[d] = 1 .. Len(dsq[d])
        /\ DOMAIN dsq'[d] = 1 .. Len(dsq[d]) - 1
        /\ \A i \in 1 .. Len(dsq[d]) - 1 :
             dsq'[d][i] = IF i < k THEN dsq[d][i] ELSE dsq[d][i + 1]
    BY <1>1, <2>1, RemoveAtElements
  <2> DEFINE at == [i \in DOMAIN dsq'[d] |-> IF i < k THEN i ELSE i + 1]
  <2>3. k \in Int
    BY <2>2
  <2>4. \A i \in DOMAIN dsq'[d] : at[i] \in DOMAIN dsq[d] /\ at[i] # k
    BY <2>2, <2>3
  <2>5. at \in [DOMAIN dsq'[d] -> DOMAIN dsq[d]]
    BY <2>4
  <2>6. \A i, j \in DOMAIN dsq'[d] : at[i] = at[j] => i = j
    BY <2>2, <2>3
  <2>7. \A i \in DOMAIN dsq'[d] : dsq'[d][i] = dsq[d][at[i]]
    BY <2>2
  <2> HIDE DEF at
  <2>8. \A i \in DOMAIN dsq'[d] : dsq'[d][i] # t
    BY <2>1, <2>4, <2>7 DEF WaitsOnce
  <2> QED
    BY <2>5, <2>6, <2>7, <2>8
<1> QED
  BY <1>2, <1>3 DEF Left

\* Tasks wait once when one leaves and the others that wait go on waiting.
LEMMA LeftWaits ==
  ASSUME TypeOK, WaitsOnce, NEW t \in Tasks, Left(t),
         \A x \in Tasks \ {t} : st[x] = "dsq" => st'[x] = "dsq"
  PROVE  WaitsOnce'
<1>1. \A d \in Queues : \A i \in DOMAIN dsq'[d] :
        \E k \in DOMAIN dsq[d] : dsq'[d][i] = dsq[d][k] /\ dsq'[d][i] # t
  BY LeftElements
<1>2. \A d \in Queues : \A i \in DOMAIN dsq[d] : dsq[d][i] \in Tasks
  BY ElementOfSeq DEF TypeOK, QueueTypes
<1>3. ASSUME NEW d \in Queues, NEW i \in DOMAIN dsq'[d] PROVE st'[dsq'[d][i]] = "dsq"
  BY <1>1, <1>2, <1>3 DEF WaitsOnce
<1>4. ASSUME NEW d \in Queues, NEW f \in Queues,
             NEW i \in DOMAIN dsq'[d], NEW j \in DOMAIN dsq'[f], dsq'[d][i] = dsq'[f][j]
      PROVE  d = f
  BY <1>1, <1>4 DEF WaitsOnce
<1>5. ASSUME NEW d \in Queues, NEW i \in DOMAIN dsq'[d], NEW j \in DOMAIN dsq'[d],
             dsq'[d][i] = dsq'[d][j]
      PROVE  i = j
  <2>1. PICK at \in [DOMAIN dsq'[d] -> DOMAIN dsq[d]] :
          \A m \in DOMAIN dsq'[d] :
            /\ dsq'[d][m] = dsq[d][at[m]] /\ dsq'[d][m] # t
            /\ \A n \in DOMAIN dsq'[d] : at[m] = at[n] => m = n
    BY LeftElements
  <2>2. at[i] \in DOMAIN dsq[d] /\ at[j] \in DOMAIN dsq[d] /\ dsq[d][at[i]] = dsq[d][at[j]]
    BY <1>5, <2>1
  <2>3. at[i] = at[j]
    BY <2>2 DEF WaitsOnce
  <2> QED
    BY <2>1, <2>3
<1> QED
  BY <1>3, <1>4, <1>5 DEF WaitsOnce

\* The elements of the queues after task t has joined queue d.
LEMMA PlaceElements ==
  ASSUME TypeOK, NEW t \in Tasks, NEW d \in Queues, Place(t, d), NEW f \in Queues
  PROVE  IF f = d
         THEN /\ DOMAIN dsq'[f] = DOMAIN dsq[f] \union {Len(dsq[f]) + 1}
              /\ Len(dsq[f]) + 1 \notin DOMAIN dsq[f]
              /\ dsq'[f][Len(dsq[f]) + 1] = t
              /\ \A i \in DOMAIN dsq[f] : dsq'[f][i] = dsq[f][i]
         ELSE dsq'[f] = dsq[f]
<1>1. dsq \in [Queues -> Seq(Tasks)]
  BY DEF TypeOK, QueueTypes
<1>2. CASE f = d
  <2>1. dsq'[f] = Append(dsq[f], t) /\ dsq[f] \in Seq(Tasks)
    BY <1>1, <1>2 DEF Place
  <2>2. Len(dsq[f]) \in Nat /\ DOMAIN dsq[f] = 1 .. Len(dsq[f])
    BY <2>1
  <2>3. /\ DOMAIN dsq'[f] = 1 .. Len(dsq[f]) + 1
        /\ dsq'[f][Len(dsq[f]) + 1] = t
        /\ \A i \in 1 .. Len(dsq[f]) : dsq'[f][i] = dsq[f][i]
    BY <2>1, AppendProperties
  <2> QED
    BY <1>2, <2>2, <2>3
<1>3. CASE f # d
  BY <1>1, <1>3 DEF Place
<1> QED
  BY <1>2, <1>3

\* Tasks wait once when one that was not waiting joins a queue.
LEMMA PlaceWaits ==
  ASSUME TypeOK, WaitsOnce, NEW t \in Tasks, NEW d \in Queues, Place(t, d),
         st[t] # "dsq", st' = [st EXCEPT ![t] = "dsq"]
  PROVE  WaitsOnce'
<1>1. \A f \in Queues : \A i \in DOMAIN dsq[f] : dsq[f][i] # t /\ dsq[f][i] \in Tasks
  BY ElementOfSeq DEF WaitsOnce, TypeOK, QueueTypes
<1>2. \A x \in Tasks : st'[x] = IF x = t THEN "dsq" ELSE st[x]
  BY DEF TypeOK, TaskTypes
<1>3. ASSUME NEW f \in Queues, NEW i \in DOMAIN dsq'[f]
      PROVE  \/ dsq'[f][i] = t /\ f = d /\ i = Len(dsq[d]) + 1
             \/ i \in DOMAIN dsq[f] /\ dsq'[f][i] = dsq[f][i]
  BY PlaceElements
<1>4. \A f \in Queues : \A i \in DOMAIN dsq'[f] : st'[dsq'[f][i]] = "dsq"
  BY <1>1, <1>2, <1>3 DEF WaitsOnce
<1>5. \A f, g \in Queues : \A i \in DOMAIN dsq'[f] : \A j \in DOMAIN dsq'[g] :
        dsq'[f][i] = dsq'[g][j] => f = g /\ i = j
  BY <1>1, <1>3 DEF WaitsOnce
<1> QED
  BY <1>4, <1>5 DEF WaitsOnce

LEMMA SameWaits ==
  ASSUME TypeOK, WaitsOnce, dsq' = dsq,
         \A t \in Tasks : st[t] = "dsq" => st'[t] = "dsq"
  PROVE  WaitsOnce'
<1>1. \A d \in Queues : \A i \in DOMAIN dsq[d] : dsq[d][i] \in Tasks
  BY ElementOfSeq DEF TypeOK, QueueTypes
<1> QED
  BY <1>1 DEF WaitsOnce

(***************************************************************************)
(* A task waits in one place.                                              *)
(***************************************************************************)
\* Only a task that was not waiting joins a queue through ops.enqueue.
LEMMA EnqueueEffect ==
  ASSUME TypeOK, NEW t \in Tasks, Enqueue(t)
  PROVE  \/ st' = [st EXCEPT ![t] = "queued"] /\ UNCHANGED dsq
         \/ /\ st' = [st EXCEPT ![t] = "dsq"]
            /\ \E d \in Queues : /\ Place(t, d)
                                 /\ d # Shared => Kick({d}) \/ (st[t] = "preempted" /\ d = tcpu[t])
<1>1. /\ tcpu[t] \in CPUs /\ allowed[t] \subseteq CPUs
  BY MaskCPUs DEF TypeOK, TaskTypes
<1>2. \/ IgnoreEnqueue(t)
      \/ \E c \in CPUs :
           \/ QueueToUserspace(t, c)
           \/ DirectDispatch(t, c) /\ (Kick({c}) \/ (st[t] = "preempted" /\ c = tcpu[t]))
  BY <1>1 DEF Enqueue, PickIdle, EnqueueIdle
<1>3. ASSUME NEW c \in CPUs, QueueToUserspace(t, c)
      PROVE  \/ st' = [st EXCEPT ![t] = "queued"] /\ UNCHANGED dsq
             \/ st' = [st EXCEPT ![t] = "dsq"] /\ Place(t, Shared)
  BY <1>3 DEF QueueToUserspace
<1>4. CASE IgnoreEnqueue(t)
  BY <1>4 DEF IgnoreEnqueue
<1> QED
  BY <1>2, <1>3, <1>4 DEF DirectDispatch, Queues

\* A switch puts back the task that ran, and disturbs no other but the next one.
LEMMA SwitchStates ==
  ASSUME TypeOK, NEW c \in CPUs, NEW n, SwitchTo(c, n), NEW t \in Tasks
  PROVE  st'[t] = IF t = n THEN "running"
                  ELSE IF t = curr[c] THEN "preempted" ELSE st[t]
BY DEF SwitchTo

\* The task a CPU takes from a queue leaves that queue, and may run on the CPU.
LEMMA RunTaskEffect ==
  ASSUME TypeOK, WaitsOnce, NEW c \in CPUs, RunTask(c)
  PROVE  \E n \in Tasks : /\ SwitchTo(c, n) /\ Left(n)
                          /\ st[n] = "dsq" /\ c \in allowed[n]
<1>1. PICK d \in {c, Shared} : \E i \in Runnable(d, c) :
        /\ SwitchTo(c, dsq[d][i])
        /\ dsq' = [dsq EXCEPT ![d] = RemoveAt(@, i)]
  BY DEF RunTask
<1>2. PICK i \in Runnable(d, c) : /\ SwitchTo(c, dsq[d][i])
                                  /\ dsq' = [dsq EXCEPT ![d] = RemoveAt(@, i)]
  BY <1>1
<1>3. /\ d \in Queues /\ i \in DOMAIN dsq[d] /\ c \in allowed[dsq[d][i]]
      /\ dsq \in [Queues -> Seq(Tasks)]
  BY <1>2 DEF Runnable, Queues, TypeOK, QueueTypes
<1>4. dsq[d][i] \in Tasks /\ st[dsq[d][i]] = "dsq"
  BY <1>3, ElementOfSeq DEF WaitsOnce
<1>5. Left(dsq[d][i])
  <2> SUFFICES ASSUME NEW f \in Queues
               PROVE  \/ dsq'[f] = dsq[f] /\ \A j \in DOMAIN dsq[f] : dsq[f][j] # dsq[d][i]
                      \/ \E k \in DOMAIN dsq[f] : dsq[f][k] = dsq[d][i]
                                                  /\ dsq'[f] = RemoveAt(dsq[f], k)
    BY DEF Left
  <2>1. CASE f = d
    BY <1>2, <1>3, <2>1
  <2>2. CASE f # d
    BY <1>2, <1>3, <2>2 DEF WaitsOnce
  <2> QED
    BY <2>1, <2>2
<1> QED
  BY <1>2, <1>3, <1>4, <1>5

LEMMA WaitsStep ==
  ASSUME TypeOK, WaitsOnce, RunsOnce, [Next]_vars
  PROVE  WaitsOnce'
<1>0. st \in [Tasks -> States] /\ curr \in [CPUs -> Tasks \union {Sched, Idle}]
  BY DEF TypeOK, TaskTypes, CPUTypes
<1>1. ASSUME UNCHANGED <<st, dsq>> PROVE WaitsOnce'
  BY <1>1, SameWaits
<1>2. ASSUME NEW t \in Tasks, SelectDirect(t) PROVE WaitsOnce'
  <2>1. PICK c \in CPUs : Place(t, c)
    BY <1>2, MaskCPUs DEF SelectDirect, PickIdle, TypeOK
  <2>2. st[t] # "dsq" /\ st' = [st EXCEPT ![t] = "dsq"]
    BY <1>2 DEF SelectDirect
  <2> QED
    BY <2>1, <2>2, PlaceWaits DEF Queues
<1>3. ASSUME NEW t \in Tasks, SelectEnqueue(t) \/ RemoteWake(t) PROVE WaitsOnce'
  <2>1. UNCHANGED dsq /\ st[t] = "sleeping" /\ \E m : st' = [st EXCEPT ![t] = m]
    BY <1>3 DEF SelectEnqueue, RemoteWake, EnqueueBegin
  <2>2. \A x \in Tasks : st[x] = "dsq" => st'[x] = "dsq"
    BY <1>0, <2>1
  <2> QED
    BY <2>1, <2>2, SameWaits
<1>4. ASSUME NEW t \in Tasks, Requeue(t) \/ MoveWaiting(t) PROVE WaitsOnce'
  <2>1. dsq' = Leave(t) /\ st' = [st EXCEPT ![t] = "wakeup"]
    BY <1>4 DEF Requeue, EnqueueBegin, MoveWaiting, Move
  <2>2. \A x \in Tasks \ {t} : st[x] = "dsq" => st'[x] = "dsq"
    BY <1>0, <2>1
  <2> QED
    BY <2>1, <2>2, LeaveLeft, LeftWaits DEF TypeOK
<1>5. ASSUME NEW t \in Tasks, Enqueue(t) PROVE WaitsOnce'
  <2>1. st[t] \in Enqueueing
    BY <1>5 DEF Enqueue
  <2>2. CASE st' = [st EXCEPT ![t] = "queued"] /\ UNCHANGED dsq
    <3>1. \A x \in Tasks : st[x] = "dsq" => st'[x] = "dsq"
      BY <1>0, <2>1, <2>2 DEF Enqueueing
    <3> QED
      BY <2>2, <3>1, SameWaits
  <2>3. CASE st' = [st EXCEPT ![t] = "dsq"] /\ \E d \in Queues : Place(t, d)
    BY <2>1, <2>3, PlaceWaits DEF Enqueueing
  <2> QED
    BY <1>5, <2>2, <2>3, EnqueueEffect
<1>6. ASSUME NEW c \in CPUs, Block(c) \/ MoveRunning(c) PROVE WaitsOnce'
  <2>1. /\ UNCHANGED dsq /\ st[curr[c]] = "running"
        /\ \E s : st' = [st EXCEPT ![curr[c]] = s]
    BY <1>6 DEF Block, MoveRunning, Move, RunsOnce
  <2>2. \A x \in Tasks : st[x] = "dsq" => st'[x] = "dsq"
    BY <1>0, <2>1
  <2> QED
    BY <2>1, <2>2, SameWaits
<1>7. ASSUME NEW c \in CPUs, FinishDispatch(c) PROVE WaitsOnce'
  <2> DEFINE e == Head(buf[c])
  <2>1. e \in Entry
    BY <1>7, HeadTailProperties DEF FinishDispatch, TypeOK, CPUTypes
  <2>2. e.pid \in Tasks /\ e.cpu \in Queues
    BY <2>1 DEF Entry, Queues
  <2>3. CASE Claims(e)
    <3>1. /\ st' = [st EXCEPT ![e.pid] = "dsq"] /\ Place(e.pid, e.cpu)
          /\ st[e.pid] # "dsq"
      BY <1>7, <2>3 DEF FinishDispatch, Claims
    <3> QED
      BY <2>2, <3>1, PlaceWaits
  <2>4. CASE ~Claims(e)
    BY <1>1, <1>7, <2>4 DEF FinishDispatch
  <2> QED
    BY <2>3, <2>4
<1>8. ASSUME NEW c \in CPUs, RunScheduler(c) \/ KeepPrev(c) \/ GoIdle(c) PROVE WaitsOnce'
  <2>1. PICK n : SwitchTo(c, n) /\ (n \in Tasks => n = curr[c])
    BY <1>8 DEF RunScheduler, KeepPrev, GoIdle
  <2>2. curr[c] \in Tasks => st[curr[c]] = "running"
    BY DEF RunsOnce
  <2>3. \A x \in Tasks : st[x] = "dsq" => st'[x] = "dsq"
    BY <2>1, <2>2, SwitchStates
  <2>4. UNCHANGED dsq
    BY <1>8 DEF RunScheduler, KeepPrev, GoIdle
  <2> QED
    BY <2>3, <2>4, SameWaits
<1>9. ASSUME NEW c \in CPUs, RunTask(c) PROVE WaitsOnce'
  <2>1. PICK n \in Tasks : SwitchTo(c, n) /\ Left(n)
    BY <1>9, RunTaskEffect
  <2>2. curr[c] \in Tasks => st[curr[c]] = "running"
    BY DEF RunsOnce
  <2>3. \A x \in Tasks \ {n} : st[x] = "dsq" => st'[x] = "dsq"
    BY <2>1, <2>2, SwitchStates
  <2> QED
    BY <2>1, <2>3, LeftWaits
<1>10. ASSUME NEW c \in CPUs,
              \/ DequeueTask(c) \/ DequeueDone(c) \/ DispatchTask(c)
              \/ NotifyComplete(c) \/ SliceEnds(c) \/ IdleWakes(c)
              \/ DrainEmpty(c) \/ ReleaseRing(c) \/ LookupTask(c) \/ TestAffinity(c) \/ InsertVtime(c)
              \/ CheckGeneration(c) \/ TestPending(c) \/ DispatchAgain(c)
       PROVE  WaitsOnce'
  BY <1>1, <1>10 DEF DequeueTask, DequeueDone, DispatchTask, NotifyComplete,
     SliceEnds, IdleWakes, DrainEmpty, ReleaseRing, LookupTask, TestAffinity, InsertVtime,
     CheckGeneration, TestPending, DispatchAgain, taskVars
<1>11. ASSUME TimerFires \/ UNCHANGED vars \/ \E t \in Tasks : ChangeMask(t)
       PROVE  WaitsOnce'
  BY <1>1, <1>11 DEF TimerFires, ChangeMask, taskVars, vars
<1> QED
  BY <1>2, <1>3, <1>4, <1>5, <1>6, <1>7, <1>8, <1>9, <1>10, <1>11
     DEF Next, UserStep, DispatchStep

(***************************************************************************)
(* A task runs on one CPU.                                                 *)
(***************************************************************************)
\* The two halves of RunsOnce survive a step that leaves the CPUs alone and moves
\* only tasks that neither run nor start a "preempted" enqueue.
LEMMA OthersRun ==
  ASSUME TypeOK, RunsOnce, UNCHANGED <<pc, curr>>,
         NEW x \in Tasks, st[x] # "running", st'[x] # "preempted",
         \A t \in Tasks \ {x} : st'[t] = st[t] /\ tcpu'[t] = tcpu[t]
  PROVE  RunsOnce'
<1>1. \A c \in CPUs : curr'[c] \in Tasks => curr'[c] # x
  BY DEF RunsOnce
<1>2. \A c \in CPUs : curr'[c] \in Tasks => st'[curr'[c]] = "running" /\ tcpu'[curr'[c]] = c
  BY <1>1 DEF RunsOnce
<1>3. \A t \in Tasks : st'[t] = "preempted" => pc'[tcpu'[t]] = "run" /\ curr'[tcpu'[t]] # Idle
  BY DEF RunsOnce
<1> QED
  BY <1>2, <1>3 DEF RunsOnce

\* So does a step inside ops.dispatch that moves no task.
LEMMA StepRuns ==
  ASSUME TypeOK, RunsOnce, UNCHANGED <<st, tcpu, curr>>, NEW c \in CPUs,
         pc[c] # "run" \/ ~Locked(c), NEW p, pc' = [pc EXCEPT ![c] = p]
  PROVE  RunsOnce'
<1>1. pc \in [CPUs -> Steps] /\ tcpu \in [Tasks \union {Sched} -> CPUs]
  BY DEF TypeOK, TaskTypes, CPUTypes
<1>2. \A t \in Tasks : st[t] = "preempted" => tcpu[t] # c
  BY DEF RunsOnce, Locked
<1>3. \A t \in Tasks : st'[t] = "preempted" => pc'[tcpu'[t]] = "run" /\ curr'[tcpu'[t]] # Idle
  BY <1>1, <1>2 DEF RunsOnce
<1> QED
  BY <1>3 DEF RunsOnce

\* A CPU switches to a task taken from a queue, to the one it ran, or to none.
LEMMA SwitchRuns ==
  ASSUME TypeOK, RunsOnce, NEW c \in CPUs, NEW n, SwitchTo(c, n), pc[c] = "flush",
         \/ n \in Tasks /\ st[n] = "dsq"
         \/ n = curr[c] /\ n # Idle
         \/ n = Sched
         \/ n = Idle /\ curr[c] \notin Tasks
  PROVE  RunsOnce'
<1>1. /\ pc \in [CPUs -> Steps] /\ tcpu \in [Tasks \union {Sched} -> CPUs]
      /\ curr \in [CPUs -> Tasks \union {Sched, Idle}]
  BY DEF TypeOK, TaskTypes, CPUTypes
<1>2. /\ curr' = [curr EXCEPT ![c] = n] /\ pc' = [pc EXCEPT ![c] = "run"]
      /\ tcpu' = IF n = Idle THEN tcpu ELSE [tcpu EXCEPT ![n] = c]
      /\ \A t \in Tasks : st'[t] = IF t = n THEN "running"
                                   ELSE IF t = curr[c] THEN "preempted" ELSE st[t]
  BY SwitchStates DEF SwitchTo
<1>3. \A t \in Tasks : tcpu'[t] = IF t = n THEN c ELSE tcpu[t]
  BY <1>1, <1>2
<1>4. ASSUME NEW k \in CPUs, curr'[k] \in Tasks
      PROVE  st'[curr'[k]] = "running" /\ tcpu'[curr'[k]] = k
  <2>1. CASE k = c
    BY <1>1, <1>2, <1>3, <1>4, <2>1
  <2>2. CASE k # c
    <3>1. curr'[k] = curr[k] /\ st[curr[k]] = "running" /\ tcpu[curr[k]] = k
      BY <1>1, <1>2, <1>4, <2>2 DEF RunsOnce
    <3>2. curr[k] # n
      BY <1>4, <2>2, <3>1 DEF RunsOnce
    <3>3. curr[k] # curr[c]
      BY <1>4, <2>2, <3>1 DEF RunsOnce
    <3> QED
      BY <1>2, <1>3, <1>4, <3>1, <3>2, <3>3
  <2> QED
    BY <2>1, <2>2
<1>5. ASSUME NEW t \in Tasks, st'[t] = "preempted"
      PROVE  pc'[tcpu'[t]] = "run" /\ curr'[tcpu'[t]] # Idle
  <2>1. t # n /\ tcpu'[t] = tcpu[t] /\ tcpu[t] \in CPUs
    BY <1>1, <1>2, <1>3, <1>5
  <2>2. CASE t = curr[c]
    <3>1. tcpu[t] = c /\ n # Idle
      BY <2>1, <2>2 DEF RunsOnce
    <3> QED
      BY <1>1, <1>2, <2>1, <3>1
  <2>3. CASE t # curr[c]
    <3>1. st[t] = "preempted"
      BY <1>2, <1>5, <2>1, <2>3
    <3>2. pc[tcpu[t]] = "run" /\ curr[tcpu[t]] # Idle
      BY <3>1 DEF RunsOnce
    <3>3. tcpu[t] # c
      BY <3>2
    <3> QED
      BY <1>1, <1>2, <2>1, <3>2, <3>3
  <2> QED
    BY <2>2, <2>3
<1> QED
  BY <1>4, <1>5 DEF RunsOnce

LEMMA RunsStep ==
  ASSUME TypeOK, WaitsOnce, RunsOnce, [Next]_vars
  PROVE  RunsOnce'
<1>0. /\ st \in [Tasks -> States] /\ tcpu \in [Tasks \union {Sched} -> CPUs]
      /\ curr \in [CPUs -> Tasks \union {Sched, Idle}] /\ pc \in [CPUs -> Steps]
  BY DEF TypeOK, TaskTypes, CPUTypes
<1>1. ASSUME UNCHANGED <<st, tcpu, curr, pc>> PROVE RunsOnce'
  BY <1>1 DEF RunsOnce
<1>2. ASSUME NEW t \in Tasks,
             \/ SelectDirect(t) \/ SelectEnqueue(t) \/ RemoteWake(t)
             \/ Requeue(t) \/ MoveWaiting(t)
      PROVE  RunsOnce'
  <2>1. /\ UNCHANGED <<pc, curr>> /\ st[t] # "running"
        /\ \E s \in {"dsq", "selected", "wakeup"} : st' = [st EXCEPT ![t] = s]
        /\ tcpu' = tcpu \/ \E c : tcpu' = [tcpu EXCEPT ![t] = c]
    BY <1>2 DEF SelectDirect, SelectEnqueue, RemoteWake, Requeue, MoveWaiting, Move,
                EnqueueBegin, cpuVars
  <2>2. \A x \in Tasks \ {t} : st'[x] = st[x] /\ tcpu'[x] = tcpu[x]
    BY <1>0, <2>1
  <2>3. st'[t] # "preempted"
    BY <1>0, <2>1
  <2> QED
    BY <2>1, <2>2, <2>3, OthersRun
<1>3. ASSUME NEW t \in Tasks, Enqueue(t) PROVE RunsOnce'
  <2>1. UNCHANGED <<pc, curr, tcpu>> /\ st[t] # "running"
    BY <1>3 DEF Enqueue, Enqueueing, cpuVars
  <2>2. \E s \in {"dsq", "queued"} : st' = [st EXCEPT ![t] = s]
    BY <1>3, EnqueueEffect
  <2>3. st'[t] # "preempted" /\ \A x \in Tasks \ {t} : st'[x] = st[x] /\ tcpu'[x] = tcpu[x]
    BY <1>0, <2>1, <2>2
  <2> QED
    BY <2>1, <2>3, OthersRun
<1>4. ASSUME NEW c \in CPUs, Block(c) \/ MoveRunning(c) PROVE RunsOnce'
  <2>1. /\ tcpu' = tcpu \/ \E k : tcpu' = [tcpu EXCEPT ![curr[c]] = k]
        /\ ~Locked(c) /\ curr[c] \in Tasks
        /\ curr' = [curr EXCEPT ![c] = Idle]
        /\ \E p : pc' = [pc EXCEPT ![c] = p]
        /\ \E s \in {"sleeping", "gone", "wakeup"} : st' = [st EXCEPT ![curr[c]] = s]
    BY <1>4 DEF Block, MoveRunning, Move, DispatchEntry
  <2>0. \A t \in Tasks \ {curr[c]} : st'[t] = st[t] /\ tcpu'[t] = tcpu[t]
    BY <1>0, <2>1
  <2>2. \A k \in CPUs : curr'[k] \in Tasks => st'[curr'[k]] = "running" /\ tcpu'[curr'[k]] = k
    <3> SUFFICES ASSUME NEW k \in CPUs, curr'[k] \in Tasks
                 PROVE  st'[curr'[k]] = "running" /\ tcpu'[curr'[k]] = k
      OBVIOUS
    <3>1. k # c /\ curr'[k] = curr[k]
      BY <1>0, <2>1
    <3>2. st[curr[k]] = "running" /\ tcpu[curr[k]] = k /\ curr[k] # curr[c]
      BY <2>1, <3>1 DEF RunsOnce
    <3> QED
      BY <2>0, <3>1, <3>2
  <2>3. \A t \in Tasks : st'[t] = "preempted" => pc'[tcpu'[t]] = "run" /\ curr'[tcpu'[t]] # Idle
    <3> SUFFICES ASSUME NEW t \in Tasks, st'[t] = "preempted"
                 PROVE  pc'[tcpu'[t]] = "run" /\ curr'[tcpu'[t]] # Idle
      OBVIOUS
    <3>1. t # curr[c] /\ st[t] = "preempted" /\ tcpu'[t] = tcpu[t]
      BY <1>0, <2>0, <2>1
    <3>2. tcpu[t] # c /\ pc[tcpu[t]] = "run" /\ curr[tcpu[t]] # Idle
      BY <2>1, <3>1 DEF RunsOnce, Locked
    <3> QED
      BY <1>0, <2>1, <3>1, <3>2
  <2> QED
    BY <2>2, <2>3 DEF RunsOnce
<1>5. ASSUME NEW c \in CPUs,
             \/ NotifyComplete(c) \/ SliceEnds(c) \/ IdleWakes(c) \/ DispatchAgain(c)
      PROVE  RunsOnce'
  <2>1. /\ UNCHANGED <<st, tcpu, curr>> /\ ~Locked(c)
        /\ \E p : pc' = [pc EXCEPT ![c] = p]
    BY <1>5 DEF NotifyComplete, SliceEnds, IdleWakes, DispatchAgain, DispatchEntry, taskVars
  <2> QED
    BY <2>1, StepRuns
<1>6. ASSUME NEW c \in CPUs,
             \/ DrainEmpty(c) \/ ReleaseRing(c) \/ LookupTask(c) \/ TestAffinity(c) \/ InsertVtime(c)
             \/ CheckGeneration(c) \/ TestPending(c)
      PROVE  RunsOnce'
  <2>1. /\ UNCHANGED <<st, tcpu, curr>> /\ pc[c] # "run"
        /\ pc' = pc \/ \E p : pc' = [pc EXCEPT ![c] = p]
    BY <1>6 DEF DrainEmpty, ReleaseRing, LookupTask, TestAffinity, InsertVtime, CheckGeneration,
                TestPending, StopDraining, taskVars
  <2> QED
    BY <1>1, <2>1, StepRuns
<1>7. ASSUME NEW c \in CPUs, FinishDispatch(c) PROVE RunsOnce'
  <2> DEFINE e == Head(buf[c])
  <2>1. e \in Entry
    BY <1>7, HeadTailProperties DEF FinishDispatch, TypeOK, CPUTypes
  <2>2. e.pid \in Tasks /\ UNCHANGED <<pc, curr, tcpu>>
    BY <1>7, <2>1 DEF Entry, FinishDispatch
  <2>3. CASE Claims(e)
    <3>1. st' = [st EXCEPT ![e.pid] = "dsq"] /\ st[e.pid] = "queued"
      BY <1>7, <2>3 DEF FinishDispatch, Claims
    <3>2. /\ st'[e.pid] # "preempted"
          /\ \A x \in Tasks \ {e.pid} : st'[x] = st[x] /\ tcpu'[x] = tcpu[x]
      BY <1>0, <2>2, <3>1
    <3> QED
      BY <2>2, <3>1, <3>2, OthersRun
  <2>4. CASE ~Claims(e)
    BY <1>1, <1>7, <2>2, <2>4 DEF FinishDispatch
  <2> QED
    BY <2>3, <2>4
<1>8. ASSUME NEW c \in CPUs, RunTask(c) PROVE RunsOnce'
  <2>1. pc[c] = "flush" /\ \E n \in Tasks : SwitchTo(c, n) /\ st[n] = "dsq"
    BY <1>8, RunTaskEffect DEF RunTask, Picking
  <2> QED
    BY <2>1, SwitchRuns
<1>9. ASSUME NEW c \in CPUs, RunScheduler(c) \/ KeepPrev(c) \/ GoIdle(c) PROVE RunsOnce'
  <2>1. pc[c] = "flush"
    BY <1>9 DEF RunScheduler, KeepPrev, GoIdle, Picking
  <2>2. \E n : SwitchTo(c, n) /\ \/ n = curr[c] /\ n # Idle
                                 \/ n = Sched
                                 \/ n = Idle /\ curr[c] \notin Tasks
    BY <1>9 DEF RunScheduler, KeepPrev, GoIdle, NoPrev
  <2> QED
    BY <2>1, <2>2, SwitchRuns
<1>10. ASSUME NEW c \in CPUs, DequeueTask(c) \/ DequeueDone(c) \/ DispatchTask(c)
       PROVE  RunsOnce'
  BY <1>1, <1>10 DEF DequeueTask, DequeueDone, DispatchTask, taskVars, cpuVars
<1>11. ASSUME TimerFires \/ UNCHANGED vars \/ \E t \in Tasks : ChangeMask(t)
       PROVE  RunsOnce'
  BY <1>1, <1>11 DEF TimerFires, ChangeMask, taskVars, cpuVars, vars
<1> QED
  BY <1>2, <1>3, <1>4, <1>5, <1>6, <1>7, <1>8, <1>9, <1>10, <1>11
     DEF Next, UserStep, DispatchStep

(***************************************************************************)
(* The dispatch buffers, the targets and the kicks.                        *)
(***************************************************************************)
\* The insert that CPU c buffers, as made by InsertVtime.
NewInsert(c, e) ==
  LET r == Head(dispatched) IN
    /\ e.pid = r.pid /\ e.enq_cnt = r.enq_cnt /\ e.cpu = tgt[c]
    /\ pc[c] = "insert" /\ pc'[c] = "check"
    /\ UNCHANGED <<taskVars, kicks, tgt>>

LEMMA InsertFrom ==
  ASSUME TypeOK, NEW c \in CPUs, InsertVtime(c)
  PROVE  /\ buf[c] \in Seq(Entry) /\ Len(buf[c]) \in Nat /\ DOMAIN buf[c] = 1 .. Len(buf[c])
         /\ Len(buf'[c]) = Len(buf[c]) + 1 /\ DOMAIN buf'[c] = 1 .. Len(buf[c]) + 1
         /\ \A i \in 1 .. Len(buf[c]) : buf'[c][i] = buf[c][i]
         /\ NewInsert(c, buf'[c][Len(buf[c]) + 1])
         /\ \A k \in CPUs \ {c} : buf'[k] = buf[k] /\ pc'[k] = pc[k]
<1> DEFINE r == Head(dispatched)
           e == [pid |-> r.pid, cpu |-> tgt[c], qseq |-> qseq[r.pid],
                 enq_cnt |-> r.enq_cnt, overlap |-> st[r.pid] \in Enqueueing]
<1>1. /\ buf \in [CPUs -> Seq(Entry)] /\ pc \in [CPUs -> Steps]
      /\ pc[c] = "insert" /\ pc' = [pc EXCEPT ![c] = "check"]
      /\ UNCHANGED <<taskVars, kicks, tgt>>
  BY DEF InsertVtime, TypeOK, CPUTypes
<1>2. buf' = [buf EXCEPT ![c] = Append(buf[c], e)]
  BY DEF InsertVtime
<1>3. e.pid = r.pid /\ e.enq_cnt = r.enq_cnt /\ e.cpu = tgt[c]
  OBVIOUS
<1> HIDE DEF e
<1>4. buf[c] \in Seq(Entry) /\ Len(buf[c]) \in Nat /\ DOMAIN buf[c] = 1 .. Len(buf[c])
  BY <1>1
<1>5. buf'[c] = Append(buf[c], e)
  BY <1>1, <1>2
<1>6. /\ Len(buf'[c]) = Len(buf[c]) + 1 /\ DOMAIN buf'[c] = 1 .. Len(buf[c]) + 1
      /\ buf'[c][Len(buf[c]) + 1] = e
      /\ \A i \in 1 .. Len(buf[c]) : buf'[c][i] = buf[c][i]
  BY <1>4, <1>5
<1>7. NewInsert(c, e)
  BY <1>1, <1>3 DEF NewInsert
<1>8. \A k \in CPUs \ {c} : buf'[k] = buf[k] /\ pc'[k] = pc[k]
  BY <1>1, <1>2
<1> QED
  BY <1>4, <1>6, <1>7, <1>8


\* What a step does to the dispatch of CPU c: nothing; an end that empties the
\* buffer or finds it empty; a step of c that leaves the buffer alone; or a step
\* of dispatch_task or finish_dispatch on c.
CPUMoves(c) ==
  \/ pc'[c] = pc[c] /\ buf'[c] = buf[c] /\ tgt'[c] = tgt[c] /\ kicks'[c] = kicks[c]
  \/ buf'[c] = <<>> /\ pc'[c] \in {"drain", "pending", "run"}
  \/ /\ pc[c] \in {"drain", "empty", "pending"} /\ pc'[c] \in {"empty", "pending", "flush"}
     /\ buf'[c] = buf[c] /\ kicks'[c] = kicks[c]
  \/ LookupTask(c) \/ TestAffinity(c) \/ InsertVtime(c) \/ CheckGeneration(c)
  \/ FinishDispatch(c)

LEMMA EveryCPUMoves ==
  ASSUME TypeOK, [Next]_vars, NEW c \in CPUs
  PROVE  CPUMoves(c)
<1>0. /\ pc \in [CPUs -> Steps] /\ buf \in [CPUs -> Seq(Entry)]
      /\ tgt \in [CPUs -> CPUs] /\ kicks \in [CPUs -> SUBSET CPUs]
  BY DEF TypeOK, CPUTypes
<1>1. ASSUME UNCHANGED <<pc, buf, tgt, kicks>> PROVE CPUMoves(c)
  BY <1>1 DEF CPUMoves
<1>2. ASSUME NEW t \in Tasks,
             \/ SelectDirect(t) \/ SelectEnqueue(t) \/ RemoteWake(t)
             \/ ChangeMask(t) \/ Requeue(t) \/ MoveWaiting(t) \/ Enqueue(t)
      PROVE  CPUMoves(c)
  BY <1>1, <1>2 DEF SelectDirect, SelectEnqueue, RemoteWake, ChangeMask, Requeue,
     MoveWaiting, Enqueue, cpuVars
<1>3. ASSUME NEW k \in CPUs, DequeueTask(k) \/ DequeueDone(k) \/ DispatchTask(k)
      PROVE  CPUMoves(c)
  BY <1>1, <1>3 DEF DequeueTask, DequeueDone, DispatchTask, cpuVars
<1>4. ASSUME NEW k \in CPUs,
             \/ NotifyComplete(k) \/ SliceEnds(k) \/ Block(k) \/ MoveRunning(k) \/ IdleWakes(k)
             \/ DispatchAgain(k)
      PROVE  CPUMoves(c)
  <2>1. /\ buf' = [buf EXCEPT ![k] = <<>>] /\ UNCHANGED <<tgt, kicks>>
        /\ \E p \in {"drain", "pending"} : pc' = [pc EXCEPT ![k] = p]
    BY <1>4 DEF NotifyComplete, SliceEnds, Block, MoveRunning, IdleWakes, DispatchAgain,
       DispatchEntry
  <2> QED
    BY <1>0, <2>1 DEF CPUMoves
<1>5. ASSUME NEW k \in CPUs, DrainEmpty(k) \/ ReleaseRing(k) \/ TestPending(k) PROVE CPUMoves(c)
  <2>1. /\ UNCHANGED <<buf, tgt, kicks>> /\ pc[k] \in {"drain", "empty", "pending"}
        /\ \E p \in {"empty", "pending", "flush"} : pc' = [pc EXCEPT ![k] = p]
    BY <1>5 DEF DrainEmpty, ReleaseRing, TestPending, StopDraining
  <2> QED
    BY <1>0, <2>1 DEF CPUMoves
<1>6. ASSUME NEW k \in CPUs, LookupTask(k) \/ TestAffinity(k) PROVE CPUMoves(c)
  <2>1. /\ UNCHANGED <<buf, kicks>>
        /\ tgt' = tgt \/ \E x : tgt' = [tgt EXCEPT ![k] = x]
        /\ pc' = pc \/ \E p : pc' = [pc EXCEPT ![k] = p]
    BY <1>6 DEF LookupTask, TestAffinity, StopDraining
  <2> QED
    BY <1>0, <1>6, <2>1 DEF CPUMoves
<1>7. ASSUME NEW k \in CPUs, InsertVtime(k) PROVE CPUMoves(c)
  <2>1. /\ UNCHANGED <<tgt, kicks>> /\ pc' = [pc EXCEPT ![k] = "check"]
        /\ \E x : buf' = [buf EXCEPT ![k] = x]
    BY <1>7 DEF InsertVtime
  <2> QED
    BY <1>0, <1>7, <2>1 DEF CPUMoves
<1>8. ASSUME NEW k \in CPUs, CheckGeneration(k) PROVE CPUMoves(c)
  <2>1. \E p, b : pc' = [pc EXCEPT ![k] = p] /\ buf' = [buf EXCEPT ![k] = b]
    BY <1>8 DEF CheckGeneration, StopDraining
  <2>2. /\ tgt' = [tgt EXCEPT ![k] = k]
        /\ kicks' = kicks \/ kicks' = [kicks EXCEPT ![k] = @ \union WokenBy(k)]
    BY <1>8 DEF CheckGeneration
  <2> QED
    BY <1>0, <1>8, <2>1, <2>2 DEF CPUMoves
<1>9. ASSUME NEW k \in CPUs, FinishDispatch(k) PROVE CPUMoves(c)
  <2>1. UNCHANGED <<pc, tgt, kicks>> /\ \E x : buf' = [buf EXCEPT ![k] = x]
    BY <1>9 DEF FinishDispatch
  <2> QED
    BY <1>0, <1>9, <2>1 DEF CPUMoves
<1>10. ASSUME NEW k \in CPUs,
              RunScheduler(k) \/ RunTask(k) \/ KeepPrev(k) \/ GoIdle(k)
       PROVE  CPUMoves(c)
  <2>1. buf[k] = <<>> /\ \E n : SwitchTo(k, n)
    BY <1>10 DEF RunScheduler, RunTask, KeepPrev, GoIdle, Picking
  <2>2. /\ UNCHANGED <<tgt, buf>> /\ pc' = [pc EXCEPT ![k] = "run"]
        /\ kicks' = [kicks EXCEPT ![k] = {}]
    BY <2>1 DEF SwitchTo
  <2> QED
    BY <1>0, <2>1, <2>2 DEF CPUMoves
<1>11. ASSUME TimerFires \/ UNCHANGED vars PROVE CPUMoves(c)
  BY <1>1, <1>11 DEF TimerFires, vars, cpuVars
<1> QED
  BY <1>2, <1>3, <1>4, <1>5, <1>6, <1>7, <1>8, <1>9, <1>10, <1>11
     DEF Next, UserStep, DispatchStep

\* The generation test drops the newest insert of the buffer, or keeps them all
\* and asks for the kick of the target.
LEMMA CheckFrom ==
  ASSUME TypeOK, DrainInv, NEW c \in CPUs, CheckGeneration(c)
  PROVE  /\ buf[c] \in Seq(Entry) /\ Len(buf[c]) \in Nat /\ DOMAIN buf[c] = 1 .. Len(buf[c])
         /\ pc[c] = "check" /\ pc'[c] \in {"drain", "pending"}
         /\ \/ /\ DOMAIN buf'[c] = 1 .. Len(buf[c]) - 1 /\ kicks'[c] = kicks[c]
               /\ \A i \in 1 .. Len(buf[c]) - 1 : buf'[c][i] = buf[c][i]
            \/ buf'[c] = buf[c] /\ kicks'[c] = kicks[c] \union {tgt[c]}
<1> DEFINE r == Head(dispatched)
           b == IF Superseded(r) THEN Front(buf[c]) ELSE buf[c]
<1>1. /\ buf \in [CPUs -> Seq(Entry)] /\ pc \in [CPUs -> Steps]
      /\ kicks \in [CPUs -> SUBSET CPUs]
      /\ pc[c] = "check" /\ buf[c] # <<>>
  BY DEF CheckGeneration, TypeOK, CPUTypes, DrainInv
<1>2. /\ buf' = [buf EXCEPT ![c] = b]
      /\ kicks' = IF Superseded(r) THEN kicks
                  ELSE [kicks EXCEPT ![c] = @ \union WokenBy(c)]
      /\ \E p \in {"drain", "pending"} : pc' = [pc EXCEPT ![c] = p]
  BY DEF CheckGeneration, StopDraining
<1>3. buf[c] \in Seq(Entry) /\ Len(buf[c]) \in Nat /\ DOMAIN buf[c] = 1 .. Len(buf[c])
      /\ pc'[c] \in {"drain", "pending"}
  BY <1>1, <1>2
<1>4. CASE Superseded(r)
  <2>1. buf'[c] = Front(buf[c]) /\ kicks'[c] = kicks[c]
    BY <1>1, <1>2, <1>4
  <2> QED
    BY <1>1, <1>3, <2>1, FrontProperties
<1>5. CASE ~Superseded(r)
  BY <1>1, <1>2, <1>3, <1>5 DEF WokenBy
<1> QED
  BY <1>4, <1>5

LEMMA FinishFrom ==
  ASSUME TypeOK, NEW c \in CPUs, FinishDispatch(c)
  PROVE  /\ pc[c] = "flush" /\ pc'[c] = "flush" /\ kicks'[c] = kicks[c]
         /\ \A i \in DOMAIN buf'[c] : i + 1 \in DOMAIN buf[c] /\ buf'[c][i] = buf[c][i + 1]
<1>1. /\ buf \in [CPUs -> Seq(Entry)] /\ pc[c] = "flush" /\ UNCHANGED <<pc, kicks>>
      /\ buf[c] # <<>> /\ buf' = [buf EXCEPT ![c] = Tail(@)]
  BY DEF FinishDispatch, TypeOK, CPUTypes
<1>2. buf'[c] = Tail(buf[c]) /\ buf[c] \in Seq(Entry)
  BY <1>1
<1> QED
  BY <1>1, <1>2, TailElements

LEMMA LookupFrom ==
  ASSUME TypeOK, NEW c \in CPUs, LookupTask(c)
  PROVE  /\ pc[c] = "drain" /\ pc'[c] \in {"drain", "test", "pending"}
         /\ UNCHANGED <<buf, kicks, taskVars>>
         /\ pc'[c] = "test" => /\ dispatched' = dispatched
                               /\ tgt'[c] = tcpu[Head(dispatched).pid]
                               /\ Head(dispatched) \in Record
<1>1. /\ pc \in [CPUs -> Steps] /\ tgt \in [CPUs -> CPUs] /\ dispatched \in Seq(Record)
      /\ pc[c] = "drain" /\ UNCHANGED <<buf, kicks, taskVars>>
      /\ dispatched # <<>>
  BY DEF LookupTask, TypeOK, CPUTypes, RingTypes
<1>2. \/ \E p \in {"drain", "pending"} : pc' = [pc EXCEPT ![c] = p]
      \/ /\ tgt' = [tgt EXCEPT ![c] = tcpu[Head(dispatched).pid]]
         /\ pc' = [pc EXCEPT ![c] = "test"]
         /\ UNCHANGED dispatched
  BY <1>1 DEF LookupTask, StopDraining
<1>3. Head(dispatched) \in Record
  BY <1>1, HeadTailProperties
<1> QED
  BY <1>1, <1>2, <1>3

LEMMA AffinityFrom ==
  ASSUME TypeOK, DrainInv, NEW c \in CPUs, TestAffinity(c)
  PROVE  /\ pc[c] = "test" /\ pc'[c] = "insert"
         /\ UNCHANGED <<buf, kicks, taskVars, dispatched>>
         /\ tgt'[c] = Target(Head(dispatched), tgt[c])
         /\ Head(dispatched) \in Record
<1>1. /\ pc \in [CPUs -> Steps] /\ tgt \in [CPUs -> CPUs] /\ dispatched \in Seq(Record)
      /\ pc[c] = "test" /\ UNCHANGED <<buf, kicks, taskVars, dispatched>>
      /\ pc' = [pc EXCEPT ![c] = "insert"] /\ dispatched # <<>>
  BY DEF TestAffinity, DrainInv, TypeOK, CPUTypes, RingTypes, ringVars
<1>2. tgt' = [tgt EXCEPT ![c] = Target(Head(dispatched), tgt[c])]
  BY DEF TestAffinity
<1>3. Head(dispatched) \in Record
  BY <1>1, HeadTailProperties
<1> QED
  BY <1>1, <1>2, <1>3

LEMMA KickStep ==
  ASSUME TypeOK, DrainInv, KickInv, [Next]_vars
  PROVE  KickInv'
<1> SUFFICES ASSUME NEW c \in CPUs, NEW i \in DOMAIN buf'[c]
             PROVE  IF pc'[c] = "check" /\ i = Len(buf'[c]) THEN buf'[c][i].cpu = tgt'[c]
                    ELSE buf'[c][i].cpu \in kicks'[c]
  BY DEF KickInv
<1>0. \A j \in DOMAIN buf[c] : IF pc[c] = "check" /\ j = Len(buf[c]) THEN buf[c][j].cpu = tgt[c]
                               ELSE buf[c][j].cpu \in kicks[c]
  BY DEF KickInv
<1>1. CASE pc'[c] = pc[c] /\ buf'[c] = buf[c] /\ tgt'[c] = tgt[c] /\ kicks'[c] = kicks[c]
  BY <1>0, <1>1
<1>2. CASE buf'[c] = <<>>
  BY <1>2
<1>3. CASE /\ pc[c] \in {"drain", "empty", "pending"} /\ pc'[c] \in {"empty", "pending", "flush"}
           /\ buf'[c] = buf[c] /\ kicks'[c] = kicks[c]
  BY <1>0, <1>3
<1>4. CASE LookupTask(c) \/ TestAffinity(c)
  BY <1>0, <1>4, LookupFrom, AffinityFrom
<1>5. CASE InsertVtime(c)
  <2>1. CASE i \in 1 .. Len(buf[c])
    <3>1. i \in DOMAIN buf[c] /\ buf'[c][i] = buf[c][i] /\ i # Len(buf'[c])
          /\ pc[c] = "insert" /\ kicks'[c] = kicks[c]
      BY <1>5, <2>1, InsertFrom DEF NewInsert
    <3> QED
      BY <1>0, <3>1
  <2>2. CASE i = Len(buf[c]) + 1
    BY <1>5, <2>2, InsertFrom DEF NewInsert
  <2> QED
    BY <1>5, <2>1, <2>2, InsertFrom
<1>6. CASE CheckGeneration(c)
  BY <1>0, <1>6, CheckFrom
<1>7. CASE FinishDispatch(c)
  BY <1>0, <1>7, FinishFrom
<1> QED
  BY <1>1, <1>2, <1>3, <1>4, <1>5, <1>6, <1>7, EveryCPUMoves DEF CPUMoves

\* Every entry of a buffer was there before, or is the insert just made.
LEMMA BufferFrom ==
  ASSUME TypeOK, DrainInv, [Next]_vars, NEW c \in CPUs, NEW i \in DOMAIN buf'[c]
  PROVE  (\E j \in DOMAIN buf[c] : buf'[c][i] = buf[c][j]) \/ NewInsert(c, buf'[c][i])
<1>1. CASE InsertVtime(c)
  <2>1. i \in 1 .. Len(buf[c]) \/ i = Len(buf[c]) + 1
    BY <1>1, InsertFrom
  <2> QED
    BY <1>1, <2>1, InsertFrom
<1>2. CASE buf'[c] = buf[c] \/ buf'[c] = <<>>
  BY <1>2
<1>3. CASE LookupTask(c) \/ TestAffinity(c)
  BY <1>3, LookupFrom, AffinityFrom
<1>4. CASE CheckGeneration(c)
  BY <1>4, CheckFrom
<1>5. CASE FinishDispatch(c)
  BY <1>5, FinishFrom
<1> QED
  BY <1>1, <1>2, <1>3, <1>4, <1>5, EveryCPUMoves DEF CPUMoves

(***************************************************************************)
(* The targets of the inserts.                                             *)
(***************************************************************************)
\* Only the CPU that holds the ring takes a record from it.
LEMMA RingMoves ==
  ASSUME TypeOK, [Next]_vars
  PROVE  \/ dispatched' = dispatched
         \/ \E r \in Record : dispatched' = Append(dispatched, r)
         \/ \E k \in CPUs : pc[k] \in {"drain", "check"}
<1>1. ASSUME NEW t \in Tasks,
             \/ SelectDirect(t) \/ SelectEnqueue(t) \/ RemoteWake(t)
             \/ ChangeMask(t) \/ Requeue(t) \/ MoveWaiting(t) \/ Enqueue(t)
      PROVE  dispatched' = dispatched
  BY <1>1 DEF SelectDirect, SelectEnqueue, RemoteWake, ChangeMask, Requeue,
     MoveWaiting, Enqueue, ringVars
<1>2. ASSUME NEW k \in CPUs, DispatchTask(k)
      PROVE  dispatched' = dispatched \/ \E r \in Record : dispatched' = Append(dispatched, r)
  BY <1>2 DEF DispatchTask, TypeOK, UserTypes
<1>3. ASSUME NEW k \in CPUs, LookupTask(k) \/ CheckGeneration(k)
      PROVE  pc[k] \in {"drain", "check"}
  BY <1>3 DEF LookupTask, CheckGeneration
<1>4. ASSUME NEW k \in CPUs,
             \/ DequeueTask(k) \/ DequeueDone(k) \/ NotifyComplete(k) \/ SliceEnds(k)
             \/ Block(k) \/ MoveRunning(k) \/ IdleWakes(k) \/ DrainEmpty(k) \/ ReleaseRing(k)
             \/ TestAffinity(k) \/ InsertVtime(k) \/ TestPending(k)
             \/ FinishDispatch(k) \/ DispatchAgain(k)
      PROVE  dispatched' = dispatched
  BY <1>4 DEF DequeueTask, DequeueDone, NotifyComplete, SliceEnds, Block, MoveRunning,
     IdleWakes,
     DrainEmpty, ReleaseRing, TestAffinity, InsertVtime, TestPending, FinishDispatch,
     DispatchAgain, ringVars
<1>5. ASSUME NEW k \in CPUs,
             RunScheduler(k) \/ RunTask(k) \/ KeepPrev(k) \/ GoIdle(k)
      PROVE  dispatched' = dispatched
  BY <1>5 DEF RunScheduler, RunTask, KeepPrev, GoIdle, SwitchTo, ringVars
<1>6. ASSUME TimerFires \/ UNCHANGED vars PROVE dispatched' = dispatched
  BY <1>6 DEF TimerFires, vars, ringVars
<1> QED
  BY <1>1, <1>2, <1>3, <1>4, <1>5, <1>6 DEF Next, UserStep, DispatchStep

\* From the lookup to the insert of a CPU, the record stays at the head of the ring.
LEMMA HeadStays ==
  ASSUME TypeOK, DrainInv, [Next]_vars, NEW c \in CPUs, pc[c] \in {"test", "insert"}
  PROVE  Head(dispatched') = Head(dispatched)
<1>1. dispatched # <<>> /\ dispatched \in Seq(Record) /\ drainer = c
  BY DEF DrainInv, Draining, Looping, TypeOK, RingTypes
<1>2. \A k \in CPUs : pc[k] \notin {"drain", "check"}
  BY <1>1 DEF DrainInv, Draining, Looping
<1>3. ASSUME NEW r \in Record, dispatched' = Append(dispatched, r)
      PROVE  Head(dispatched') = Head(dispatched)
  <2>1. Len(dispatched) \in Nat /\ Len(dispatched) # 0
    BY <1>1, EmptySeq
  <2>2. /\ dispatched' \in Seq(Record) /\ dispatched' # <<>>
        /\ dispatched'[1] = dispatched[1]
    BY <1>1, <1>3, <2>1, AppendProperties
  <2>3. Head(dispatched') = dispatched'[1] /\ Head(dispatched) = dispatched[1]
    BY <1>1, <2>2, HeadTailProperties
  <2> QED
    BY <2>2, <2>3
<1> QED
  BY <1>2, <1>3, RingMoves

\* A record or an insert that is current and settled after a step was so before it,
\* and its task may use the same CPUs: a new affinity needs a new enqueue, and
\* ops.enqueue ignores only a task that the core is about to move.
LEMMA SettledStays ==
  ASSUME TypeOK, [Next]_vars, NEW r, r.pid \in Tasks, r.enq_cnt \in Nat,
         r.enq_cnt <= enq_cnt[r.pid], Settled(r)'
  PROVE  Settled(r) /\ allowed'[r.pid] = allowed[r.pid]
<1>1. enq_cnt[r.pid] \in Nat
  BY DEF TypeOK, TaskTypes
<1>2. /\ st'[r.pid] = "queued" /\ r.enq_cnt = enq_cnt'[r.pid]
      /\ tcpu'[r.pid] \in allowed'[r.pid]
  BY DEF Settled, Misplaced
<1>3. /\ st[r.pid] = "queued" /\ enq_cnt'[r.pid] = enq_cnt[r.pid]
      /\ tcpu'[r.pid] = tcpu[r.pid] /\ allowed'[r.pid] = allowed[r.pid]
  BY <1>1, <1>2, EveryTaskMoves DEF TaskMoves, Enqueueing, MayBeIgnored, Misplaced
<1> QED
  BY <1>2, <1>3 DEF Settled, Misplaced

LEMMA TargetStep ==
  ASSUME IInv, PlaceInv, [Next]_vars
  PROVE  TargetInv'
<1> USE DEF PlaceInv
<1>0. TypeOK /\ DrainInv /\ RecordInv /\ EntryInv
  BY DEF IInv
<1>1. ASSUME NEW c \in CPUs, pc'[c] \in {"test", "insert"}, NEW r, r = Head(dispatched'),
             Settled(r)'
      PROVE  tgt'[c] \in allowed'[r.pid]
  <2>1. CASE pc[c] \in {"test", "insert"}
    <3>1. r = Head(dispatched)
      BY <1>0, <1>1, <2>1, HeadStays
    <3>2. /\ dispatched # <<>> /\ dispatched \in Seq(Record)
      BY <1>0, <2>1 DEF DrainInv, TypeOK, RingTypes
    <3>3. r \in Record /\ r = dispatched[1] /\ 1 \in DOMAIN dispatched
      BY <3>1, <3>2, EmptySeq, HeadTailProperties
    <3>4. r.pid \in Tasks /\ r.enq_cnt \in Nat /\ r.enq_cnt <= enq_cnt[r.pid]
      BY <1>0, <3>3 DEF Record, RecordInv, NotAhead
    <3>5. Settled(r) /\ allowed'[r.pid] = allowed[r.pid]
      BY <1>0, <1>1, <3>4, SettledStays
    <3>6. tgt[c] \in allowed[r.pid]
      BY <2>1, <3>1, <3>5 DEF TargetInv
    <3>7. tgt'[c] = tgt[c] \/ tgt'[c] = Target(r, tgt[c])
      BY <1>0, <1>1, <2>1, <3>1, EveryCPUMoves, LookupFrom, AffinityFrom, InsertFrom,
         CheckFrom, FinishFrom DEF CPUMoves, NewInsert
    <3> QED
      BY <3>5, <3>6, <3>7 DEF Target
  <2>2. CASE pc[c] \notin {"test", "insert"}
    <3>1. LookupTask(c) /\ pc'[c] = "test"
      BY <1>0, <1>1, <2>2, EveryCPUMoves, LookupFrom, AffinityFrom, InsertFrom, CheckFrom,
         FinishFrom DEF CPUMoves, NewInsert
    <3>2. UNCHANGED taskVars /\ tgt'[c] = tcpu[r.pid]
      BY <1>0, <1>1, <3>1, LookupFrom
    <3> QED
      BY <1>1, <3>2 DEF Settled, Misplaced, taskVars
  <2> QED
    BY <2>1, <2>2
<1>2. ASSUME NEW c \in CPUs, NEW i \in DOMAIN buf'[c], NEW e, e = buf'[c][i], Settled(e)'
      PROVE  e.cpu \in allowed'[e.pid]
  <2>1. CASE \E j \in DOMAIN buf[c] : e = buf[c][j]
    <3>1. PICK j \in DOMAIN buf[c] : e = buf[c][j]
      BY <2>1
    <3>2. e.pid \in Tasks /\ e.enq_cnt \in Nat /\ e.enq_cnt <= enq_cnt[e.pid]
      BY <1>0, <3>1, BufferTypes DEF Entry, EntryInv, NotAhead
    <3>3. Settled(e) /\ allowed'[e.pid] = allowed[e.pid]
      BY <1>0, <1>2, <3>2, SettledStays
    <3> QED
      BY <3>1, <3>3 DEF TargetInv
  <2>2. CASE NewInsert(c, e)
    <3>1. /\ pc[c] = "insert" /\ e.cpu = tgt[c] /\ e.pid = Head(dispatched).pid
          /\ e.enq_cnt = Head(dispatched).enq_cnt /\ UNCHANGED taskVars
      BY <2>2 DEF NewInsert
    <3>2. Settled(Head(dispatched)) /\ allowed' = allowed
      BY <1>2, <3>1 DEF Settled, Misplaced, taskVars
    <3> QED
      BY <3>1, <3>2 DEF TargetInv
  <2> QED
    BY <1>0, <1>2, <2>1, <2>2, BufferFrom
<1> QED
  BY <1>1, <1>2 DEF TargetInv

(***************************************************************************)
(* Wake-ups.                                                               *)
(***************************************************************************)
\* A task newly in the queue of CPU c came with a kick of c, or c is busy.
LEMMA ArrivalsKick ==
  ASSUME IInv, PlaceInv, [Next]_vars, NEW c \in CPUs, curr[c] = Idle, pc[c] = "run",
         Runnable(c, c) = {}, Runnable(c, c)' # {}
  PROVE  kicked'[c] \/ \E k \in CPUs : c \in kicks'[k]
<1> DEFINE Woken == kicked'[c] \/ \E k \in CPUs : c \in kicks'[k]
<1> USE DEF PlaceInv
<1>0. /\ TypeOK /\ c \in Queues /\ Shared # c
      /\ st \in [Tasks -> States] /\ allowed \in [Tasks -> Masks]
      /\ \A i \in DOMAIN dsq[c] : dsq[c][i] \in Tasks
  BY ElementOfSeq DEF IInv, TypeOK, TaskTypes, QueueTypes, Queues
<1>1. ASSUME UNCHANGED <<dsq, allowed>> PROVE Woken
  BY <1>1 DEF Runnable
<1>2. ASSUME NEW ks, Kick(ks), c \in ks PROVE Woken
  BY <1>2 DEF Kick, CanKick
<1>3. ASSUME NEW t \in Tasks, NEW d \in Queues, Place(t, d), UNCHANGED allowed,
             d = c => Woken
      PROVE  Woken
  <2>1. CASE d # c
    <3>1. dsq'[c] = dsq[c]
      BY <1>0, <1>3, <2>1, PlaceElements
    <3> QED
      BY <1>3, <3>1 DEF Runnable
  <2> QED
    BY <1>3, <2>1
<1>4. ASSUME NEW t \in Tasks, SelectDirect(t) PROVE Woken
  <2>1. PICK d \in CPUs : Place(t, d) /\ Kick({d})
    BY <1>0, <1>4, MaskCPUs DEF SelectDirect, PickIdle, TypeOK
  <2>2. UNCHANGED allowed /\ d \in Queues
    BY <1>4 DEF SelectDirect, Queues
  <2> QED
    BY <1>2, <1>3, <2>1, <2>2
<1>5. ASSUME NEW t \in Tasks, Requeue(t) \/ MoveWaiting(t) PROVE Woken
  <2>1. Left(t) /\ (allowed' = allowed \/ \E m : allowed' = [allowed EXCEPT ![t] = m])
    BY <1>0, <1>5, LeaveLeft DEF Requeue, MoveWaiting, Move, TypeOK
  <2>2. PICK i \in DOMAIN dsq'[c] : c \in allowed'[dsq'[c][i]]
    BY DEF Runnable
  <2>3. PICK j \in DOMAIN dsq[c] : dsq'[c][i] = dsq[c][j] /\ dsq'[c][i] # t
    BY <1>0, <2>1, LeftElements
  <2>4. c \in allowed[dsq[c][j]]
    BY <1>0, <2>1, <2>2, <2>3
  <2> QED
    BY <2>4 DEF Runnable
<1>6. ASSUME NEW t \in Tasks, Enqueue(t) PROVE Woken
  <2>1. UNCHANGED allowed
    BY <1>6 DEF Enqueue
  <2>2. CASE UNCHANGED dsq
    BY <1>1, <2>1, <2>2
  <2>3. CASE \E d \in Queues : /\ Place(t, d)
                               /\ d # Shared => Kick({d}) \/ (st[t] = "preempted" /\ d = tcpu[t])
    <3>1. PICK d \in Queues : /\ Place(t, d)
                              /\ d # Shared => Kick({d}) \/ (st[t] = "preempted" /\ d = tcpu[t])
      BY <2>3
    <3>2. st[t] = "preempted" => tcpu[t] # c
      BY DEF RunsOnce
    <3> QED
      BY <1>0, <1>2, <1>3, <2>1, <3>1, <3>2
  <2> QED
    BY <1>0, <1>6, <2>2, <2>3, EnqueueEffect
<1>7. ASSUME NEW k \in CPUs, FinishDispatch(k) PROVE Woken
  <2> DEFINE e == Head(buf[k])
  <2>1. /\ e \in Entry /\ 1 \in DOMAIN buf[k] /\ e = buf[k][1]
        /\ pc[k] = "flush" /\ UNCHANGED <<allowed, kicks>>
    BY <1>0, <1>7, EmptySeq, HeadTailProperties DEF FinishDispatch, TypeOK, CPUTypes
  <2>2. e.pid \in Tasks /\ e.cpu \in Queues /\ e.cpu \in kicks'[k]
    BY <2>1 DEF Entry, Queues, KickInv
  <2>3. UNCHANGED dsq \/ Place(e.pid, e.cpu)
    BY <1>7 DEF FinishDispatch
  <2> QED
    BY <1>1, <1>3, <2>1, <2>2, <2>3
<1>8. ASSUME NEW k \in CPUs, RunTask(k) PROVE Woken
  <2>1. UNCHANGED allowed /\ \E n \in Tasks : Left(n)
    BY <1>0, <1>8, RunTaskEffect DEF SwitchTo
  <2>2. PICK i \in DOMAIN dsq'[c] : c \in allowed'[dsq'[c][i]]
    BY DEF Runnable
  <2>3. PICK j \in DOMAIN dsq[c] : dsq'[c][i] = dsq[c][j]
    BY <1>0, <2>1, LeftElements
  <2> QED
    BY <2>1, <2>2, <2>3 DEF Runnable
<1>9. ASSUME NEW t \in Tasks, SelectEnqueue(t) \/ RemoteWake(t) PROVE Woken
  BY <1>1, <1>9 DEF SelectEnqueue, RemoteWake
<1>10. ASSUME NEW k \in CPUs,
             \/ DequeueTask(k) \/ DequeueDone(k) \/ DispatchTask(k)
             \/ NotifyComplete(k) \/ SliceEnds(k) \/ Block(k) \/ MoveRunning(k) \/ IdleWakes(k)
             \/ DrainEmpty(k) \/ ReleaseRing(k) \/ LookupTask(k) \/ TestAffinity(k) \/ InsertVtime(k)
             \/ CheckGeneration(k) \/ TestPending(k) \/ DispatchAgain(k)
       PROVE  Woken
  BY <1>1, <1>10 DEF DequeueTask, DequeueDone, DispatchTask, NotifyComplete, SliceEnds,
     Block, MoveRunning, Move, IdleWakes, DrainEmpty, ReleaseRing, LookupTask, TestAffinity,
     InsertVtime, CheckGeneration, TestPending, DispatchAgain, taskVars
<1>11. ASSUME NEW k \in CPUs, RunScheduler(k) \/ KeepPrev(k) \/ GoIdle(k) PROVE Woken
  BY <1>1, <1>11 DEF RunScheduler, KeepPrev, GoIdle, SwitchTo
<1>12. ASSUME TimerFires \/ UNCHANGED vars PROVE Woken
  BY <1>1, <1>12 DEF TimerFires, taskVars, vars
<1>13. ASSUME NEW t \in Tasks, ChangeMask(t) PROVE Woken
  <2>1. /\ st[t] # "dsq" /\ UNCHANGED dsq
        /\ \E m : allowed' = [allowed EXCEPT ![t] = m]
    BY <1>13 DEF ChangeMask
  <2>2. \A i \in DOMAIN dsq[c] : allowed'[dsq[c][i]] = allowed[dsq[c][i]]
    BY <1>0, <2>1 DEF WaitsOnce
  <2> QED
    BY <2>1, <2>2 DEF Runnable
<1> QED
  BY <1>4, <1>5, <1>6, <1>7, <1>8, <1>9, <1>10, <1>11, <1>12, <1>13
     DEF Next, UserStep, DispatchStep

\* A request to reschedule an idle CPU is kept, or delivered, or served.
LEMMA KicksLast ==
  ASSUME TypeOK, [Next]_vars, NEW c \in CPUs, curr[c] = Idle, pc[c] = "run",
         pc'[c] = "run", kicked[c] \/ \E k \in CPUs : c \in kicks[k]
  PROVE  kicked'[c] \/ \E k \in CPUs : c \in kicks'[k]
<1> DEFINE Woken == kicked'[c] \/ \E k \in CPUs : c \in kicks'[k]
<1>0. /\ pc \in [CPUs -> Steps] /\ kicked \in [CPUs -> BOOLEAN]
      /\ kicks \in [CPUs -> SUBSET CPUs]
  BY DEF TypeOK, CPUTypes, FlagTypes
<1>1. ASSUME UNCHANGED kicked \/ (\E ks : Kick(ks)), \A k \in CPUs : kicks[k] \subseteq kicks'[k]
      PROVE  Woken
  BY <1>1 DEF Kick
<1>2. ASSUME NEW k \in CPUs, NEW n, SwitchTo(k, n), pc[k] = "flush" PROVE Woken
  <2>1. /\ k # c
        /\ kicked'[c] = (kicked[c] \/ (c \in kicks[k] /\ CanKick(c)))
        /\ \A f \in CPUs \ {k} : kicks'[f] = kicks[f]
    BY <1>0, <1>2 DEF SwitchTo
  <2> QED
    BY <2>1 DEF CanKick
<1>3. ASSUME NEW t \in Tasks,
             \/ SelectDirect(t) \/ SelectEnqueue(t) \/ RemoteWake(t)
             \/ ChangeMask(t) \/ Requeue(t) \/ MoveWaiting(t) \/ Enqueue(t)
      PROVE  Woken
  <2>1. CASE Enqueue(t)
    <3>1. UNCHANGED kicks
      BY <2>1 DEF Enqueue, cpuVars
    <3>2. \E ks : Kick(ks)
      <4>1. CASE \E k \in PickIdle(t) : EnqueueIdle(t, k)
        BY <4>1 DEF EnqueueIdle
      <4> QED
        BY <2>1, <4>1 DEF Enqueue
    <3> QED
      BY <1>1, <3>1, <3>2
  <2>2. CASE ~Enqueue(t)
    <3>1. UNCHANGED kicks /\ (UNCHANGED kicked \/ \E ks : Kick(ks))
      BY <1>3, <2>2 DEF SelectDirect, SelectEnqueue, RemoteWake, ChangeMask, Requeue,
       MoveWaiting, cpuVars
    <3> QED
      BY <1>1, <3>1
  <2> QED
    BY <2>1, <2>2
<1>4. ASSUME NEW k \in CPUs, IdleWakes(k) PROVE Woken
  <2>1. /\ kicked' = [kicked EXCEPT ![k] = FALSE] /\ UNCHANGED kicks
        /\ \E p \in {"drain", "pending"} : pc' = [pc EXCEPT ![k] = p]
    BY <1>4 DEF IdleWakes, DispatchEntry
  <2>2. k # c
    BY <1>0, <2>1
  <2> QED
    BY <1>0, <2>1, <2>2
<1>5. ASSUME NEW k \in CPUs, CheckGeneration(k) PROVE Woken
  <2>1. /\ UNCHANGED kicked
        /\ kicks' = kicks \/ kicks' = [kicks EXCEPT ![k] = @ \union WokenBy(k)]
    BY <1>5 DEF CheckGeneration
  <2> QED
    BY <1>0, <1>1, <2>1
<1>6. ASSUME NEW k \in CPUs,
             \/ DequeueTask(k) \/ DequeueDone(k) \/ DispatchTask(k)
             \/ NotifyComplete(k) \/ SliceEnds(k) \/ Block(k) \/ MoveRunning(k)
             \/ DrainEmpty(k) \/ ReleaseRing(k) \/ LookupTask(k) \/ TestAffinity(k) \/ InsertVtime(k)
             \/ TestPending(k) \/ FinishDispatch(k) \/ DispatchAgain(k)
      PROVE  Woken
  <2>1. UNCHANGED <<kicked, kicks>>
    BY <1>6 DEF DequeueTask, DequeueDone, DispatchTask, NotifyComplete, SliceEnds,
       Block, MoveRunning, DrainEmpty, ReleaseRing, LookupTask, TestAffinity, InsertVtime, TestPending,
       FinishDispatch, DispatchAgain, cpuVars
  <2> QED
    BY <1>1, <2>1
<1>7. ASSUME NEW k \in CPUs, RunScheduler(k) \/ RunTask(k) \/ KeepPrev(k) \/ GoIdle(k)
      PROVE  Woken
  BY <1>2, <1>7 DEF RunScheduler, RunTask, KeepPrev, GoIdle, Picking
<1>8. ASSUME TimerFires \/ UNCHANGED vars PROVE Woken
  <2>1. UNCHANGED kicks /\ (UNCHANGED kicked \/ \E ks : Kick(ks))
    BY <1>8 DEF TimerFires, vars, cpuVars
  <2> QED
    BY <1>1, <2>1
<1> QED
  BY <1>3, <1>4, <1>5, <1>6, <1>7, <1>8 DEF Next, UserStep, DispatchStep

\* A CPU goes idle only when its queue has nothing it may run.
LEMMA SleepStarts ==
  ASSUME TypeOK, WaitsOnce, [Next]_vars, NEW c \in CPUs, curr'[c] = Idle, pc'[c] = "run",
         ~(curr[c] = Idle /\ pc[c] = "run")
  PROVE  Runnable(c, c)' = {}
<1>0. /\ pc \in [CPUs -> Steps] /\ curr \in [CPUs -> Tasks \union {Sched, Idle}]
  BY DEF TypeOK, CPUTypes
<1>1. GoIdle(c)
  <2>1. ASSUME UNCHANGED <<curr, pc>> PROVE FALSE
    BY <2>1
  <2>2. ASSUME NEW k \in CPUs, NEW p, p # "run", pc' = [pc EXCEPT ![k] = p],
               curr' = curr \/ \E n : curr' = [curr EXCEPT ![k] = n]
        PROVE  FALSE
    BY <1>0, <2>2
  <2>3. ASSUME NEW k \in CPUs, NEW n, SwitchTo(k, n), k = c => n # Idle PROVE FALSE
    BY <1>0, <2>3 DEF SwitchTo
  <2>4. ASSUME NEW t \in Tasks,
               \/ SelectDirect(t) \/ SelectEnqueue(t) \/ RemoteWake(t)
               \/ ChangeMask(t) \/ Requeue(t) \/ MoveWaiting(t) \/ Enqueue(t)
        PROVE  FALSE
    BY <2>1, <2>4 DEF SelectDirect, SelectEnqueue, RemoteWake, ChangeMask, Requeue,
     MoveWaiting, Enqueue, cpuVars
  <2>5. ASSUME NEW k \in CPUs,
               \/ NotifyComplete(k) \/ SliceEnds(k) \/ Block(k) \/ MoveRunning(k) \/ IdleWakes(k)
               \/ DispatchAgain(k)
        PROVE  FALSE
    BY <2>2, <2>5 DEF NotifyComplete, SliceEnds, Block, MoveRunning, IdleWakes, DispatchAgain,
       DispatchEntry
  <2>6. ASSUME NEW k \in CPUs,
               \/ DrainEmpty(k) \/ ReleaseRing(k) \/ LookupTask(k) \/ TestAffinity(k) \/ InsertVtime(k)
               \/ CheckGeneration(k) \/ TestPending(k)
        PROVE  FALSE
    <3>1. UNCHANGED curr /\ (pc' = pc \/ \E p : p # "run" /\ pc' = [pc EXCEPT ![k] = p])
      BY <2>6 DEF DrainEmpty, ReleaseRing, LookupTask, TestAffinity, InsertVtime,
         CheckGeneration,
                  TestPending, StopDraining
    <3> QED
      BY <2>1, <2>2, <3>1
  <2>7. ASSUME NEW k \in CPUs,
               DequeueTask(k) \/ DequeueDone(k) \/ DispatchTask(k) \/ FinishDispatch(k)
        PROVE  FALSE
    BY <2>1, <2>7 DEF DequeueTask, DequeueDone, DispatchTask, FinishDispatch, cpuVars
  <2>8. ASSUME NEW k \in CPUs, RunTask(k) PROVE FALSE
    BY <2>3, <2>8, RunTaskEffect
  <2>9. ASSUME NEW k \in CPUs, RunScheduler(k) \/ KeepPrev(k) PROVE FALSE
    BY <2>3, <2>9 DEF RunScheduler, KeepPrev
  <2>10. ASSUME NEW k \in CPUs, GoIdle(k), k # c PROVE FALSE
    BY <2>3, <2>10 DEF GoIdle
  <2>11. ASSUME TimerFires \/ UNCHANGED vars PROVE FALSE
    BY <2>1, <2>11 DEF TimerFires, vars, cpuVars
  <2> QED
    BY <2>4, <2>5, <2>6, <2>7, <2>8, <2>9, <2>10, <2>11 DEF Next, UserStep, DispatchStep
<1>2. Runnable(c, c) = {} /\ UNCHANGED <<dsq, allowed>>
  BY <1>1 DEF GoIdle, NothingToRun, SwitchTo
<1> QED
  BY <1>2 DEF Runnable

LEMMA StrandedStep ==
  ASSUME IInv, PlaceInv, [Next]_vars
  PROVE  NoStrandedWork'
<1> SUFFICES ASSUME NEW c \in CPUs, curr'[c] = Idle, pc'[c] = "run", Runnable(c, c)' # {}
             PROVE  kicked'[c] \/ \E k \in CPUs : c \in kicks'[k]
  BY DEF NoStrandedWork
<1>0. TypeOK /\ WaitsOnce
  BY DEF IInv, PlaceInv
<1>1. curr[c] = Idle /\ pc[c] = "run"
  BY <1>0, SleepStarts
<1>2. CASE Runnable(c, c) = {}
  BY <1>1, <1>2, ArrivalsKick
<1>3. CASE Runnable(c, c) # {}
  <2>1. kicked[c] \/ \E k \in CPUs : c \in kicks[k]
    BY <1>1, <1>3 DEF PlaceInv, NoStrandedWork
  <2> QED
    BY <1>0, <1>1, <2>1, KicksLast
<1> QED
  BY <1>2, <1>3

(***************************************************************************)
(* The theorems.                                                           *)
(***************************************************************************)
LEMMA PlaceInit == Init => PlaceInv
<1> SUFFICES ASSUME Init PROVE PlaceInv
  OBVIOUS
<1>1. /\ \A c \in CPUs : curr[c] \notin Tasks /\ pc[c] = "run" /\ buf[c] = <<>>
      /\ \A t \in Tasks : st[t] = "sleeping"
      /\ \A d \in Queues : dsq[d] = <<>>
  BY DEF Init
<1>2. WaitsOnce
  BY <1>1 DEF WaitsOnce
<1>3. RunsOnce
  BY <1>1 DEF RunsOnce
<1>4. TargetInv /\ KickInv
  BY <1>1 DEF TargetInv, KickInv
<1>5. NoStrandedWork
  BY <1>1 DEF NoStrandedWork, Runnable, Queues
<1> QED
  BY <1>2, <1>3, <1>4, <1>5 DEF PlaceInv

LEMMA PlaceStep == IInv /\ PlaceInv /\ [Next]_vars => PlaceInv'
<1> SUFFICES ASSUME IInv, PlaceInv, [Next]_vars PROVE PlaceInv'
  OBVIOUS
<1>1. /\ TypeOK /\ DrainInv
      /\ WaitsOnce /\ RunsOnce /\ KickInv
  BY DEF IInv, PlaceInv
<1>2. WaitsOnce' /\ RunsOnce'
  BY <1>1, WaitsStep, RunsStep
<1>3. TargetInv' /\ NoStrandedWork'
  BY TargetStep, StrandedStep
<1>4. KickInv'
  BY <1>1, KickStep
<1> QED
  BY <1>2, <1>3, <1>4 DEF PlaceInv

\* Tasks wait in one queue or run on one CPU, the target of a current record is a
\* CPU of the mask unless the core is about to move the task, and every insert that
\* passed its test has its kick pending, for every number of tasks and CPUs.
THEOREM InductivePlaces == Spec => []PlaceInv
<1>1. Init => PlaceInv
  BY PlaceInit
<1>2. IInv /\ PlaceInv /\ [Next]_vars => PlaceInv'
  BY PlaceStep
<1> QED
  BY <1>1, <1>2, InductiveInvariant, PTL DEF Spec

\* A task is never in two queues, twice in one, or in a queue while a CPU runs it;
\* and no two CPUs run it: the drains, the cancelled inserts and the sequence
\* numbers never dispatch one task twice.
THEOREM OnePlacePerTask ==
  Spec => [](WaitsOnce
             /\ \A c, k \in CPUs : curr[c] \in Tasks /\ curr[c] = curr[k] => c = k)
<1>1. PlaceInv => WaitsOnce
                  /\ \A c, k \in CPUs : curr[c] \in Tasks /\ curr[c] = curr[k] => c = k
  BY DEF PlaceInv, RunsOnce
<1> QED
  BY <1>1, InductivePlaces, PTL

\* dispatch_task tests an affinity mask that may change before its insert: the
\* generation test and the core's sequence number make up for it, except in the
\* window between a sequence number and its ops.enqueue, and for a task that is on a
\* CPU it may not use until the core has moved it.
THEOREM AffinityKept == Spec => []AffinityRespected
<1>1. IInv /\ PlaceInv => AffinityRespected
  <2> SUFFICES ASSUME IInv, PlaceInv, NEW c \in CPUs, NEW i \in DOMAIN buf[c],
                      NEW e, e = buf[c][i], Claims(e), ~e.overlap,
                      ~(pc[c] = "check" /\ i = Len(buf[c])), ~Misplaced(e.pid)
               PROVE  e.cpu \in allowed[e.pid]
    BY DEF AffinityRespected
  <2>1. e.enq_cnt = enq_cnt[e.pid]
    BY DEF IInv, FreshClaims
  <2>2. st[e.pid] = "queued"
    BY DEF Claims
  <2> QED
    BY <2>1, <2>2 DEF PlaceInv, TargetInv, Settled
<1> QED
  BY <1>1, InductiveInvariant, InductivePlaces, PTL

\* No wake-up is lost between dispatch_task, the kicks and the CPUs that go idle.
THEOREM WakeupsKept == Spec => []NoStrandedWork
<1>1. PlaceInv => NoStrandedWork
  BY DEF PlaceInv
<1> QED
  BY <1>1, InductivePlaces, PTL
=============================================================================
