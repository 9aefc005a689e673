------------------------ MODULE RequestConnectionProofs ------------------------
(***************************************************************************)
(* Safety of RequestConnection, and that it implements RequestService, for *)
(* every set of clients, profiles and requests.                            *)
(*                                                                         *)
(* Each part of IInv has a lemma for the steps of Next; the refinement has *)
(* one for the steps the abstract service does not see and one for each    *)
(* kind of step it does.                                                   *)
(***************************************************************************)
EXTENDS RequestConnection, TLAPS

(***************************************************************************)
(* The handler.                                                            *)
(***************************************************************************)
\* What the handler may return is what the abstract service allows.
LEMMA ResultsAllowed ==
  ASSUME NEW r \in Requests, memory \in Profiles, NEW res \in Results(r)
  PROVE  /\ res.answer \in Answers /\ res.profile \in Profiles
         /\ [answer |-> res.answer, value |-> res.profile] \in Service!Effects(r, memory)
<1>1. r \in SocketRequests /\ (r.type = "set-profile" => r.profile \in Profiles)
  BY RequestAssumption
<1>2. r.type \in SocketTypes
  BY <1>1 DEF SocketRequests
<1>3. /\ res.answer = "error" \/ res.answer = (IF Reads(r) THEN memory ELSE "success")
      /\ res.answer = "error" => ~Reads(r) /\ res.profile \in {memory, Wanted(r)}
      /\ res.answer # "error" => res.profile = Wanted(r)
  BY RequestAssumption DEF Results, MockResults, ScxResults
<1>4. CASE r.type = "set-profile"
  <2>1. ~Reads(r) /\ Wanted(r) = r.profile
    BY <1>4 DEF Reads, Wanted, ToRequest
  <2>2. Service!Effects(r, memory) = {[answer |-> "success", value |-> r.profile]}
                       \union [answer : {"error"}, value : {memory, r.profile}]
    BY <1>4 DEF Service!Effects
  <2> QED
    BY <1>1, <1>3, <1>4, <2>1, <2>2 DEF Answers
<1>5. CASE r.type \in {"start", "stop"}
  <2>1. ~Reads(r) /\ Wanted(r) = memory
    BY <1>5 DEF Reads, Wanted, ToRequest
  <2>2. Service!Effects(r, memory) = [answer : {"success", "error"}, value : {memory}]
    BY <1>5 DEF Service!Effects
  <2> QED
    BY <1>3, <2>1, <2>2 DEF Answers
<1>6. CASE r.type \in {"status", "get-profile", "shutdown", "ping"}
  <2>1. Reads(r) /\ Wanted(r) = memory
    BY <1>6 DEF Reads, Wanted, ToRequest
  <2>2. Service!Effects(r, memory) = {[answer |-> memory, value |-> memory]}
    BY <1>6 DEF Service!Effects
  <2> QED
    BY <1>3, <2>1, <2>2 DEF Answers
<1> QED
  BY <1>2, <1>4, <1>5, <1>6 DEF SocketTypes

\* What HandleRequest leaves behind.
LEMMA HandledResult ==
  ASSUME TypeOK, NEW k \in Clients, HandleRequest(k)
  PROVE  /\ memory' \in Profiles
         /\ answer'[k] \in Answers
         /\ answer' = [answer EXCEPT ![k] = answer'[k]]
         /\ [answer |-> answer'[k], value |-> memory'] \in Service!Effects(request[k], memory)
<1>1. PICK res \in Results(request[k]) :
        answer' = [answer EXCEPT ![k] = res.answer] /\ memory' = res.profile
  BY DEF HandleRequest
<1>2. request[k] \in Requests /\ memory \in Profiles /\ answer'[k] = res.answer
  BY <1>1 DEF TypeOK
<1> QED
  BY <1>1, <1>2, ResultsAllowed

LEMMA LoadType == TypeOK => Load \in Profiles
  BY RequestAssumption DEF TypeOK, Load

\* An answer is never mistaken for the absence of one.
LEMMA AnswerExists == NoAnswer \notin Answers
  BY RequestAssumption DEF Answers

(***************************************************************************)
(* The inductive invariant.                                                *)
(***************************************************************************)
LEMMA InitHolds == Init => IInv
<1> SUFFICES ASSUME Init PROVE IInv
  OBVIOUS
<1> USE RequestAssumption DEF Init
<1>1. TypeOK
  BY DEF TypeOK, Phases, Tasks, Answers
<1>2. LockInv
  BY DEF LockInv
<1>3. DurableInv
  BY DEF DurableInv
<1>4. AnswerInv
  BY DEF AnswerInv
<1>5. RefusalInv
  BY DEF RefusalInv
<1>6. FailuresExplained
  BY DEF FailuresExplained
<1> QED
  BY <1>1, <1>2, <1>3, <1>4, <1>5, <1>6 DEF IInv

LEMMA TypeStep ==
  ASSUME TypeOK, RefusalInv, [Next]_vars
  PROVE  TypeOK'
<1> USE DEF TypeOK, daemonVars, clientVars, Phases, Tasks
<1>1. ASSUME NEW k \in Clients, Connect(k) PROVE TypeOK'
  <2>1. PICK r \in Requests : /\ request' = [request EXCEPT ![k] = r]
                              /\ unsent' = [unsent EXCEPT ![k] = r.segments]
    BY <1>1 DEF Connect
  <2>2. r.segments \in Nat
    BY RequestAssumption DEF SocketRequests
  <2>3. /\ client' \in {[client EXCEPT ![k] = c] : c \in {"writing", "error"}}
        /\ task' \in {task, [task EXCEPT ![k] = "backlog"]}
        /\ cut' \in {cut, [cut EXCEPT ![k] = TRUE]}
    BY <1>1 DEF Connect
  <2>4. client' \in [Clients -> Phases]
    BY <2>3 DEF Ended
  <2>5. task' \in [Clients -> Tasks] /\ cut' \in [Clients -> BOOLEAN]
    BY <2>3
  <2> QED
    BY <1>1, <2>1, <2>2, <2>4, <2>5 DEF Connect
<1>2. ASSUME NEW k \in Clients, WriteRequest(k) PROVE TypeOK'
  <2>1. unsent[k] \in Nat /\ unsent[k] > 0 /\ inbox[k] \in Nat
    BY <1>2 DEF WriteRequest, RefusalInv
  <2>2. unsent[k] - 1 \in Nat /\ inbox[k] + 1 \in Nat
    BY <2>1
  <2>3. unsent' \in [Clients -> Nat] /\ inbox' \in [Clients -> Nat]
    BY <1>2, <2>2 DEF WriteRequest
  <2>4. client' \in [Clients -> Phases]
    BY <1>2 DEF WriteRequest, Ended
  <2> QED
    BY <1>2, <2>3, <2>4 DEF WriteRequest
<1>3. ASSUME NEW k \in Clients, ReadAnswer(k) PROVE TypeOK'
  BY <1>3 DEF ReadAnswer, Ended
<1>4. ASSUME NEW k \in Clients, Interrupt(k) PROVE TypeOK'
  BY <1>4 DEF Interrupt, Ended
<1>5. ASSUME NEW k \in Clients, Leave(k) PROVE TypeOK'
  BY <1>5 DEF Leave
<1>6. CASE Boot
  BY <1>6, LoadType DEF Boot, LoadConfig
<1>7. ASSUME Drop PROVE /\ up' \in BOOLEAN /\ backend' \in {"mock", "scx"} /\ holder' \in Clients \union {Nobody}
                        /\ memory' \in Profiles
                        /\ client' \in [Clients -> Phases] /\ request' \in [Clients -> Requests]
                        /\ unsent' \in [Clients -> Nat] /\ inbox' \in [Clients -> Nat]
                        /\ task' \in [Clients -> Tasks]
                        /\ answer' \in [Clients -> Answers \union {NoAnswer}]
                        /\ received' \in [Clients -> Answers \union {NoAnswer}]
                        /\ cut' \in [Clients -> BOOLEAN]
  BY <1>7 DEF Drop
<1>8. CASE Die
  BY <1>7, <1>8 DEF Die
<1>9. CASE AcceptFails
  BY <1>7, <1>9 DEF AcceptFails
<1>10. ASSUME NEW k \in Clients, Accept(k) PROVE TypeOK'
  BY <1>10 DEF Accept
<1>11. ASSUME NEW k \in Clients, ReadRequest(k) PROVE TypeOK'
  BY <1>11 DEF ReadRequest
<1>12. ASSUME NEW k \in Clients, Lock(k) PROVE TypeOK'
  BY <1>12 DEF Lock
<1>13. ASSUME NEW k \in Clients, HandleRequest(k) PROVE TypeOK'
  <2>1. answer' \in [Clients -> Answers \union {NoAnswer}] /\ memory' \in Profiles
    BY <1>13, HandledResult
  <2> QED
    BY <1>13, <2>1 DEF HandleRequest
<1>14. ASSUME NEW k \in Clients, SaveState(k) PROVE TypeOK'
  BY <1>14 DEF SaveState
<1>15. ASSUME NEW k \in Clients, WriteResponse(k) PROVE TypeOK'
  BY <1>15 DEF WriteResponse
<1>16. CASE UNCHANGED vars
  BY <1>16 DEF vars
<1> QED
  BY <1>1, <1>2, <1>3, <1>4, <1>5, <1>6, <1>8, <1>9, <1>10, <1>11, <1>12, <1>13,
     <1>14, <1>15, <1>16 DEF Next, ClientStep, TaskStep

LEMMA LockStep ==
  ASSUME TypeOK, LockInv, AnswerInv, [Next]_vars
  PROVE  LockInv'
<1> USE DEF LockInv, TypeOK, daemonVars, clientVars
<1>1. ASSUME NEW k \in Clients, Connect(k) PROVE LockInv'
  BY <1>1 DEF Connect, AnswerInv
<1>2. ASSUME NEW k \in Clients, ClientStep(k), ~Connect(k) PROVE LockInv'
  BY <1>2 DEF ClientStep, WriteRequest, ReadAnswer, Interrupt, Leave
<1>3. CASE Boot
  BY <1>3 DEF Boot
<1>4. CASE Die \/ AcceptFails
  BY <1>4, RequestAssumption DEF Die, AcceptFails, Drop
<1>5. ASSUME NEW k \in Clients, Accept(k) PROVE LockInv'
  BY <1>5 DEF Accept
<1>6. ASSUME NEW k \in Clients, ReadRequest(k) PROVE LockInv'
  BY <1>6 DEF ReadRequest
<1>7. ASSUME NEW k \in Clients, Lock(k) PROVE LockInv'
  BY <1>7, RequestAssumption DEF Lock
<1>8. ASSUME NEW k \in Clients, HandleRequest(k) PROVE LockInv'
  BY <1>8 DEF HandleRequest
<1>9. ASSUME NEW k \in Clients, SaveState(k) PROVE LockInv'
  BY <1>9, RequestAssumption DEF SaveState
<1>10. ASSUME NEW k \in Clients, WriteResponse(k) PROVE LockInv'
  BY <1>10 DEF WriteResponse
<1>11. CASE UNCHANGED vars
  BY <1>11 DEF vars
<1> QED
  BY <1>1, <1>2, <1>3, <1>4, <1>5, <1>6, <1>7, <1>8, <1>9, <1>10, <1>11
  DEF Next, TaskStep

LEMMA AnswerStep ==
  ASSUME TypeOK, AnswerInv, [Next]_vars
  PROVE  AnswerInv'
<1> USE DEF AnswerInv, TypeOK, daemonVars, clientVars
<1>1. ASSUME NEW k \in Clients, Connect(k) PROVE AnswerInv'
  BY <1>1 DEF Connect
<1>2. ASSUME NEW k \in Clients, WriteRequest(k) PROVE AnswerInv'
  BY <1>2 DEF WriteRequest
<1>3. ASSUME NEW k \in Clients, ReadAnswer(k) PROVE AnswerInv'
  BY <1>3 DEF ReadAnswer
<1>4. ASSUME NEW k \in Clients, Interrupt(k) PROVE AnswerInv'
  BY <1>4 DEF Interrupt
<1>5. ASSUME NEW k \in Clients, Leave(k) PROVE AnswerInv'
  BY <1>5 DEF Leave
<1>6. CASE Boot
  BY <1>6 DEF Boot
<1>7. CASE Die \/ AcceptFails
  BY <1>7 DEF Die, AcceptFails, Drop
<1>8. ASSUME NEW k \in Clients, Accept(k) PROVE AnswerInv'
  BY <1>8 DEF Accept
<1>9. ASSUME NEW k \in Clients, ReadRequest(k) PROVE AnswerInv'
  BY <1>9 DEF ReadRequest
<1>10. ASSUME NEW k \in Clients, Lock(k) PROVE AnswerInv'
  BY <1>10 DEF Lock
<1>11. ASSUME NEW k \in Clients, HandleRequest(k) PROVE AnswerInv'
  <2>1. /\ answer'[k] \in Answers
        /\ answer' = [answer EXCEPT ![k] = answer'[k]]
    BY <1>11, HandledResult
  <2>2. answer'[k] # NoAnswer
    BY <2>1, AnswerExists
  <2> QED
    BY <1>11, <2>1, <2>2 DEF HandleRequest
<1>12. ASSUME NEW k \in Clients, SaveState(k) PROVE AnswerInv'
  BY <1>12 DEF SaveState
<1>13. ASSUME NEW k \in Clients, WriteResponse(k) PROVE AnswerInv'
  BY <1>13 DEF WriteResponse, Ended
<1>14. CASE UNCHANGED vars
  BY <1>14 DEF vars
<1> QED
  BY <1>1, <1>2, <1>3, <1>4, <1>5, <1>6, <1>7, <1>8, <1>9, <1>10, <1>11, <1>12,
     <1>13, <1>14 DEF Next, ClientStep, TaskStep

LEMMA DurableStep ==
  ASSUME TypeOK, LockInv, DurableInv, AnswerInv, [Next]_vars
  PROVE  DurableInv'
<1> USE DEF DurableInv, TypeOK, daemonVars, clientVars
<1>1. ASSUME NEW k \in Clients, Connect(k) PROVE DurableInv'
  <2>1. task[k] = "none"
    BY <1>1 DEF Connect, AnswerInv
  <2>2. task' \in {task, [task EXCEPT ![k] = "backlog"]}
        /\ \A j \in Clients \ {k} : request'[j] = request[j]
    BY <1>1 DEF Connect
  <2>3. UNCHANGED <<up, holder, memory, disk, degraded, answer>>
    BY <1>1 DEF Connect
  <2>4. \A j \in Clients : task'[j] \in {"handle", "save"} =>
          j # k /\ task[j] = task'[j] /\ request'[j] = request[j]
    BY <2>1, <2>2
  <2> QED
    BY <2>3, <2>4
<1>2. ASSUME NEW k \in Clients, WriteRequest(k) PROVE DurableInv'
  BY <1>2 DEF WriteRequest
<1>3. ASSUME NEW k \in Clients, ReadAnswer(k) \/ Interrupt(k) PROVE DurableInv'
  BY <1>3 DEF ReadAnswer, Interrupt
<1>4. ASSUME NEW k \in Clients, Leave(k) PROVE DurableInv'
  BY <1>4 DEF Leave
<1>5. CASE Boot
  BY <1>5, RequestAssumption DEF Boot, Load, LockInv
<1>6. CASE Die \/ AcceptFails
  BY <1>6 DEF Die, AcceptFails, Drop
<1>7. ASSUME NEW k \in Clients, Accept(k) PROVE DurableInv'
  BY <1>7 DEF Accept
<1>8. ASSUME NEW k \in Clients, ReadRequest(k) PROVE DurableInv'
  BY <1>8 DEF ReadRequest
<1>9. ASSUME NEW k \in Clients, Lock(k) PROVE DurableInv'
  <2>1. up
    BY <1>9 DEF Lock, LockInv
  <2> QED
    BY <1>9, <2>1, RequestAssumption DEF Lock
<1>10. ASSUME NEW k \in Clients, HandleRequest(k) PROVE DurableInv'
  <2>1. [answer |-> answer'[k], value |-> memory'] \in Service!Effects(request[k], memory)
    BY <1>10, HandledResult
  <2>2. /\ UNCHANGED <<up, holder, disk, degraded, request>>
        /\ holder = k /\ task[k] = "handle"
        /\ \A j \in Clients : task'[j] \in {"handle", "save"} => j = k
        /\ task'[k] = "save"
    BY <1>10 DEF HandleRequest, LockInv
  <2>3. ~degraded => memory = disk
    BY <2>2
  <2> QED
    BY <2>1, <2>2, <2>3, RequestAssumption
<1>11. ASSUME NEW k \in Clients, SaveState(k) PROVE DurableInv'
  <2>1. \A j \in Clients : task'[j] \notin {"handle", "save"}
    BY <1>11 DEF SaveState, LockInv
  <2>2. ~degraded' => disk' = memory /\ UNCHANGED memory
    BY <1>11 DEF SaveState
  <2>3. memory # NoProfile
    BY RequestAssumption
  <2> QED
    BY <2>1, <2>2, <2>3 DEF SaveState
<1>12. ASSUME NEW k \in Clients, WriteResponse(k) PROVE DurableInv'
  BY <1>12 DEF WriteResponse
<1>13. CASE UNCHANGED vars
  BY <1>13 DEF vars
<1> QED
  BY <1>1, <1>2, <1>3, <1>4, <1>5, <1>6, <1>7, <1>8, <1>9, <1>10, <1>11, <1>12,
     <1>13 DEF Next, ClientStep, TaskStep

LEMMA RefusalStep ==
  ASSUME TypeOK, LockInv, AnswerInv, RefusalInv, [Next]_vars
  PROVE  RefusalInv'
<1> USE DEF RefusalInv, Refused, TypeOK, daemonVars, clientVars
<1>0. \A k \in Clients : request[k].segments \in Nat \ {0}
  BY RequestAssumption DEF SocketRequests
<1>1. ASSUME NEW k \in Clients, Connect(k) PROVE RefusalInv'
  <2>1. PICK r \in Requests : /\ request' = [request EXCEPT ![k] = r]
                              /\ unsent' = [unsent EXCEPT ![k] = r.segments]
    BY <1>1 DEF Connect
  <2>2. r.segments \in Nat \ {0}
    BY RequestAssumption DEF SocketRequests
  <2>3. client[k] = "none" /\ inbox[k] = 0 /\ received[k] = NoAnswer /\ task[k] = "none"
    BY <1>1 DEF Connect, AnswerInv
  <2>4. UNCHANGED <<inbox, received>>
    BY <1>1 DEF Connect
  <2>5. /\ client'[k] \in {"writing", "error"}
        /\ client'[k] = "writing" => task'[k] = "backlog"
        /\ \A j \in Clients : j # k => /\ client'[j] = client[j]
                                       /\ task'[j] = task[j]
                                       /\ cut'[j] = cut[j]
    BY <1>1 DEF Connect
  <2>6. request'[k].segments = r.segments /\ unsent'[k] = r.segments
        /\ \A j \in Clients : j # k => request'[j] = request[j] /\ unsent'[j] = unsent[j]
    BY <2>1
  <2> QED
    BY <2>2, <2>3, <2>4, <2>5, <2>6
<1>2. ASSUME NEW k \in Clients, WriteRequest(k) PROVE RefusalInv'
  <2>1. CASE task[k] = "none"
    BY <1>2, <2>1 DEF WriteRequest
  <2>2. CASE task[k] # "none"
    <3>1. /\ inbox' = [inbox EXCEPT ![k] = @ + 1]
          /\ unsent' = [unsent EXCEPT ![k] = @ - 1]
          /\ client' = IF unsent[k] = 1 THEN [client EXCEPT ![k] = "waiting"] ELSE client
          /\ client[k] = "writing"
          /\ UNCHANGED <<request, task, received, cut>>
      BY <1>2, <2>2 DEF WriteRequest
    <3>2. unsent[k] > 0 /\ unsent[k] \in Nat /\ inbox[k] \in Nat
      BY <3>1
    <3>3. unsent'[k] + inbox'[k] = unsent[k] + inbox[k]
          /\ (unsent[k] # 1 => unsent'[k] > 0)
      BY <3>1, <3>2
    <3>4. client'[k] \in {"writing", "waiting"} /\ (client'[k] = "writing" => unsent[k] # 1)
      BY <3>1
    <3>5. \A j \in Clients : j # k => /\ client'[j] = client[j]
                                      /\ unsent'[j] = unsent[j] /\ inbox'[j] = inbox[j]
      BY <3>1
    <3> QED
      BY <2>2, <3>1, <3>2, <3>3, <3>4, <3>5
  <2> QED
    BY <2>1, <2>2
<1>3. ASSUME NEW k \in Clients, ReadAnswer(k) PROVE RefusalInv'
  BY <1>3 DEF ReadAnswer
<1>4. ASSUME NEW k \in Clients, Interrupt(k) PROVE RefusalInv'
  BY <1>4 DEF Interrupt
<1>5. ASSUME NEW k \in Clients, Leave(k) PROVE RefusalInv'
  BY <1>5 DEF Leave
<1>6. CASE Boot
  BY <1>6 DEF Boot
<1>7. CASE Die \/ AcceptFails
  BY <1>7 DEF Die, AcceptFails, Drop
<1>8. ASSUME NEW k \in Clients, Accept(k) PROVE RefusalInv'
  BY <1>8 DEF Accept
<1>9. ASSUME NEW k \in Clients, ReadRequest(k) PROVE RefusalInv'
  <2>1. /\ inbox' = [inbox EXCEPT ![k] = 0]
        /\ UNCHANGED <<client, request, unsent, received, cut>>
        /\ \A j \in Clients : j # k => task'[j] = task[j]
        /\ task[k] = "read"
    BY <1>9 DEF ReadRequest
  <2>2. CASE inbox[k] = request[k].segments /\ ValidateVersion(request[k])
    <3>1. client[k] # "writing"
      BY <2>2, <1>0
    <3>2. task'[k] = "lock"
      BY <1>9, <2>2 DEF ReadRequest
    <3> QED
      BY <1>0, <2>1, <3>1, <3>2
  <2>3. CASE ~(inbox[k] = request[k].segments /\ ValidateVersion(request[k]))
    <3>1. task'[k] = "none" /\ (inbox[k] > 0 \/ client[k] \in Ended)
      BY <1>9, <2>3 DEF ReadRequest
    <3>2. client[k] \in {"writing", "waiting"} =>
            ~ValidateVersion(request[k]) \/ request[k].segments > 1
      <4>1. client[k] \in {"writing", "waiting"} => inbox[k] > 0
        BY <3>1 DEF Ended
      <4>2. /\ inbox[k] \in Nat /\ unsent[k] \in Nat /\ request[k].segments \in Nat
            /\ client[k] \in {"writing", "waiting"} => unsent[k] + inbox[k] <= request[k].segments
        BY <1>0
      <4> QED
        BY <2>3, <4>1, <4>2
    <3> QED
      BY <1>0, <2>1, <3>1, <3>2
  <2> QED
    BY <2>2, <2>3
<1>10. ASSUME NEW k \in Clients, Lock(k) PROVE RefusalInv'
  BY <1>10 DEF Lock
<1>11. ASSUME NEW k \in Clients, HandleRequest(k) PROVE RefusalInv'
  BY <1>11 DEF HandleRequest
<1>12. ASSUME NEW k \in Clients, SaveState(k) PROVE RefusalInv'
  BY <1>12 DEF SaveState
<1>13. ASSUME NEW k \in Clients, WriteResponse(k) PROVE RefusalInv'
  <2>1. answer[k] # NoAnswer /\ task[k] = "write"
    BY <1>13 DEF WriteResponse, AnswerInv
  <2> QED
    BY <1>13, <2>1 DEF WriteResponse, Ended
<1>14. CASE UNCHANGED vars
  BY <1>14 DEF vars
<1> QED
  BY <1>1, <1>2, <1>3, <1>4, <1>5, <1>6, <1>7, <1>8, <1>9, <1>10, <1>11, <1>12,
     <1>13, <1>14 DEF Next, ClientStep, TaskStep

LEMMA FailuresStep ==
  ASSUME TypeOK, RefusalInv, FailuresExplained, [Next]_vars
  PROVE  FailuresExplained'
<1> USE DEF FailuresExplained, Refused, TypeOK, daemonVars, clientVars
<1>1. ASSUME NEW k \in Clients, Connect(k) PROVE FailuresExplained'
  <2>1. PICK r \in Requests : request' = [request EXCEPT ![k] = r]
    BY <1>1 DEF Connect
  <2>2. /\ client'[k] \in {"error", "panic"} => cut'[k]
        /\ \A j \in Clients : j # k => client'[j] = client[j] /\ cut'[j] = cut[j]
    BY <1>1 DEF Connect
  <2> QED
    BY <2>1, <2>2
<1>2. ASSUME NEW k \in Clients, WriteRequest(k) PROVE FailuresExplained'
  BY <1>2 DEF WriteRequest, RefusalInv
<1>3. ASSUME NEW k \in Clients, ReadAnswer(k) PROVE FailuresExplained'
  BY <1>3 DEF ReadAnswer, RefusalInv
<1>4. ASSUME NEW k \in Clients, Interrupt(k) \/ Leave(k) PROVE FailuresExplained'
  BY <1>4 DEF Interrupt, Leave
<1>5. CASE Boot
  BY <1>5 DEF Boot
<1>6. CASE Die \/ AcceptFails
  BY <1>6 DEF Die, AcceptFails, Drop
<1>7. ASSUME NEW k \in Clients, Accept(k) \/ Lock(k) \/ TaskStep(k) PROVE FailuresExplained'
  BY <1>7 DEF Accept, Lock, TaskStep, ReadRequest, HandleRequest, SaveState, WriteResponse
<1>8. CASE UNCHANGED vars
  BY <1>8 DEF vars
<1> QED
  BY <1>1, <1>2, <1>3, <1>4, <1>5, <1>6, <1>7, <1>8 DEF Next, ClientStep

(***************************************************************************)
(* Safety.                                                                 *)
(***************************************************************************)
\* The strengthened invariant holds for any clients, profiles and requests: mutex,
\* state file, answers and refusals stay in step.
THEOREM InductiveInvariant == Spec => []IInv
<1>1. IInv /\ [Next]_vars => IInv'
  BY TypeStep, LockStep, DurableStep, AnswerStep, RefusalStep, FailuresStep DEF IInv
<1> QED
  BY InitHolds, <1>1, PTL DEF Spec

\* The variables of a connection stay in their sets: the mutex has at most one
\* holder, and what the handler returns is an answer of the protocol.
THEOREM TypeCorrect == Spec => []TypeOK
<1>1. IInv => TypeOK
  BY DEF IInv
<1> QED
  BY InductiveInvariant, <1>1, PTL

\* For any number of clients: cerynthctl fails only for a daemon that was away
\* or a request that was refused.
THEOREM FailuresHaveReasons == Spec => []FailuresExplained
<1>1. IInv => FailuresExplained
  BY DEF IInv
<1> QED
  BY InductiveInvariant, <1>1, PTL

(***************************************************************************)
(* The refinement.                                                         *)
(***************************************************************************)
\* What a client knows, spelled out for one client.
LEMMA OutcomeOf ==
  ASSUME NEW k \in Clients
  PROVE  /\ client[k] \in {"writing", "waiting"} => Outcome[k] = "pending"
         /\ client[k] = "ok" => Outcome[k] = received[k]
         /\ client[k] = "none" => Outcome[k] = "none"
         /\ client[k] \notin {"writing", "waiting", "ok", "none"} => Outcome[k] = "failed"
  BY DEF Outcome

\* Nothing a client knows changes with its process and the answer to it.
LEMMA SameOutcome ==
  ASSUME \A k \in Clients : /\ client'[k] = client[k]
                            /\ client[k] = "ok" => received'[k] = received[k]
  PROVE  Outcome' = Outcome
<1>1. ASSUME NEW k \in Clients PROVE Outcome'[k] = Outcome[k]
  <2>1. CASE client[k] \in {"writing", "waiting"}
    BY <2>1 DEF Outcome
  <2>2. CASE client[k] = "ok"
    BY <2>2 DEF Outcome
  <2>3. CASE client[k] = "none"
    BY <2>3 DEF Outcome
  <2>4. CASE client[k] \notin {"writing", "waiting", "ok", "none"}
    BY <2>4 DEF Outcome
  <2> QED
    BY <2>1, <2>2, <2>3, <2>4
<1>2. Outcome = [k \in Clients |-> Outcome[k]] /\ Outcome' = [k \in Clients |-> Outcome'[k]]
  BY DEF Outcome
<1> QED
  BY <1>1, <1>2

LEMMA OtherOutcome ==
  ASSUME NEW k \in Clients, NEW o, Outcome'[k] = o,
         \A j \in Clients : j # k => client'[j] = client[j] /\ received'[j] = received[j]
  PROVE  Outcome' = [Outcome EXCEPT ![k] = o]
<1>1. \A j \in Clients : j # k => Outcome'[j] = Outcome[j]
  BY DEF Outcome
<1>2. Outcome = [j \in Clients |-> Outcome[j]] /\ Outcome' = [j \in Clients |-> Outcome'[j]]
  BY DEF Outcome
<1> QED
  BY <1>1, <1>2

LEMMA SameEffect ==
  ASSUME \A k \in Clients : \/ task'[k] = task[k] /\ answer'[k] = answer[k]
                            \/ /\ task[k] # "save" /\ task'[k] # "save"
                               /\ answer'[k] = answer[k]
  PROVE  Effect' = Effect
<1>1. \A k \in Clients : Effect'[k] = Effect[k]
  BY DEF Effect
<1> QED
  BY <1>1 DEF Effect

LEMMA InitRefines == Init => Service!Init
<1> SUFFICES ASSUME Init PROVE Service!Init
  OBVIOUS
<1>1. Load \in Profiles
  BY RequestAssumption DEF Init, Load
<1>2. Effect = [k \in Clients |-> NoAnswer]
  BY DEF Init, Effect
<1>3. Outcome = [k \in Clients |-> "none"]
  BY DEF Init, Outcome
<1> QED
  BY <1>1, <1>2, <1>3 DEF Init, Service!Init

LEMMA ConnectRefines ==
  ASSUME IInv, NEW k \in Clients, Connect(k)
  PROVE  Service!Call(k)
<1> USE DEF IInv, TypeOK, AnswerInv, daemonVars
<1>1. client[k] = "none" /\ task[k] = "none"
  BY DEF Connect
<1>2. client' \in {[client EXCEPT ![k] = c] : c \in {"writing", "error"}}
  BY DEF Connect
<1>3. \A j \in Clients : j # k => client'[j] = client[j] /\ received'[j] = received[j]
  BY DEF Connect
<1>4. Outcome[k] = "none" /\ Outcome'[k] \in {"pending", "failed"}
  <2>1. Outcome[k] = "none"
    BY <1>1, OutcomeOf
  <2>2. client'[k] = "writing" => Outcome'[k] = "pending"
    BY DEF Outcome
  <2>3. client'[k] = "error" => Outcome'[k] = "failed"
    BY DEF Outcome
  <2> QED
    BY <1>2, <2>1, <2>2, <2>3
<1>5. Outcome' = [Outcome EXCEPT ![k] = Outcome'[k]]
  BY <1>3, OtherOutcome
<1>6. task' \in {task, [task EXCEPT ![k] = "backlog"]} /\ UNCHANGED answer
  BY DEF Connect
<1>7. Effect' = Effect
  BY <1>1, <1>6, SameEffect
<1>8. request' \in {[request EXCEPT ![k] = r] : r \in Requests}
  BY DEF Connect
<1>9. UNCHANGED <<Load, degraded>>
  BY DEF Connect, Load
<1> QED
  BY <1>4, <1>5, <1>7, <1>8, <1>9 DEF Service!Call

\* The client gives up, or learns that it has lost.
LEMMA FailRefines ==
  ASSUME NEW k \in Clients, client[k] \in {"writing", "waiting"},
         client'[k] \in {"error", "panic", "killed"},
         \A j \in Clients : j # k => client'[j] = client[j],
         UNCHANGED <<task, answer, received, request, disk, degraded>>
  PROVE  Service!Fail(k)
<1>1. Outcome[k] = "pending" /\ Outcome'[k] = "failed"
  BY DEF Outcome
<1>2. Outcome' = [Outcome EXCEPT ![k] = "failed"]
  BY <1>1, OtherOutcome
<1>3. Effect' = Effect
  BY SameEffect
<1>4. Load' = Load
  BY DEF Load
<1> QED
  BY <1>1, <1>2, <1>3, <1>4 DEF Service!Fail

LEMMA WriteRequestRefines ==
  ASSUME IInv, NEW k \in Clients, WriteRequest(k)
  PROVE  Service!Fail(k) \/ UNCHANGED Service!vars
<1> USE DEF IInv, TypeOK, daemonVars
<1>1. CASE task[k] = "none"
  <2>1. client'[k] = "error" /\ \A j \in Clients : j # k => client'[j] = client[j]
    BY <1>1 DEF WriteRequest
  <2> QED
    BY <2>1, FailRefines DEF WriteRequest
<1>2. CASE task[k] # "none"
  <2>1. /\ client[k] = "writing" /\ client'[k] \in {"writing", "waiting"}
        /\ \A j \in Clients : j # k => client'[j] = client[j]
        /\ UNCHANGED <<task, answer, received, request, disk, degraded>>
    BY <1>2 DEF WriteRequest
  <2>2. Outcome[k] = "pending" /\ Outcome'[k] = "pending"
    BY <2>1 DEF Outcome
  <2>3. Outcome' = [Outcome EXCEPT ![k] = "pending"]
    BY <2>1, <2>2, OtherOutcome
  <2>4. Outcome' = Outcome
    BY <2>2, <2>3 DEF Outcome
  <2>5. Effect' = Effect
    BY <2>1, SameEffect
  <2> QED
    BY <2>1, <2>4, <2>5 DEF Load, Service!vars
<1> QED
  BY <1>1, <1>2

LEMMA ReadAnswerRefines ==
  ASSUME IInv, NEW k \in Clients, ReadAnswer(k)
  PROVE  Service!Return(k) \/ Service!Fail(k)
<1> USE DEF IInv, TypeOK, daemonVars
<1>1. /\ client[k] = "waiting" /\ \A j \in Clients : j # k => client'[j] = client[j]
      /\ UNCHANGED <<task, answer, received, request, disk, degraded>>
  BY DEF ReadAnswer
<1>2. CASE received[k] = NoAnswer
  <2>1. client'[k] \in {"error", "panic"}
    BY <1>2 DEF ReadAnswer
  <2> QED
    BY <1>1, <2>1, FailRefines
<1>3. CASE received[k] # NoAnswer
  <2>1. client'[k] = "ok"
    BY <1>3 DEF ReadAnswer
  <2>2. Effect[k] = received[k]
    BY <1>3 DEF Effect, AnswerInv
  <2>3. Outcome[k] = "pending" /\ Outcome'[k] = received[k]
    BY <1>1, <2>1 DEF Outcome
  <2>4. Outcome' = [Outcome EXCEPT ![k] = received[k]]
    BY <1>1, <2>3, OtherOutcome
  <2>5. Effect' = Effect /\ Load' = Load
    BY <1>1, SameEffect DEF Load
  <2> QED
    BY <1>1, <1>3, <2>2, <2>3, <2>4, <2>5 DEF Service!Return
<1> QED
  BY <1>2, <1>3

LEMMA LeaveRefines ==
  ASSUME IInv, NEW k \in Clients, Leave(k)
  PROVE  Service!Forget(k)
<1> USE DEF IInv, TypeOK, daemonVars
<1>1. /\ client[k] \in Ended /\ task[k] = "none" /\ client'[k] = "none"
      /\ UNCHANGED <<task, request, disk, degraded>>
  BY DEF Leave
<1>2. Outcome[k] \notin {"none", "pending"}
  <2>1. CASE client[k] = "ok"
    <3>1. received[k] \in Answers
      BY <2>1 DEF AnswerInv
    <3>2. Outcome[k] = received[k]
      BY <2>1, OutcomeOf
    <3> QED
      BY <3>1, <3>2, RequestAssumption DEF Answers
  <2>2. CASE client[k] \in {"error", "panic", "killed"}
    BY <2>2, OutcomeOf
  <2> QED
    BY <1>1, <2>1, <2>2 DEF Ended
<1>3. \A j \in Clients : j # k => /\ client'[j] = client[j] /\ received'[j] = received[j]
                                  /\ answer'[j] = answer[j]
  BY DEF Leave
<1>4. Outcome'[k] = "none"
  BY <1>1 DEF Outcome
<1>5. Outcome' = [Outcome EXCEPT ![k] = "none"]
  BY <1>3, <1>4, OtherOutcome
<1>6. answer' = [answer EXCEPT ![k] = NoAnswer]
  BY DEF Leave
<1>7. Effect' = [Effect EXCEPT ![k] = NoAnswer]
  <2>1. Effect'[k] = NoAnswer
    BY <1>6 DEF Effect
  <2>2. \A j \in Clients : j # k => Effect'[j] = Effect[j]
    BY <1>1, <1>3 DEF Effect
  <2>3. Effect = [j \in Clients |-> Effect[j]] /\ Effect' = [j \in Clients |-> Effect'[j]]
    BY DEF Effect
  <2> QED
    BY <2>1, <2>2, <2>3
<1> QED
  BY <1>1, <1>2, <1>5, <1>7 DEF Service!Forget, Load

\* Steps of the daemon before the request counts, and after.
LEMMA DaemonStutters ==
  ASSUME IInv,
         \/ Boot \/ AcceptFails \/ (Die /\ UNCHANGED <<disk, degraded>>)
         \/ \E k \in Clients : Accept(k) \/ ReadRequest(k) \/ Lock(k) \/ HandleRequest(k)
                              \/ WriteResponse(k)
  PROVE  UNCHANGED Service!vars
<1> USE DEF IInv, TypeOK, daemonVars, clientVars
<1>1. CASE Boot
  <2>1. UNCHANGED <<client, received, task, answer, request, disk, degraded>>
    BY <1>1 DEF Boot
  <2>2. Outcome' = Outcome
    BY <2>1, SameOutcome
  <2>3. Effect' = Effect
    BY <2>1, SameEffect
  <2> QED
    BY <2>1, <2>2, <2>3 DEF Service!vars, Load
<1>2. CASE AcceptFails \/ (Die /\ UNCHANGED <<disk, degraded>>)
  <2>1. Drop /\ UNCHANGED <<client, received, request, disk, degraded>>
    BY <1>2 DEF AcceptFails, Die, Drop
  <2>2. Outcome' = Outcome
    BY <2>1, SameOutcome
  <2>3. \A k \in Clients : Effect'[k] = Effect[k]
    BY <2>1 DEF Drop, Effect
  <2>4. Effect' = Effect
    BY <2>3 DEF Effect
  <2> QED
    BY <2>1, <2>2, <2>4 DEF Service!vars, Load
<1>3. ASSUME NEW k \in Clients, Accept(k) \/ ReadRequest(k) \/ Lock(k) PROVE UNCHANGED Service!vars
  <2>1. UNCHANGED <<client, received, answer, request, disk, degraded>>
    BY <1>3 DEF Accept, ReadRequest, Lock
  <2>2. Outcome' = Outcome
    BY <2>1, SameOutcome
  <2>3. /\ task[k] # "save" /\ task'[k] # "save"
        /\ \A j \in Clients : j # k => task'[j] = task[j]
    BY <1>3 DEF Accept, ReadRequest, Lock
  <2>4. Effect' = Effect
    BY <2>1, <2>3, SameEffect
  <2> QED
    BY <2>1, <2>2, <2>4 DEF Service!vars, Load
<1>4. ASSUME NEW k \in Clients, HandleRequest(k) PROVE UNCHANGED Service!vars
  <2>1. UNCHANGED <<client, received, request, disk, degraded>>
    BY <1>4 DEF HandleRequest
  <2>2. Outcome' = Outcome
    BY <2>1, SameOutcome
  <2>3. task[k] = "handle" /\ answer[k] = NoAnswer
    BY <1>4 DEF HandleRequest, AnswerInv
  <2>4. answer' = [answer EXCEPT ![k] = answer'[k]]
    BY <1>4, HandledResult
  <2>5. task' = [task EXCEPT ![k] = "save"]
    BY <1>4 DEF HandleRequest
  <2>6. \A j \in Clients : Effect'[j] = Effect[j]
    <3>1. Effect'[k] = NoAnswer /\ Effect[k] = NoAnswer
      BY <2>3, <2>5 DEF Effect
    <3>2. \A j \in Clients : j # k => task'[j] = task[j] /\ answer'[j] = answer[j]
      BY <2>4, <2>5
    <3> QED
      BY <3>1, <3>2 DEF Effect
  <2>7. Effect' = Effect
    BY <2>6 DEF Effect
  <2> QED
    BY <2>1, <2>2, <2>7 DEF Service!vars, Load
<1>5. ASSUME NEW k \in Clients, WriteResponse(k) PROVE UNCHANGED Service!vars
  <2>1. UNCHANGED <<client, answer, request, disk, degraded>>
    BY <1>5 DEF WriteResponse
  <2>2. \A j \in Clients : client[j] = "ok" => received'[j] = received[j]
    BY <1>5 DEF WriteResponse, Ended
  <2>3. Outcome' = Outcome
    BY <2>1, <2>2, SameOutcome
  <2>4. task[k] = "write" /\ task' = [task EXCEPT ![k] = "none"]
    BY <1>5 DEF WriteResponse
  <2>5. Effect' = Effect
    BY <2>1, <2>4, SameEffect
  <2> QED
    BY <2>1, <2>3, <2>5 DEF Service!vars, Load
<1> QED
  BY <1>1, <1>2, <1>3, <1>4, <1>5

\* The daemon dies in the middle of the write.
LEMMA BreakRefines ==
  ASSUME IInv, Die, ~UNCHANGED <<disk, degraded>>
  PROVE  Service!Break
<1>1. Drop /\ disk' = NoProfile /\ degraded' = TRUE
  BY DEF Die
<1>2. UNCHANGED <<client, received, request>>
  BY <1>1 DEF Drop, clientVars
<1>3. Outcome' = Outcome
  BY <1>2, SameOutcome
<1>4. \A k \in Clients : Effect'[k] = Effect[k]
  BY <1>1 DEF Drop, Effect, IInv, TypeOK
<1>5. Effect' = Effect
  BY <1>4 DEF Effect
<1>6. Load' \in Profiles
  BY <1>1, RequestAssumption DEF Load
<1> QED
  BY <1>1, <1>2, <1>3, <1>5, <1>6 DEF Service!Break

\* The save is the instant at which a request takes effect.
LEMMA SaveRefines ==
  ASSUME IInv, NEW k \in Clients, SaveState(k)
  PROVE  Service!TakeEffect(k)
<1> USE DEF IInv, TypeOK, clientVars
<1>1. /\ task[k] = "save" /\ task' = [task EXCEPT ![k] = "write"]
      /\ UNCHANGED <<client, received, request, answer, memory>>
      /\ \/ disk' = memory /\ UNCHANGED degraded
         \/ disk' \in {disk, NoProfile} /\ degraded' = TRUE
  BY DEF SaveState
<1>2. answer[k] \in Answers /\ received[k] = NoAnswer /\ client[k] \notin {"ok", "none"}
  BY <1>1 DEF AnswerInv
<1>3. Outcome[k] # "none"
  <2>1. Outcome[k] \in {"pending", "failed"}
    BY <1>2 DEF Outcome
  <2> QED
    BY <2>1
<1>4. Outcome' = Outcome
  BY <1>1, SameOutcome
<1>5. Effect[k] = NoAnswer /\ Effect' = [Effect EXCEPT ![k] = answer[k]]
  <2>1. Effect[k] = NoAnswer /\ Effect'[k] = answer[k]
    BY <1>1 DEF Effect
  <2>2. \A j \in Clients : j # k => Effect'[j] = Effect[j]
    BY <1>1 DEF Effect
  <2>3. Effect = [j \in Clients |-> Effect[j]] /\ Effect' = [j \in Clients |-> Effect'[j]]
    BY DEF Effect
  <2> QED
    BY <2>1, <2>2, <2>3
<1>6. degraded' \in {degraded, TRUE} /\ UNCHANGED <<request, Outcome>>
  BY <1>1, <1>4
<1>7. CASE degraded'
  <2>1. Load' \in Profiles
    BY <1>1, RequestAssumption DEF Load
  <2>2. Effect' \in {[Effect EXCEPT ![k] = a] : a \in Service!Answers}
    BY <1>2, <1>5 DEF Answers, Service!Answers
  <2> QED
    BY <1>3, <1>5, <1>6, <1>7, <2>1, <2>2 DEF Service!TakeEffect
<1>8. CASE ~degraded'
  <2>1. ~degraded /\ disk' = memory
    BY <1>1, <1>8
  <2>2. disk # NoProfile
        /\ [answer |-> answer[k], value |-> memory] \in Service!Effects(request[k], disk)
    BY <1>1, <2>1 DEF DurableInv
  <2>3. Load = disk /\ Load' = memory
    BY <2>1, <2>2, RequestAssumption DEF Load
  <2>4. \E e \in Service!Effects(request[k], Load) :
          Effect' = [Effect EXCEPT ![k] = e.answer] /\ Load' = e.value
    BY <1>5, <2>2, <2>3
  <2> QED
    BY <1>3, <1>5, <1>6, <2>4 DEF Service!TakeEffect
<1> QED
  BY <1>7, <1>8

LEMMA StepRefines == IInv /\ [Next]_vars => [Service!Next]_(Service!vars)
<1> SUFFICES ASSUME IInv, [Next]_vars PROVE Service!Next \/ UNCHANGED Service!vars
  OBVIOUS
<1>1. ASSUME NEW k \in Clients, ClientStep(k) PROVE Service!Next \/ UNCHANGED Service!vars
  <2>1. CASE Interrupt(k)
    <3>1. /\ client[k] \in {"writing", "waiting"} /\ client'[k] = "killed"
          /\ \A j \in Clients : j # k => client'[j] = client[j]
          /\ UNCHANGED <<task, answer, received, request, disk, degraded>>
      BY <2>1 DEF Interrupt, daemonVars, IInv, TypeOK
    <3> QED
      BY <3>1, FailRefines DEF Service!Next
  <2> QED
    BY <1>1, <2>1, ConnectRefines, WriteRequestRefines, ReadAnswerRefines, LeaveRefines
    DEF ClientStep, Service!Next
<1>2. CASE Die
  BY <1>2, DaemonStutters, BreakRefines DEF Service!Next
<1>3. ASSUME NEW k \in Clients, SaveState(k) PROVE Service!Next
  BY <1>3, SaveRefines DEF Service!Next
<1>4. CASE UNCHANGED vars
  <2>1. UNCHANGED <<client, received, task, answer, request, disk, degraded>>
    BY <1>4 DEF vars
  <2>2. Outcome' = Outcome
    BY <2>1, SameOutcome
  <2>3. Effect' = Effect
    BY <2>1, SameEffect
  <2> QED
    BY <2>1, <2>2, <2>3 DEF Service!vars, Load
<1>5. ASSUME Boot \/ AcceptFails PROVE UNCHANGED Service!vars
  BY <1>5, DaemonStutters
<1>6. ASSUME NEW k \in Clients, Accept(k) \/ Lock(k) \/ ReadRequest(k) \/ HandleRequest(k)
                                \/ WriteResponse(k)
      PROVE  UNCHANGED Service!vars
  BY <1>6, DaemonStutters
<1> QED
  BY <1>1, <1>2, <1>3, <1>4, <1>5, <1>6 DEF Next, TaskStep

\* For any number of clients and any requests, the socket, its tasks, the mutex
\* and the state file together are the durable register of RequestService.
THEOREM Implements == Spec => ImplementsService
<1>1. IInv /\ [Next]_vars => [Service!Next]_(Service!vars)
  BY StepRefines
<1> QED
  BY InductiveInvariant, InitRefines, <1>1, PTL DEF Spec, Service!Spec, ImplementsService
================================================================================
