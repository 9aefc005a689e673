--------------------------- MODULE RequestConnection ---------------------------
(***************************************************************************)
(* The control socket: cerynthctl processes (and other programs that speak *)
(* the protocol) on one side, the accept loop of cerynthd and one task per *)
(* connection on the other.                                                *)
(*                                                                         *)
(* A connection carries one request.  Its task reads once, parses, tests   *)
(* the version, takes the backend mutex, runs the handler, saves the       *)
(* state, releases the mutex and writes the answer.  Clients may stop in   *)
(* the middle of their request, be killed, or send it in several writes;   *)
(* the daemon may die anywhere, also inside fs::write.  ControlPlane has   *)
(* the inside of the handler; here it is one step.                         *)
(***************************************************************************)
EXTENDS Naturals

CONSTANTS
  Clients,   \* client processes, each with at most one connection
  Nobody,    \* the mutex is free
  Profiles,  \* values of Profile
  Default,   \* Profile::Balanced, the default of RuntimeState
  NoProfile, \* no profile: in a request, or in an empty state.json
  NoAnswer,  \* no answer yet
  Requests   \* the requests clients send, a set of SocketRequests

MIN_PROTOCOL_VERSION == 1
PROTOCOL_VERSION == 2

SocketTypes == {"status", "get-profile", "set-profile", "start", "stop",
                "shutdown", "ping"}

\* RequestEnvelope with its SocketRequest.  "start" and "stop" stand for the
\* requests that leave the profile alone; segments is the number of writes
\* that carry the line (one for cerynthctl).
SocketRequests == [type     : SocketTypes,
                   profile  : Profiles \union {NoProfile},
                   version  : Nat,
                   segments : Nat \ {0}]

ASSUME RequestAssumption ==
  /\ Nobody \notin Clients
  /\ Default \in Profiles /\ NoProfile \notin Profiles
  /\ NoAnswer \notin Profiles \union {"success", "error"}
  /\ Profiles \intersect {"none", "pending", "failed", "success", "error"} = {}
  /\ Requests \subseteq SocketRequests /\ Requests # {}
  /\ \A r \in Requests : r.type = "set-profile" => r.profile \in Profiles

VARIABLES
  up,        \* the daemon accepts connections
  holder,    \* the task that holds the backend mutex
  backend,   \* "mock" or "scx", as the configuration says
  memory,    \* the profile in the backend
  disk,      \* the profile in state.json, NoProfile when it is cut off
  degraded,  \* history: a save failed, or the daemon died inside one
  client,    \* where the client process is
  request,   \* its request
  unsent,    \* segments it has still to write
  inbox,     \* segments on their way to the daemon
  task,      \* where the daemon's task for the connection is
  answer,    \* the response it has computed
  received,  \* the response on its way to the client
  cut        \* history: the daemon was down or died during the connection

daemonVars == <<up, backend, holder, memory, disk, degraded>>
clientVars == <<client, request, unsent>>
vars == <<up, backend, holder, memory, disk, degraded, client, request, unsent,
          inbox, task, answer, received, cut>>

\* error: exit code 1; panic: the unwrap of an answer that is not there.
Ended  == {"ok", "error", "panic", "killed"}
Phases == {"none", "writing", "waiting"} \union Ended
Tasks  == {"none", "backlog", "read", "lock", "handle", "save", "write"}
Answers == Profiles \union {"success", "error"}

TypeOK ==
  /\ up \in BOOLEAN /\ degraded \in BOOLEAN /\ backend \in {"mock", "scx"}
  /\ holder \in Clients \union {Nobody}
  /\ memory \in Profiles /\ disk \in Profiles \union {NoProfile}
  /\ client \in [Clients -> Phases]
  /\ request \in [Clients -> Requests]
  /\ unsent \in [Clients -> Nat] /\ inbox \in [Clients -> Nat]
  /\ task \in [Clients -> Tasks]
  /\ answer \in [Clients -> Answers \union {NoAnswer}]
  /\ received \in [Clients -> Answers \union {NoAnswer}]
  /\ cut \in [Clients -> BOOLEAN]

Init ==
  /\ up = FALSE /\ degraded = FALSE /\ backend = "mock"
  /\ holder = Nobody
  /\ memory = Default /\ disk = Default
  /\ client = [k \in Clients |-> "none"]
  /\ request \in [Clients -> Requests]
  /\ unsent = [k \in Clients |-> 0] /\ inbox = [k \in Clients |-> 0]
  /\ task = [k \in Clients |-> "none"]
  /\ answer = [k \in Clients |-> NoAnswer]
  /\ received = [k \in Clients |-> NoAnswer]
  /\ cut = [k \in Clients |-> FALSE]

(***************************************************************************)
(* The client: send_request of cerynthctl.                                 *)
(***************************************************************************)
\* UnixStream::connect: without a daemon behind the path it fails.
Connect(k) ==
  /\ client[k] = "none"
  /\ \E r \in Requests :
       /\ request' = [request EXCEPT ![k] = r]
       /\ unsent' = [unsent EXCEPT ![k] = r.segments]
  /\ IF up
     THEN /\ client' = [client EXCEPT ![k] = "writing"]
          /\ task' = [task EXCEPT ![k] = "backlog"]
          /\ UNCHANGED cut
     ELSE /\ client' = [client EXCEPT ![k] = "error"]
          /\ cut' = [cut EXCEPT ![k] = TRUE]
          /\ UNCHANGED task
  /\ UNCHANGED <<daemonVars, inbox, answer, received>>

\* write_all, one segment; on a connection closed by the daemon it fails.
WriteRequest(k) ==
  /\ client[k] = "writing"
  /\ IF task[k] = "none"
     THEN client' = [client EXCEPT ![k] = "error"] /\ UNCHANGED <<unsent, inbox>>
     ELSE /\ inbox' = [inbox EXCEPT ![k] = @ + 1]
          /\ unsent' = [unsent EXCEPT ![k] = @ - 1]
          /\ client' = IF unsent[k] = 1 THEN [client EXCEPT ![k] = "waiting"] ELSE client
  /\ UNCHANGED <<daemonVars, request, task, answer, received, cut>>

\* read_until, and from_line(..).unwrap() of what it has read.  A connection
\* closed over unread bytes is reset, which read_until reports.
ReadAnswer(k) ==
  /\ client[k] = "waiting"
  /\ received[k] # NoAnswer \/ task[k] = "none"
  /\ client' = [client EXCEPT ![k] = IF received[k] # NoAnswer THEN "ok"
                                     ELSE IF inbox[k] > 0 THEN "error" ELSE "panic"]
  /\ UNCHANGED <<daemonVars, request, unsent, inbox, task, answer, received, cut>>

\* The user interrupts cerynthctl, which has no timeout of its own.
Interrupt(k) ==
  /\ client[k] \in {"writing", "waiting"}
  /\ client' = [client EXCEPT ![k] = "killed"]
  /\ UNCHANGED <<daemonVars, request, unsent, inbox, task, answer, received, cut>>

\* Nothing is left of the process and its connection.
Leave(k) ==
  /\ client[k] \in Ended /\ task[k] = "none"
  /\ client' = [client EXCEPT ![k] = "none"]
  /\ unsent' = [unsent EXCEPT ![k] = 0]
  /\ inbox' = [inbox EXCEPT ![k] = 0]
  /\ answer' = [answer EXCEPT ![k] = NoAnswer]
  /\ received' = [received EXCEPT ![k] = NoAnswer]
  /\ cut' = [cut EXCEPT ![k] = FALSE]
  /\ UNCHANGED <<daemonVars, request, task>>

(***************************************************************************)
(* The daemon: start_server and handle_connection.                         *)
(***************************************************************************)
\* Seeded fault: what was read is used as it is.
LoadRaw == disk

\* RuntimeState::load
Load == IF disk = NoProfile THEN Default ELSE disk

\* Config::load: without a file, and with one that cannot be read or parsed, the
\* defaults apply, and their backend is the mock.
LoadConfig(file) == IF file = "scx" THEN "scx" ELSE "mock"

\* main loads configuration and state, start_server replaces the socket file and
\* listens.
Boot ==
  /\ ~up
  /\ up' = TRUE
  /\ \E file \in {"missing", "broken", "mock", "scx"} : backend' = LoadConfig(file)
  /\ memory' = Load
  /\ UNCHANGED <<holder, disk, degraded, clientVars, inbox, task, answer,
                 received, cut>>

\* Every connection is closed and every task is gone.
Drop ==
  /\ up' = FALSE
  /\ holder' = Nobody
  /\ task' = [k \in Clients |-> "none"]
  /\ answer' = [k \in Clients |-> IF task[k] = "save" THEN NoAnswer ELSE answer[k]]
  /\ cut' = [k \in Clients |-> cut[k] \/ task[k] # "none"]
  /\ UNCHANGED <<backend, memory, clientVars, inbox, received>>

\* Ctrl-C, a signal, a crash.  Inside fs::write the file is empty.
Die ==
  /\ up
  /\ Drop
  /\ \/ UNCHANGED <<disk, degraded>>
     \/ /\ \E k \in Clients : task[k] = "save"
        /\ disk' = NoProfile /\ degraded' = TRUE

\* accept and the spawn of a task; a task that nobody writes to stays open.
Accept(k) ==
  /\ up /\ task[k] = "backlog"
  /\ task' = [task EXCEPT ![k] = "read"]
  /\ UNCHANGED <<daemonVars, clientVars, inbox, answer, received, cut>>

\* Out of file descriptors, in the process or the system: the error of accept
\* ends the loop and the daemon.
AcceptFails ==
  /\ up /\ \E k \in Clients : task[k] = "backlog"
  /\ Drop
  /\ UNCHANGED <<disk, degraded>>

\* RequestEnvelope::validate_version.
ValidateVersion(r) ==
  r.version >= MIN_PROTOCOL_VERSION /\ r.version <= PROTOCOL_VERSION

\* One read takes what is there, or the end of file.  A part of a line does
\* not parse; an unsupported version is refused; both close the connection.
ReadRequest(k) ==
  /\ task[k] = "read"
  /\ inbox[k] > 0 \/ client[k] \in Ended
  /\ inbox' = [inbox EXCEPT ![k] = 0]
  /\ task' = [task EXCEPT ![k] =
                IF inbox[k] = request[k].segments /\ ValidateVersion(request[k])
                THEN "lock" ELSE "none"]
  /\ UNCHANGED <<daemonVars, clientVars, answer, received, cut>>

\* Seeded fault: nobody waits for the mutex.
LockAlways(k) ==
  /\ task[k] = "lock"
  /\ holder' = k
  /\ task' = [task EXCEPT ![k] = "handle"]
  /\ UNCHANGED <<up, backend, memory, disk, degraded, clientVars, inbox, answer, received, cut>>

\* backend.lock().await
Lock(k) ==
  /\ task[k] = "lock" /\ holder = Nobody
  /\ holder' = k
  /\ task' = [task EXCEPT ![k] = "handle"]
  /\ UNCHANGED <<up, backend, memory, disk, degraded, clientVars, inbox, answer, received, cut>>

\* Request::from(SocketRequest): the daemon does for ping and shutdown what it
\* does for status.
ToRequest(type) == IF type \in {"ping", "shutdown"} THEN "status" ELSE type

Reads(r) == ToRequest(r.type) \in {"status", "get-profile"}

Wanted(r) == IF r.type = "set-profile" THEN r.profile ELSE memory

\* The mock backend: every operation succeeds, without any scheduler.
MockResults(r) ==
  {[answer |-> IF Reads(r) THEN memory ELSE "success", profile |-> Wanted(r)]}

\* The real one may fail: what set_profile has stopped and stored stays so when
\* the start after it fails.
ScxResults(r) ==
  MockResults(r) \union
    IF Reads(r) THEN {} ELSE [answer : {"error"}, profile : {memory, Wanted(r)}]

Results(r) == IF backend = "mock" THEN MockResults(r) ELSE ScxResults(r)

\* Seeded fault: the mutex is released before the state is saved.
HandleRequestUnlocks(k) ==
  /\ task[k] = "handle"
  /\ \E res \in Results(request[k]) :
       answer' = [answer EXCEPT ![k] = res.answer] /\ memory' = res.profile
  /\ task' = [task EXCEPT ![k] = "save"]
  /\ holder' = Nobody
  /\ UNCHANGED <<up, backend, disk, degraded, clientVars, inbox, received, cut>>

\* handle_request
HandleRequest(k) ==
  /\ task[k] = "handle"
  /\ \E res \in Results(request[k]) :
       answer' = [answer EXCEPT ![k] = res.answer] /\ memory' = res.profile
  /\ task' = [task EXCEPT ![k] = "save"]
  /\ UNCHANGED <<up, backend, holder, disk, degraded, clientVars, inbox, received, cut>>

\* Seeded fault: the task keeps the mutex.
SaveStateLocked(k) ==
  /\ task[k] = "save"
  /\ disk' = memory
  /\ task' = [task EXCEPT ![k] = "write"]
  /\ UNCHANGED <<up, backend, holder, memory, degraded, clientVars, inbox, answer, received, cut>>

\* RuntimeState::save under the mutex, which the end of the block releases.  A
\* failure is a warning: the old file stays, or an empty one.
SaveState(k) ==
  /\ task[k] = "save"
  /\ \/ disk' = memory /\ UNCHANGED degraded
     \/ disk' \in {disk, NoProfile} /\ degraded' = TRUE
  /\ holder' = Nobody
  /\ task' = [task EXCEPT ![k] = "write"]
  /\ UNCHANGED <<up, backend, memory, clientVars, inbox, answer, received, cut>>

\* Seeded fault: an error of the backend ends the task instead of being sent.
WriteResponseDropsErrors(k) ==
  /\ task[k] = "write"
  /\ received' = IF client[k] \in Ended \/ answer[k] = "error" THEN received
                 ELSE [received EXCEPT ![k] = answer[k]]
  /\ task' = [task EXCEPT ![k] = "none"]
  /\ UNCHANGED <<daemonVars, clientVars, inbox, answer, cut>>

\* ResponseEnvelope::for_request and write_all, after which the connection is
\* closed; the answer to a client that is gone is an error in the log.
WriteResponse(k) ==
  /\ task[k] = "write"
  /\ received' = IF client[k] \in Ended THEN received
                 ELSE [received EXCEPT ![k] = answer[k]]
  /\ task' = [task EXCEPT ![k] = "none"]
  /\ UNCHANGED <<daemonVars, clientVars, inbox, answer, cut>>

(***************************************************************************)
(* Specification.                                                          *)
(***************************************************************************)
TaskStep(k) == ReadRequest(k) \/ HandleRequest(k) \/ SaveState(k) \/ WriteResponse(k)

ClientStep(k) == Connect(k) \/ WriteRequest(k) \/ ReadAnswer(k) \/ Interrupt(k) \/ Leave(k)

Next ==
  \/ Boot \/ Die \/ AcceptFails
  \/ \E k \in Clients : ClientStep(k) \/ Accept(k) \/ Lock(k) \/ TaskStep(k)

Spec == Init /\ [][Next]_vars

\* The daemon's loop and tasks run; the mutex of tokio is a queue, hence strong
\* fairness.  A client reads what arrives, and
\* nothing else is assumed of clients: one may never write.
Fairness ==
  \A k \in Clients : /\ WF_vars(Accept(k)) /\ SF_vars(Lock(k))
                      /\ WF_vars(TaskStep(k)) /\ WF_vars(ReadAnswer(k))

FairSpec == Spec /\ Fairness

(***************************************************************************)
(* Properties.                                                             *)
(***************************************************************************)
\* The abstract service: its register is the state file, a request takes effect
\* when it is saved, and the answer in the making does not count before.
Effect == [k \in Clients |-> IF task[k] = "save" THEN NoAnswer ELSE answer[k]]

Outcome ==
  [k \in Clients |-> CASE client[k] \in {"writing", "waiting"} -> "pending"
                       [] client[k] = "ok" -> received[k]
                       [] client[k] = "none" -> "none"
                       [] OTHER -> "failed"]

Service == INSTANCE RequestService WITH
  value <- Load, faulty <- degraded, effect <- Effect, outcome <- Outcome

\* Nobody is told anything that a crash of the daemon can undo, requests take
\* effect one after the other and at most once, and every answer is that of the
\* client's own request: the mutex of handle_connection spans handler and save.
ImplementsService == Service!Spec

\* What excuses an unanswered client.
Refused(k) == ~ValidateVersion(request[k]) \/ request[k].segments > 1 \/ cut[k]

\* cerynthctl fails, by an error or by the unwrap of an empty answer, only if
\* the daemon was not there all the time, or refused the request: never because
\* of what other clients do, and never with an answer on its way.
FailuresExplained == \A k \in Clients : client[k] \in {"error", "panic"} => Refused(k)

(***************************************************************************)
(* The inductive invariant.                                                *)
(***************************************************************************)
\* The mutex protects the handler and the save; a dead daemon has no tasks.
LockInv ==
  /\ \A k \in Clients : task[k] \in {"handle", "save"} <=> holder = k
  /\ ~up => \A k \in Clients : task[k] = "none"

\* While nobody is between handler and save, the file holds the backend's
\* profile; then it holds what the handler started from.
DurableInv ==
  ~degraded =>
    /\ disk # NoProfile
    /\ up /\ holder = Nobody => memory = disk
    /\ \A k \in Clients : task[k] = "handle" => memory = disk
    /\ \A k \in Clients : task[k] = "save" =>
         [answer |-> answer[k], value |-> memory] \in Service!Effects(request[k], disk)

\* The life of an answer.
AnswerInv ==
  \A k \in Clients :
    /\ task[k] \in {"backlog", "read", "lock", "handle"} => answer[k] = NoAnswer
    /\ task[k] \in {"save", "write"} => answer[k] # NoAnswer
    /\ received[k] # NoAnswer => answer[k] = received[k] /\ task[k] = "none"
    /\ client[k] = "ok" => received[k] # NoAnswer
    /\ client[k] = "none" => task[k] = "none" /\ answer[k] = NoAnswer
                             /\ received[k] = NoAnswer

\* Who is connected to nobody without an answer was refused.
RefusalInv ==
  \A k \in Clients :
    /\ client[k] = "none" => inbox[k] = 0
    /\ client[k] = "writing" => unsent[k] > 0 /\ received[k] = NoAnswer
                                /\ task[k] \in {"none", "backlog", "read"}
    /\ client[k] \in {"writing", "waiting"} => unsent[k] + inbox[k] <= request[k].segments
    /\ client[k] \in {"writing", "waiting"} /\ task[k] = "none" /\ received[k] = NoAnswer
         => Refused(k)

IInv ==
  /\ TypeOK /\ LockInv /\ DurableInv /\ AnswerInv /\ RefusalInv /\ FailuresExplained

(***************************************************************************)
(* Liveness.                                                               *)
(***************************************************************************)
\* A client that has sent its request stops waiting, whatever the others do:
\* one that connects and never writes, one that never reads, one whose request
\* is in the handler.
Answered == \A k \in Clients : client[k] = "waiting" ~> client[k] # "waiting"
===============================================================================
