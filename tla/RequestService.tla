---------------------------- MODULE RequestService ----------------------------
(***************************************************************************)
(* What the control socket of cerynthd promises its clients: a durable     *)
(* profile, on which every request takes effect at most once and at one    *)
(* instant, and an answer that was computed at that instant.               *)
(*                                                                         *)
(* A client that fails learns nothing: its request may have taken effect,  *)
(* may still do so, or never will.  Once the state file could not be       *)
(* written the promise is void.                                            *)
(***************************************************************************)
EXTENDS RequestEffects

CONSTANTS
  Clients,   \* client processes
  Profiles,  \* values of Profile
  Requests,  \* requests the clients may make
  NoAnswer   \* no answer yet

VARIABLES
  value,    \* the profile in force, as any later daemon will know it
  faulty,   \* the state file could not be written at least once
  request,  \* the request of each client
  effect,   \* the answer computed when it took effect, else NoAnswer
  outcome   \* what the client knows: "none", "pending", "failed" or an answer

vars == <<value, faulty, request, effect, outcome>>

Answers == Profiles \union {"success", "error"}

Init ==
  /\ value \in Profiles
  /\ faulty = FALSE
  /\ request \in [Clients -> Requests]
  /\ effect = [k \in Clients |-> NoAnswer]
  /\ outcome = [k \in Clients |-> "none"]

Call(k) ==
  /\ outcome[k] = "none"
  /\ request' \in {[request EXCEPT ![k] = r] : r \in Requests}
  /\ outcome' \in {[outcome EXCEPT ![k] = o] : o \in {"pending", "failed"}}
  /\ UNCHANGED <<value, faulty, effect>>

TakeEffect(k) ==
  /\ outcome[k] # "none" /\ effect[k] = NoAnswer
  /\ \/ \E e \in Effects(request[k], value) :
          effect' = [effect EXCEPT ![k] = e.answer] /\ value' = e.value
     \/ /\ faulty'
        /\ value' \in Profiles
        /\ effect' \in {[effect EXCEPT ![k] = a] : a \in Answers}
  /\ faulty' \in {faulty, TRUE}
  /\ UNCHANGED <<request, outcome>>

Return(k) ==
  /\ outcome[k] = "pending" /\ effect[k] # NoAnswer
  /\ outcome' = [outcome EXCEPT ![k] = effect[k]]
  /\ UNCHANGED <<value, faulty, request, effect>>

Fail(k) ==
  /\ outcome[k] = "pending"
  /\ outcome' = [outcome EXCEPT ![k] = "failed"]
  /\ UNCHANGED <<value, faulty, request, effect>>

\* The process has ended; the next one asks anew.
Forget(k) ==
  /\ outcome[k] \notin {"none", "pending"}
  /\ outcome' = [outcome EXCEPT ![k] = "none"]
  /\ effect' = [effect EXCEPT ![k] = NoAnswer]
  /\ UNCHANGED <<value, faulty, request>>

\* The state file is lost.
Break ==
  /\ faulty' = TRUE
  /\ value' \in Profiles
  /\ UNCHANGED <<request, effect, outcome>>

Next ==
  \/ \E k \in Clients : Call(k) \/ TakeEffect(k) \/ Return(k) \/ Fail(k) \/ Forget(k)
  \/ Break

Spec == Init /\ [][Next]_vars
===============================================================================
