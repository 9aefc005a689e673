---------------------------- MODULE RequestEffects ----------------------------
(***************************************************************************)
(* What one request may do to the profile, and how it may be answered.     *)
(* RequestService promises it to the clients, RequestConnection takes the  *)
(* handler for one such step, ControlPlane shows that the handler is one.  *)
(***************************************************************************)

\* A reading request is answered with the profile; a change of the profile may
\* fail before or after it counts; a lifecycle request leaves the profile alone.
Effects(r, v) ==
  CASE r.type = "set-profile" ->
         {[answer |-> "success", value |-> r.profile]}
         \union [answer : {"error"}, value : {v, r.profile}]
    [] r.type \in {"start", "stop"} -> [answer : {"success", "error"}, value : {v}]
    [] OTHER -> {[answer |-> v, value |-> v]}
===============================================================================
