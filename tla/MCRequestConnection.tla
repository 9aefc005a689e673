-------------------------- MODULE MCRequestConnection --------------------------
EXTENDS RequestConnection

CONSTANTS k1, k2, balanced, performance

\* A reader whose line comes in two pieces, a writer, a lifecycle request, and
\* one of a protocol that is too new.
MCRequests ==
  {[type |-> "ping",        profile |-> NoProfile,   version |-> 2, segments |-> 2],
   [type |-> "set-profile", profile |-> performance, version |-> 1, segments |-> 1],
   [type |-> "start",       profile |-> NoProfile,   version |-> 2, segments |-> 1],
   [type |-> "stop",        profile |-> NoProfile,   version |-> 3, segments |-> 1]}
================================================================================
