-------------------------- MODULE MCStatusPublisher --------------------------
(* Small instances of StatusPublisher for TLC. *)
EXTENDS StatusPublisher, TLC

CONSTANTS p1, p2

\* In the safety runs the processes are interchangeable.
MCSymmetry == Permutations(Pids)
=============================================================================
