-------------------------- MODULE MCAdaptivePolicy --------------------------
(* Small instances of AdaptivePolicy for TLC. *)
EXTENDS AdaptivePolicy

M(cpu, load, runnable, ctxt, short) ==
  [cpu |-> cpu, load |-> load, runnable |-> runnable, ctxt |-> ctxt,
   short |-> short]

\* Samples at the thresholds of the rules: just saturated; one tenth of load
\* short of it; process churn alone; just quiet; one percent too busy for it.
MCSamples ==
  {M(90, 10, 2, 0, 0), M(100, 9, 3, 500, 0), M(9, 4, 2, 0, 5), M(9, 4, 1, 0, 0),
   M(10, 4, 1, 0, 0)}

MCReported == {"balanced", "interactive"}
=============================================================================
