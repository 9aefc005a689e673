------------------------- MODULE MCRustlandDispatch -------------------------
(* Small instances of RustlandDispatch for TLC. *)
EXTENDS RustlandDispatch

CONSTANTS c1, c2, t1, t2

\* Tasks pinned to c1, or one that may also roam.
MCMasks == {{c1}, {c1, c2}}
MCOneCPU == {{c1}}

\* Bound: no task exits.  When every task is pinned and enqueued once, one that
\* exits and one that sleeps behave alike from then on.
MCLasting == \A t \in Tasks : st'[t] # "gone"
MCLastingSpec == Init /\ [][Next /\ MCLasting]_vars /\ Progress
=============================================================================
