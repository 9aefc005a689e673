--------------------------- MODULE AdaptivePolicy ---------------------------
(***************************************************************************)
(* The shadow policy: cerynth-policy-live samples the system once a        *)
(* second, RulesBasedPolicy turns the sample into a candidate profile and  *)
(* stabilises it with a dwell count and a cooldown, and the recommendation *)
(* is published in policy.json.  The profile the scheduler runs with is    *)
(* read from state.json, which cerynthd rewrites in place at each request. *)
(***************************************************************************)
EXTENDS Naturals

CONSTANTS
  Samples,   \* measurements telemetry can deliver
  Reported,  \* profiles users ask the daemon for
  MinDwell,  \* min_dwell_samples
  Cooldown   \* cooldown_samples

Profiles == {"balanced", "interactive", "performance", "background"}

\* None of the profiles: Option::None, and no output this round.
NoProfile == "none"

\* What the rules read: cpu and rates in whole units, load in tenths.
Sample == [cpu : Nat, load : Nat, runnable : Nat, ctxt : Nat, short : Nat]

ASSUME PolicyAssumption ==
  /\ Samples \subseteq Sample
  /\ Reported \subseteq Profiles
  /\ MinDwell \in Nat \ {0}
  /\ Cooldown \in Nat

VARIABLES
  daemon,    \* profile cerynthd has
  torn,      \* state.json is truncated, its rewrite not finished
  accepted,  \* accepted_profile
  pending,   \* pending_profile
  count,     \* pending_count
  cooldown,  \* cooldown_remaining
  decision,  \* output of the current round, not written yet
  published, \* recommended_profile in policy.json
  run,       \* history: candidate of the last valid sample, and how many
             \* valid samples in a row had it (counted up to MinDwell)
  since,     \* history: valid samples since the last change of accepted
  earned     \* history: profiles the policy may have had reason to recommend

daemonVars == <<daemon, torn>>
policyVars == <<accepted, pending, count, cooldown>>
history    == <<run, since, earned>>
vars == <<daemon, torn, accepted, pending, count, cooldown, decision,
          published, run, since, earned>>

\* since is counted up to here: the longest wait the code may impose.
Spacing == Cooldown + MinDwell

TypeOK ==
  /\ daemon \in Profiles
  /\ torn \in BOOLEAN
  /\ accepted \in Profiles \union {NoProfile}
  /\ pending \in Profiles \union {NoProfile}
  /\ count \in 0 .. MinDwell - 1
  /\ cooldown \in 0 .. Cooldown
  /\ decision \in Profiles \union {NoProfile}
  /\ published \in Profiles \union {NoProfile}
  /\ run \in [profile : Profiles \union {NoProfile}, length : 0 .. MinDwell]
  /\ since \in 0 .. Spacing
  /\ earned \in SUBSET Profiles

NoRun == [profile |-> NoProfile, length |-> 0]

Init ==
  /\ daemon \in Reported
  /\ torn = FALSE
  /\ accepted = NoProfile /\ pending = NoProfile
  /\ count = 0 /\ cooldown = 0
  /\ decision = NoProfile
  /\ published = NoProfile
  /\ run = NoRun /\ since = Spacing /\ earned = {}

(***************************************************************************)
(* The raw recommendation.                                                 *)
(***************************************************************************)
Saturated(s) == s.cpu >= 90 /\ s.load >= 10 /\ s.runnable >= 2

Responsive(s) ==
  s.runnable >= 2 /\ (s.short >= 5 \/ (s.ctxt >= 500 /\ s.runnable >= 3))

Quiet(s) == s.cpu < 10 /\ s.load < 5 /\ s.runnable <= 1 /\ s.short < 1

\* The first rule that matches; the code's last two rules are both Balanced.
Candidate(s) ==
  IF Saturated(s) THEN "performance"
  ELSE IF Responsive(s) THEN "interactive"
  ELSE IF Quiet(s) THEN "background"
  ELSE "balanced"

(***************************************************************************)
(* RulesBasedPolicy::stabilize.                                            *)
(***************************************************************************)
\* The scheduler's profile, Balanced if state.json cannot be read.
CurrentProfile == IF torn THEN "balanced" ELSE daemon

\* The first evaluation starts from the profile the scheduler reports.
Base == IF accepted = NoProfile THEN CurrentProfile ELSE accepted

\* Seeded fault: the count goes on when the candidate changes.
SupportOfAny(c) == count + 1

\* pending_count after one more sample for c.
Support(c) == IF pending = c THEN count + 1 ELSE 1

NothingPending == pending' = NoProfile /\ count' = 0

Agree(c) ==
  /\ c = Base
  /\ NothingPending
  /\ cooldown' = IF cooldown > 0 THEN cooldown - 1 ELSE 0
  /\ accepted' = Base
  /\ decision' = c

\* Seeded faults: other candidates do not use the cooldown up; a candidate is
\* recommended while it is held back, or is held one sample too long.
HoldForCooldownForever(c) ==
  /\ c # Base /\ cooldown > 0
  /\ NothingPending
  /\ accepted' = Base
  /\ decision' = Base
  /\ UNCHANGED cooldown
HoldForDwellLeaks(c) ==
  /\ c # Base /\ cooldown = 0 /\ Support(c) < MinDwell
  /\ pending' = c /\ count' = Support(c)
  /\ accepted' = Base
  /\ decision' = c
  /\ UNCHANGED cooldown
HoldForDwellLong(c) ==
  /\ c # Base /\ cooldown = 0 /\ Support(c) <= MinDwell
  /\ pending' = c /\ count' = Support(c)
  /\ accepted' = Base
  /\ decision' = Base
  /\ UNCHANGED cooldown

HoldForCooldown(c) ==
  /\ c # Base /\ cooldown > 0
  /\ NothingPending
  /\ cooldown' = cooldown - 1
  /\ accepted' = Base
  /\ decision' = Base

HoldForDwell(c) ==
  /\ c # Base /\ cooldown = 0 /\ Support(c) < MinDwell
  /\ pending' = c /\ count' = Support(c)
  /\ accepted' = Base
  /\ decision' = Base
  /\ UNCHANGED cooldown

\* Seeded fault: a change does not start the cooldown.
AcceptNoCooldown(c) ==
  /\ c # Base /\ cooldown = 0 /\ Support(c) >= MinDwell
  /\ accepted' = c
  /\ NothingPending
  /\ decision' = c
  /\ UNCHANGED cooldown

Accept(c) ==
  /\ c # Base /\ cooldown = 0 /\ Support(c) >= MinDwell
  /\ accepted' = c
  /\ NothingPending
  /\ cooldown' = Cooldown
  /\ decision' = c

Stabilize(c) == Agree(c) \/ HoldForCooldown(c) \/ HoldForDwell(c) \/ Accept(c)

(***************************************************************************)
(* The live loop.                                                          *)
(***************************************************************************)
UpTo(n, bound) == IF n < bound THEN n ELSE bound

\* accepted becomes something else than what the policy started from.
Changes == accepted' \notin {Base, NoProfile}

\* History of a valid sample with candidate c.
Observe(c) ==
  LET again == run.profile = c IN
  /\ run' = [profile |-> c,
             length |-> IF again THEN UpTo(run.length + 1, MinDwell) ELSE 1]
  /\ since' = IF Changes THEN 0 ELSE UpTo(since + 1, Spacing)
  /\ earned' = earned \union {Base}
                 \union (IF run'.length = MinDwell THEN {c} ELSE {})

\* collect and evaluate, with the profile read from state.json in between.
Evaluate(s) ==
  /\ decision = NoProfile
  /\ Stabilize(Candidate(s))
  /\ Observe(Candidate(s))
  /\ UNCHANGED <<daemonVars, published>>

\* evaluate returns early on a value that is not finite; the row of supports
\* goes on as if this round had not been.
EvaluateInvalid ==
  /\ decision = NoProfile
  /\ decision' = "balanced"
  /\ UNCHANGED <<daemonVars, policyVars, published, history>>

\* A file of /proc cannot be read: the policy is not asked.
CollectFails ==
  /\ decision = NoProfile
  /\ decision' = "balanced"
  /\ UNCHANGED <<daemonVars, policyVars, published, history>>

\* write_policy; if it fails the file keeps the old recommendation.
WritePolicy ==
  /\ decision # NoProfile
  /\ published' \in {decision, published}
  /\ decision' = NoProfile
  /\ UNCHANGED <<daemonVars, policyVars, history>>

\* The process fails and systemd starts it again.
Restart ==
  /\ accepted' = NoProfile
  /\ NothingPending
  /\ cooldown' = 0
  /\ decision' = NoProfile
  /\ run' = NoRun /\ since' = Spacing
  /\ UNCHANGED <<daemonVars, published, earned>>

(***************************************************************************)
(* cerynthd: a request, with or without a new profile, is followed by a    *)
(* save that truncates state.json and then fills it.                       *)
(***************************************************************************)
SaveTruncates ==
  /\ ~torn
  /\ daemon' \in Reported
  /\ torn' = TRUE
  /\ UNCHANGED <<policyVars, decision, published, history>>

SaveWrites ==
  /\ torn
  /\ torn' = FALSE
  /\ UNCHANGED <<daemon, policyVars, decision, published, history>>

Next ==
  \/ \E s \in Samples : Evaluate(s)
  \/ EvaluateInvalid \/ CollectFails \/ WritePolicy \/ Restart
  \/ SaveTruncates \/ SaveWrites

Spec == Init /\ [][Next]_vars

\* The loop goes round once a second, and telemetry does not fail for ever.
Fairness == WF_vars(WritePolicy) /\ SF_vars(\E s \in Samples : Evaluate(s))

FairSpec == Spec /\ Fairness

(***************************************************************************)
(* Properties.                                                             *)
(***************************************************************************)
\* The accepted profile changes only to one that the raw rules have named for
\* min_dwell_samples valid samples in a row, the last one included: neither a
\* candidate that alternates nor one seen before or during a cooldown counts.
SupportedChange ==
  [][Changes => run'.profile = accepted' /\ run'.length = MinDwell]_vars

\* Two changes are at least a cooldown and a full dwell apart, so samples
\* taken during the cooldown never count towards the dwell.
SpacedChanges == [][Changes => since >= Spacing - 1]_vars

\* policy.json recommends Balanced, a profile the scheduler reported when a
\* policy started, or one that a full dwell of samples has supported.
PublishedIsEarned == published \in earned \union {"balanced", NoProfile}

(***************************************************************************)
(* The inductive invariant behind the safety properties.                   *)
(***************************************************************************)
\* The pending count never exceeds the run of samples that backs it.
PendingInv ==
  /\ pending = NoProfile <=> count = 0
  /\ count > 0 => run.profile = pending /\ count <= run.length

\* Cooldown and pending count measure the time since the last change.
SpacingInv ==
  /\ cooldown > 0 => count = 0 /\ since + cooldown >= Cooldown
  /\ cooldown = 0 => since >= Cooldown + count

EarnedInv ==
  /\ accepted \in earned \union {NoProfile}
  /\ decision \in earned \union {"balanced", NoProfile}
  /\ PublishedIsEarned

IInv == TypeOK /\ PendingInv /\ SpacingInv /\ EarnedInv

(***************************************************************************)
(* Liveness.                                                               *)
(***************************************************************************)
\* A workload that keeps naming one profile gets it accepted for good, however
\* the cooldown and the samples before stood.
SteadyWorkloadFollowed ==
  \A p \in Profiles : <>[](run.profile = p) => <>[](accepted = p)
=============================================================================
