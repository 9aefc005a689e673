------------------------ MODULE AdaptivePolicyProofs ------------------------
(***************************************************************************)
(* Proofs about AdaptivePolicy: the inductive invariant, and from it the   *)
(* two promises of the stabiliser and what policy.json may recommend.      *)
(***************************************************************************)
EXTENDS AdaptivePolicy, TLAPS

\* The raw rules always name a profile.
LEMMA CandidateType == \A s : Candidate(s) \in Profiles
  BY DEF Candidate, Profiles

\* No profile stands for the absence of one.
LEMMA NoProfileIsNone == NoProfile \notin Profiles
  BY DEF NoProfile, Profiles

\* What the policy starts from is a profile.
LEMMA BaseType == TypeOK => Base \in Profiles
  BY DEF TypeOK, Base, CurrentProfile, Profiles

\* The initial states satisfy the inductive invariant.
LEMMA Base0 == Init => IInv
<1> SUFFICES ASSUME Init PROVE IInv
  OBVIOUS
<1> USE PolicyAssumption, NoProfileIsNone
<1>1. TypeOK
  <2>1. /\ run \in [profile : Profiles \union {NoProfile}, length : 0 .. MinDwell]
        /\ count \in 0 .. MinDwell - 1 /\ cooldown \in 0 .. Cooldown
        /\ since \in 0 .. Spacing
    BY DEF Init, NoRun, Spacing
  <2>2. /\ daemon \in Profiles /\ torn \in BOOLEAN
        /\ accepted = NoProfile /\ pending = NoProfile
        /\ decision = NoProfile /\ published = NoProfile
        /\ earned \in SUBSET Profiles
    BY DEF Init
  <2> QED
    BY <2>1, <2>2 DEF TypeOK
<1>2. PendingInv /\ SpacingInv /\ EarnedInv
  BY DEF Init, PendingInv, SpacingInv, EarnedInv, PublishedIsEarned, Spacing
<1> QED
  BY <1>1, <1>2 DEF IInv

\* What the history of a valid sample satisfies, whatever the outcome.
LEMMA ObserveFacts ==
  ASSUME TypeOK, NEW c \in Profiles, Observe(c)
  PROVE  /\ run' \in [profile : Profiles \union {NoProfile},
                      length : 0 .. MinDwell]
         /\ run'.profile = c /\ run'.length >= 1
         /\ run.profile = c /\ run.length < MinDwell
              => run'.length = run.length + 1
         /\ run.profile = c /\ run.length >= MinDwell => run'.length = MinDwell
         /\ since' \in 0 .. Spacing
         /\ ~Changes /\ since < Spacing => since' = since + 1
         /\ ~Changes /\ since >= Spacing => since' = Spacing
         /\ Changes => since' = 0
         /\ earned' \in SUBSET Profiles
         /\ earned \subseteq earned' /\ Base \in earned'
         /\ run'.length = MinDwell => c \in earned'
<1> USE PolicyAssumption
<1>1. /\ run.length \in 0 .. MinDwell
      /\ since \in 0 .. Spacing /\ Spacing \in Nat /\ MinDwell >= 1
  BY DEF TypeOK, Spacing
<1>2. /\ run' \in [profile : Profiles \union {NoProfile},
                   length : 0 .. MinDwell]
      /\ run'.profile = c /\ run'.length >= 1
      /\ run.profile = c /\ run.length < MinDwell
           => run'.length = run.length + 1
      /\ run.profile = c /\ run.length >= MinDwell => run'.length = MinDwell
  BY <1>1 DEF Observe, UpTo
<1>3. /\ since' \in 0 .. Spacing
      /\ ~Changes /\ since < Spacing => since' = since + 1
      /\ ~Changes /\ since >= Spacing => since' = Spacing
      /\ Changes => since' = 0
  BY <1>1 DEF Observe, UpTo
<1>4. /\ earned' \in SUBSET Profiles
      /\ earned \subseteq earned' /\ Base \in earned'
      /\ run'.length = MinDwell => c \in earned'
  BY BaseType DEF Observe, TypeOK
<1> QED
  BY <1>2, <1>3, <1>4

\* The count of supports after one more sample is backed by the run.
LEMMA SupportBacked ==
  ASSUME IInv, NEW c \in Profiles, Observe(c)
  PROVE  /\ Support(c) \in 1 .. MinDwell
         /\ Support(c) <= run'.length
<1> USE PolicyAssumption
<1>1. TypeOK /\ PendingInv
  BY DEF IInv
<1>2. CASE pending = c
  <2>1. count > 0 /\ run.profile = c /\ count <= run.length
    BY <1>1, <1>2, NoProfileIsNone DEF PendingInv, TypeOK
  <2> QED
    BY <1>1, <1>2, <2>1, ObserveFacts DEF Support, TypeOK
<1>3. CASE pending # c
  BY <1>1, <1>3, ObserveFacts DEF Support, TypeOK
<1> QED
  BY <1>2, <1>3

\* A valid sample preserves the inductive invariant.
LEMMA EvaluateStep ==
  ASSUME IInv, NEW s \in Samples, Evaluate(s)
  PROVE  IInv'
<1> DEFINE c == Candidate(s)
<1> USE PolicyAssumption, NoProfileIsNone
<1>1. c \in Profiles /\ Base \in Profiles /\ Observe(c)
  BY CandidateType, BaseType DEF IInv, Evaluate
<1> HIDE DEF c
<1>2. TypeOK /\ PendingInv /\ SpacingInv /\ EarnedInv
  BY DEF IInv
<1>3. /\ UNCHANGED <<daemon, torn, published>>
      /\ Stabilize(c)
  BY DEF Evaluate, daemonVars, c
<1>4. CASE Agree(c)
  <2>1. ~Changes
    BY <1>4 DEF Agree, Changes
  <2>2. TypeOK'
    BY <1>1, <1>2, <1>3, <1>4, ObserveFacts DEF TypeOK, Agree, NothingPending
  <2>3. PendingInv'
    BY <1>4 DEF PendingInv, Agree, NothingPending
  <2>4. SpacingInv'
    BY <1>1, <1>2, <1>4, <2>1, ObserveFacts
    DEF SpacingInv, TypeOK, Agree, NothingPending, Spacing
  <2>5. EarnedInv'
    BY <1>1, <1>2, <1>3, <1>4, ObserveFacts
    DEF EarnedInv, PublishedIsEarned, Agree
  <2> QED
    BY <2>2, <2>3, <2>4, <2>5 DEF IInv
<1>5. CASE HoldForCooldown(c)
  <2>1. ~Changes
    BY <1>5 DEF HoldForCooldown, Changes
  <2>2. TypeOK'
    BY <1>1, <1>2, <1>3, <1>5, ObserveFacts
    DEF TypeOK, HoldForCooldown, NothingPending
  <2>3. PendingInv'
    BY <1>5 DEF PendingInv, HoldForCooldown, NothingPending
  <2>4. SpacingInv'
    BY <1>1, <1>2, <1>5, <2>1, ObserveFacts
    DEF SpacingInv, TypeOK, HoldForCooldown, NothingPending, Spacing
  <2>5. EarnedInv'
    BY <1>1, <1>2, <1>3, <1>5, ObserveFacts
    DEF EarnedInv, PublishedIsEarned, HoldForCooldown
  <2> QED
    BY <2>2, <2>3, <2>4, <2>5 DEF IInv
<1>6. CASE HoldForDwell(c)
  <2>1. ~Changes
    BY <1>6 DEF HoldForDwell, Changes
  <2>2. Support(c) \in 1 .. MinDwell - 1 /\ Support(c) <= run'.length
    BY <1>1, <1>6, SupportBacked DEF HoldForDwell
  <2>3. TypeOK'
    BY <1>1, <1>2, <1>3, <1>6, <2>2, ObserveFacts DEF TypeOK, HoldForDwell
  <2>4. PendingInv'
    BY <1>1, <1>2, <1>6, <2>2, ObserveFacts DEF PendingInv, HoldForDwell
  <2>5. Support(c) <= count + 1
    BY <1>2 DEF Support, TypeOK
  <2>6. SpacingInv'
    BY <1>1, <1>2, <1>6, <2>1, <2>2, <2>5, ObserveFacts
    DEF SpacingInv, TypeOK, HoldForDwell, Spacing
  <2>7. EarnedInv'
    BY <1>1, <1>2, <1>3, <1>6, ObserveFacts
    DEF EarnedInv, PublishedIsEarned, HoldForDwell
  <2> QED
    BY <2>3, <2>4, <2>6, <2>7 DEF IInv
<1>7. CASE Accept(c)
  <2>1. Changes
    BY <1>1, <1>7 DEF Accept, Changes
  <2>2. run'.length = MinDwell
    BY <1>1, <1>2, <1>7, SupportBacked, ObserveFacts DEF Accept
  <2>3. TypeOK'
    BY <1>1, <1>2, <1>3, <1>7, ObserveFacts DEF TypeOK, Accept, NothingPending
  <2>4. PendingInv'
    BY <1>7 DEF PendingInv, Accept, NothingPending
  <2>5. SpacingInv'
    BY <1>1, <1>2, <1>7, <2>1, ObserveFacts
    DEF SpacingInv, TypeOK, Accept, NothingPending, Spacing
  <2>6. EarnedInv'
    BY <1>1, <1>2, <1>3, <1>7, <2>2, ObserveFacts
    DEF EarnedInv, PublishedIsEarned, Accept
  <2> QED
    BY <2>3, <2>4, <2>5, <2>6 DEF IInv
<1> QED
  BY <1>3, <1>4, <1>5, <1>6, <1>7 DEF Stabilize

\* Every step preserves the inductive invariant.
LEMMA Step == IInv /\ [Next]_vars => IInv'
<1> SUFFICES ASSUME IInv, [Next]_vars PROVE IInv'
  OBVIOUS
<1> USE PolicyAssumption, NoProfileIsNone
<1> USE DEF IInv, PendingInv, SpacingInv, EarnedInv, PublishedIsEarned
<1>1. ASSUME NEW s \in Samples, Evaluate(s) PROVE IInv'
  BY <1>1, EvaluateStep
<1>2. CASE EvaluateInvalid
  BY <1>2 DEF EvaluateInvalid, TypeOK, daemonVars, policyVars, history, Profiles
<1>3. CASE CollectFails
  BY <1>3 DEF CollectFails, TypeOK, daemonVars, policyVars, history, Profiles
<1>4. CASE WritePolicy
  BY <1>4 DEF WritePolicy, TypeOK, daemonVars, policyVars, history
<1>5. CASE Restart
  BY <1>5 DEF Restart, TypeOK, daemonVars, NoRun, NothingPending, Spacing
<1>6. CASE SaveTruncates
  BY <1>6 DEF SaveTruncates, TypeOK, policyVars, history
<1>7. CASE SaveWrites
  BY <1>7 DEF SaveWrites, TypeOK, policyVars, history
<1>8. CASE UNCHANGED vars
  BY <1>8 DEF vars, TypeOK
<1> QED
  BY <1>1, <1>2, <1>3, <1>4, <1>5, <1>6, <1>7, <1>8 DEF Next

\* The inductive invariant holds for every dwell, cooldown and set of samples.
THEOREM InductiveInvariant == Spec => []IInv
  BY Base0, Step, PTL DEF Spec

\* The state of the policy stays within its types: in particular the pending
\* count stays below min_dwell_samples, so its saturating addition never
\* saturates.
THEOREM TypeCorrect == Spec => []TypeOK
<1>1. IInv => TypeOK
  BY DEF IInv
<1> QED
  BY <1>1, InductiveInvariant, PTL

\* What policy.json recommends has been earned.
THEOREM RecommendationEarned == Spec => []PublishedIsEarned
<1>1. IInv => PublishedIsEarned
  BY DEF IInv, EarnedInv
<1> QED
  BY <1>1, InductiveInvariant, PTL

\* Only an accepting evaluation changes the accepted profile.
LEMMA ChangeIsAccept ==
  ASSUME IInv, [Next]_vars, Changes
  PROVE  \E c \in Profiles : Accept(c) /\ Observe(c)
<1>1. accepted' # accepted
  BY NoProfileIsNone DEF Changes, Base, IInv, TypeOK
<1>2. PICK s \in Samples : Evaluate(s)
  BY <1>1 DEF Next, vars, EvaluateInvalid, CollectFails, WritePolicy, Restart,
     SaveTruncates, SaveWrites, policyVars, Changes
<1>3. ~Agree(Candidate(s)) /\ ~HoldForCooldown(Candidate(s))
        /\ ~HoldForDwell(Candidate(s))
  BY DEF Changes, Agree, HoldForCooldown, HoldForDwell
<1>4. Accept(Candidate(s)) /\ Observe(Candidate(s))
  BY <1>2, <1>3 DEF Evaluate, Stabilize
<1> QED
  BY <1>4, CandidateType

\* Every change of the accepted profile has a full dwell of samples behind it.
THEOREM ChangesSupported == Spec => SupportedChange
<1>1. IInv /\ [Next]_vars
        => [Changes => run'.profile = accepted' /\ run'.length = MinDwell]_vars
  <2> SUFFICES ASSUME IInv, [Next]_vars, Changes
               PROVE  run'.profile = accepted' /\ run'.length = MinDwell
    OBVIOUS
  <2>1. PICK c \in Profiles : Accept(c) /\ Observe(c)
    BY ChangeIsAccept
  <2>2. Support(c) >= MinDwell /\ accepted' = c
    BY <2>1 DEF Accept
  <2>3. run'.profile = c /\ run'.length \in 0 .. MinDwell
    BY <2>1, ObserveFacts DEF IInv
  <2> QED
    BY <2>1, <2>2, <2>3, SupportBacked, PolicyAssumption
<1> QED
  BY <1>1, InductiveInvariant, PTL DEF Spec, SupportedChange

\* Two changes are a cooldown and a dwell apart.
THEOREM ChangesSpaced == Spec => SpacedChanges
<1>1. IInv /\ [Next]_vars => [Changes => since >= Spacing - 1]_vars
  <2> SUFFICES ASSUME IInv, [Next]_vars, Changes PROVE since >= Spacing - 1
    OBVIOUS
  <2>1. PICK c \in Profiles : Accept(c) /\ Observe(c)
    BY ChangeIsAccept
  <2>2. cooldown = 0 /\ Support(c) >= MinDwell
    BY <2>1 DEF Accept
  <2>3. Support(c) <= count + 1 /\ count \in Nat /\ since \in Nat
    BY PolicyAssumption DEF Support, IInv, TypeOK
  <2>4. since >= Cooldown + count
    BY <2>2 DEF IInv, SpacingInv
  <2> QED
    BY <2>2, <2>3, <2>4, PolicyAssumption DEF Support, Spacing, TypeOK
<1> QED
  BY <1>1, InductiveInvariant, PTL DEF Spec, SpacedChanges
=============================================================================
