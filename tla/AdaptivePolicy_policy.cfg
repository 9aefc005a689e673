CONSTANTS
  Samples <- MCSamples
  Reported <- MCReported
  MinDwell = 3
  Cooldown = 5
SPECIFICATION FairSpec
INVARIANTS TypeOK PublishedIsEarned
PROPERTIES SupportedChange SpacedChanges SteadyWorkloadFollowed
