CONSTANTS
  k1 = k1
  k2 = k2
  balanced = balanced
  performance = performance
  Clients = {k1, k2}
  Nobody = Nobody
  Profiles = {balanced, performance}
  Default = balanced
  NoProfile = NoProfile
  NoAnswer = NoAnswer
  Requests <- MCRequests
SPECIFICATION FairSpec
INVARIANTS TypeOK FailuresExplained
PROPERTIES ImplementsService Answered
