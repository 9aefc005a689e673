CONSTANTS
  p1 = p1
  p2 = p2
  balanced = balanced
  interactive = interactive
  Pids = {p1, p2}
  NoPid = NoPid
  Profiles = {balanced, interactive}
  Default = balanced
  NoProfile = NoProfile
SPECIFICATION Spec
PROPERTY SettingsAlwaysSurvive
