SPECIFICATION Spec
CONSTANTS
  r1 = r1
  r2 = r2
  r3 = r3
  Runs <- MCRuns
  Profiles = {"dev", "prod", "bare"}
  Plugins <- MCPlugins
  Found <- MCFound
  ByHand = {}
  Settings <- MCSettings
SYMMETRY RunSymmetry
INVARIANTS DisturbedOnlyByOverlap SessionsReleased PluginsStay
CHECK_DEADLOCK FALSE
