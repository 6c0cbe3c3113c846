SPECIFICATION MCSpec
CONSTANTS
  Sites = {a, b}
  Subs = {sub}
  Presets = {a}
  Bundles = {a}
  Providers <- TwoProviders
  none = none
  MaxAsks = 2
  MaxRuns = 2
  MaxMade = 3
INVARIANT VhostShowsDisk
CHECK_DEADLOCK FALSE
